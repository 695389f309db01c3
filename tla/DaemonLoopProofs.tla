-------------------------- MODULE DaemonLoopProofs --------------------------
(***************************************************************************)
(* The safety properties of the loop for every set of clients, lines,      *)
(* profiles, supplies and outcomes of I/O: its types, what survives a      *)
(* restart, what a guest can change and what client and daemon understand. *)
(***************************************************************************)
EXTENDS DaemonLoop, SequenceTheorems, FiniteSetTheorems, TLAPS

-----------------------------------------------------------------------------
\* Settings

Default == [auto |-> AutoDefault, timeout |-> TimeoutSupported /\ TimeoutDefault]

\* The settings a restart would come back with.
Kept == IF saved = {} THEN {Default} ELSE saved

\* No machine without a timeout has it switched on, in memory or in the file.
SettingsInv ==
    /\ enabled \in BOOLEAN /\ autoApply \in BOOLEAN /\ running \in BOOLEAN
    /\ enabled => TimeoutSupported
    /\ saved = {} \/ \E s \in SavedSettings : saved = {s} /\ (s.timeout => TimeoutSupported)
    /\ pc # "exit" /\ ~refused => Settings \in Kept

\* A step that leaves the settings and the file alone, in a daemon that runs on
\* or ends.
LEMMA SettingsUntouched ==
    ASSUME SettingsInv, UNCHANGED <<enabled, autoApply, saved, refused>>, running' \in BOOLEAN,
           pc # "exit" \/ pc' = "exit"
    PROVE  SettingsInv'
BY DEF SettingsInv, Settings, Kept, Default

\* A command that saved.
LEMMA SettingsSaved ==
    ASSUME SettingsInv, enabled' \in BOOLEAN, autoApply' \in BOOLEAN, running' \in BOOLEAN,
           enabled' => TimeoutSupported, saved' = {Settings'}
    PROVE  SettingsInv'
  <1>1. Settings' \in SavedSettings /\ (Settings'.timeout => TimeoutSupported)
    BY DEF Settings, SavedSettings
  <1>2. Settings' \in Kept'
    BY DEF Kept
  <1>3. QED
    BY <1>1, <1>2 DEF SettingsInv

LEMMA SettingsAtStart == Init => SettingsInv
BY KeyboardAssumption, PowerAssumption DEF Init, KbInit, SettingsInv

LEMMA StartSettings == ASSUME SettingsInv, Start PROVE SettingsInv'
  <1>1. running' = TRUE /\ (saved = {} => saved' \in {{}, {Settings'}}) /\ (saved # {} => saved' = saved)
    BY DEF Start
  <1>2. CASE saved = {}
    <2>1. enabled' = (TimeoutSupported /\ TimeoutDefault) /\ autoApply' = AutoDefault
      BY <1>2 DEF Start, KbStart, PowerStart
    <2>2. enabled' \in BOOLEAN /\ autoApply' \in BOOLEAN
      BY <2>1, KeyboardAssumption, PowerAssumption
    <2>3. CASE saved' = {Settings'}
      BY <1>1, <2>1, <2>2, <2>3, SettingsSaved
    <2>4. CASE saved' = {}
      BY <1>1, <2>1, <2>2, <2>4 DEF SettingsInv, Settings, Kept, Default
    <2>5. QED
      BY <1>1, <1>2, <2>3, <2>4
  <1>3. CASE saved # {}
    <2>1. PICK s \in SavedSettings : saved = {s} /\ (s.timeout => TimeoutSupported)
      BY <1>3 DEF SettingsInv
    <2>2. {u.timeout : u \in saved} = {s.timeout} /\ {u.auto : u \in saved} = {s.auto}
      BY <2>1
    <2>3. enabled' = (TimeoutSupported /\ s.timeout) /\ autoApply' = s.auto
      BY <1>3, <2>2 DEF Start, KbStart, PowerStart
    <2>4. s = [auto |-> s.auto, timeout |-> s.timeout] /\ s.auto \in BOOLEAN /\ s.timeout \in BOOLEAN
      BY <2>1 DEF SavedSettings
    <2>5. enabled' = s.timeout /\ autoApply' = s.auto
      BY <2>1, <2>3, <2>4, KeyboardAssumption
    <2>6. Settings' = s
      BY <2>4, <2>5 DEF Settings
    <2>7. QED
      BY <1>1, <1>3, <2>1, <2>4, <2>5, <2>6 DEF SettingsInv, Kept
  <1>4. QED
    BY <1>2, <1>3

\* A command that is run, and whose state file, when it writes one, is written.
LEMMA ServeSettings ==
    ASSUME SettingsInv, Saves = {TRUE}, Serve
    PROVE  SettingsInv'
  <1> USE DEF SettingsInv
  <1>1. pc = "read" /\ pc' = "top"
    BY DEF Serve, Served
  <1>2. ASSUME UNCHANGED <<kbVars, powerVars, running>>, NotSaved PROVE SettingsInv'
    BY <1>1, <1>2, SettingsUntouched DEF kbVars, powerVars, NotSaved
  <1>3. ASSUME NEW line, NEW ok, KeyboardSetCommand(line, ok) PROVE SettingsInv'
    BY <1>1, <1>3, SettingsUntouched DEF KeyboardSetCommand, KbSet, powerVars, NotSaved
  <1>4. ASSUME NEW line, KeyboardTimeoutCommand(line, TRUE) PROVE SettingsInv'
    <2>1. CASE TimeoutSupported
      BY <1>4, <2>1, SettingsSaved DEF KeyboardTimeoutCommand, KbTimeout, Save, powerVars
    <2>2. CASE ~TimeoutSupported
      BY <1>1, <1>4, <2>2, SettingsUntouched DEF KeyboardTimeoutCommand, kbVars, powerVars, NotSaved
    <2>3. QED
      BY <2>1, <2>2
  <1>5. ASSUME NEW line, NEW ok, PowerApplyCommand(line, ok) PROVE SettingsInv'
    BY <1>1, <1>5, SettingsUntouched DEF PowerApplyCommand, PowerApply, kbVars, NotSaved
  <1>6. ASSUME NEW line, NEW ok, PowerAutoCommand(line, ok, TRUE) PROVE SettingsInv'
    <2> DEFINE on == line[3] = "on"
    <2>1. CASE ~PolicyAvailable
      BY <1>1, <1>6, <2>1, SettingsUntouched DEF PowerAutoCommand, kbVars, powerVars, NotSaved
    <2>2. CASE PolicyAvailable /\ PowerAutoRefused(on, ok)
      <3>1. /\ saved' = saved /\ refused' = (refused \/ ~autoApply)
            /\ autoApply' = TRUE /\ enabled' = enabled /\ running' = running
        BY <1>6, <2>2 DEF PowerAutoCommand, PowerAuto, PowerAutoRefused, kbVars
      <3>2. QED
        BY <1>1, <3>1 DEF Settings, Kept, Default
    <2>3. CASE PolicyAvailable /\ ~PowerAutoRefused(on, ok)
      <3>1. autoApply' = on /\ enabled' = enabled /\ running' = running /\ saved' = {Settings'}
        BY <1>6, <2>3 DEF PowerAutoCommand, PowerAuto, kbVars, Save
      <3>2. QED
        BY <3>1, SettingsSaved
    <2>4. QED
      BY <2>1, <2>2, <2>3
  <1>7. ASSUME NEW line, NEW ok, ProfileCommand(line, ok) PROVE SettingsInv'
    BY <1>1, <1>7, SettingsUntouched DEF ProfileCommand, SetProfile, kbVars, NotSaved
  <1>8. ASSUME NEW line, OtherCommand(line, TRUE) PROVE SettingsInv'
    <2>1. /\ enabled' = enabled /\ autoApply' = autoApply /\ running' \in BOOLEAN
          /\ saved' = {Settings'} \/ UNCHANGED <<saved, refused>>
      BY <1>8 DEF OtherCommand, kbVars, powerVars, Save, NotSaved
    <2>2. CASE saved' = {Settings'}
      BY <2>1, <2>2, SettingsSaved
    <2>3. CASE UNCHANGED <<saved, refused>>
      BY <1>1, <2>1, <2>3, SettingsUntouched
    <2>4. QED
      BY <2>1, <2>2, <2>3
  <1>9. QED
    BY <1>2, <1>3, <1>4, <1>5, <1>6, <1>7, <1>8 DEF Serve

LEMMA StepSettings ==
    ASSUME SettingsInv, Saves = {TRUE}, [Next]_vars
    PROVE  SettingsInv'
  <1> USE DEF SettingsInv
  <1>1. CASE Start
    BY <1>1, StartSettings
  <1>2. CASE Crash \/ Signal \/ Leave \/ Timeout \/ SelectFails
    BY <1>2, SettingsUntouched
       DEF Crash, Signal, Leave, Timeout, SelectFails, Ends, kbVars, powerVars
  <1>3. CASE Poll
    <2>1. UNCHANGED <<enabled, autoApply, saved, refused, running>> /\ pc # "exit"
      BY <1>3 DEF Poll, PowerTick, PollKeyboard, KbTick, kbVars, powerVars
    <2>2. QED
      BY <2>1, SettingsUntouched
  <1>4. CASE Wake
    <2>1. UNCHANGED <<enabled, autoApply, saved, refused, running>> /\ pc # "exit"
      BY <1>4 DEF Wake, KbTick, kbVars, powerVars
    <2>2. QED
      BY <2>1, SettingsUntouched
  <1>5. CASE Serve
    BY <1>5, ServeSettings
  <1>6. CASE InvalidCommand
    BY <1>6, SettingsUntouched DEF InvalidCommand, NotSaved, Served, kbVars, powerVars
  <1>7. CASE TimePasses \/ GoesIdle \/ KeyPress \/ ComesToRest \/ \E c \in Clients : Connect(c)
    BY <1>7, SettingsUntouched
       DEF TimePasses, GoesIdle, KeyPress, ComesToRest, Connect, Rest, kbVars, powerVars
  <1>8. CASE BrightnessKey \/ SupplyChange
    BY <1>8, SettingsUntouched DEF BrightnessKey, SupplyChange, loopVars, kbVars, powerVars
  <1>9. CASE UNCHANGED vars
    BY <1>9, SettingsUntouched DEF vars, loopVars, kbVars, powerVars
  <1>10. QED
    BY <1>1, <1>2, <1>3, <1>4, <1>5, <1>6, <1>7, <1>8, <1>9 DEF Next

\* A restart brings back the settings in force, whatever commands, crashes,
\* clients, profiles and failed EC writes came before, as long as the state
\* file can be written (write_control_state, restore_runtime_state_from_json).
THEOREM SettingsKept ==
    ASSUME Saves = {TRUE}
    PROVE  Spec => []SettingsSurviveRestart
  <1>1. Init => SettingsInv
    BY SettingsAtStart
  <1>2. SettingsInv /\ [Next]_vars => SettingsInv'
    BY StepSettings
  <1>3. SettingsInv => SettingsSurviveRestart
    BY DEF SettingsInv, SettingsSurviveRestart, Kept, Default
  <1>4. QED
    BY <1>1, <1>2, <1>3, PTL DEF Spec

-----------------------------------------------------------------------------
\* Guests

Harmless == UNCHANGED <<light, enabled, timedOff, restore, autoApply, last, profile, saved, running>>

\* One client at a time, and only while its command is read.
ClientInv ==
    /\ \A b, c \in client : b = c /\ pc = "read"
    /\ running \in BOOLEAN

LEMMA ClientAtStart == Init => ClientInv
BY DEF Init, ClientInv

LEMMA ClientKept == ClientInv /\ [Next]_vars => ClientInv'
  <1> SUFFICES ASSUME ClientInv, [Next]_vars PROVE ClientInv'
    OBVIOUS
  <1> USE DEF ClientInv
  <1>1. CASE Start
    BY <1>1 DEF Start
  <1>2. CASE Crash \/ Leave \/ SelectFails
    BY <1>2 DEF Crash, Leave, SelectFails, Ends
  <1>3. CASE Signal
    BY <1>3 DEF Signal
  <1>4. CASE Poll \/ Timeout
    BY <1>4 DEF Poll, Timeout
  <1>5. CASE Wake
    BY <1>5 DEF Wake, AcceptOne
  <1>6. CASE Serve
    <2>1. client' = {}
      BY <1>6 DEF Serve, Served
    <2>2. running' \in BOOLEAN
      BY <1>6 DEF Serve, KeyboardSetCommand, KeyboardTimeoutCommand, PowerApplyCommand,
                  PowerAutoCommand, ProfileCommand, OtherCommand
    <2>3. QED
      BY <2>1, <2>2
  <1>7. CASE InvalidCommand
    BY <1>7 DEF InvalidCommand, Served
  <1>8. CASE TimePasses \/ GoesIdle \/ KeyPress \/ ComesToRest
    BY <1>8 DEF TimePasses, GoesIdle, KeyPress, ComesToRest, Rest
  <1>9. CASE BrightnessKey \/ SupplyChange \/ UNCHANGED vars
    BY <1>9 DEF BrightnessKey, SupplyChange, vars, loopVars
  <1>10. CASE \E c \in Clients : Connect(c)
    BY <1>10 DEF Connect, Rest
  <1>11. QED
    BY <1>1, <1>2, <1>3, <1>4, <1>5, <1>6, <1>7, <1>8, <1>9, <1>10 DEF Next

\* What a line must be to be run for a client without control.
LEMMA GuestsRun ==
    ASSUME NEW line \in InputLines, NEW allowed, ~allowed, Dispatch(line, allowed) = "run"
    PROVE  line[1] \in Open
  <1>1. line # <<>> /\ Head(line) \in Open \cup Mixed \cup RequiresControl
    BY DEF Dispatch
  <1>2. Head(line) = line[1]
    BY <1>1, LoopAssumption
  <1>3. Head(line) \notin RequiresControl /\ Head(line) \notin Mixed
    BY DEF Dispatch
  <1>4. QED
    BY <1>1, <1>2, <1>3

LEMMA ServeHarmless ==
    ASSUME ClientInv, Serve, NEW c \in client, ~CanControl(Peer[c])
    PROVE  Harmless
  <1>1. client = {c}
    BY DEF ClientInv
  <1>2. PICK line \in InputLines :
          IF Dispatch(line, CanControl(Peer[c])) = "run"
          THEN \/ \E ok \in Outcomes : KeyboardSetCommand(line, ok)
               \/ \E save \in Saves : KeyboardTimeoutCommand(line, save)
               \/ \E ok \in ProfileOutcomes : PowerApplyCommand(line, ok)
               \/ \E ok \in ProfileOutcomes, save \in Saves : PowerAutoCommand(line, ok, save)
               \/ \E ok \in ProfileOutcomes : ProfileCommand(line, ok)
               \/ \E save \in Saves : OtherCommand(line, save)
          ELSE UNCHANGED <<kbVars, powerVars, running>> /\ NotSaved
    BY <1>1 DEF Serve
  <1>3. CASE Dispatch(line, CanControl(Peer[c])) # "run"
    BY <1>2, <1>3 DEF Harmless, kbVars, powerVars, NotSaved
  <1>4. CASE Dispatch(line, CanControl(Peer[c])) = "run"
    <2>1. line[1] \in Open
      BY <1>4, GuestsRun
    <2>2. line[1] \notin {"keyboard-backlight", "power-source", "profile", "stop", "set",
                          "preset", "auto", "firmware-auto", "fan-mode", "coolboost"}
      BY <2>1 DEF Open
    <2>3. ASSUME NEW word, NEW v, NEW w, HasShape(line, <<{word}, v, w>>)
          PROVE  line[1] = word
      <3>1. Len(line) = 3 /\ line \in Seq(STRING)
        BY <2>3, LoopAssumption DEF HasShape
      <3>2. 1 \in DOMAIN line
        BY <3>1
      <3>3. line[1] \in {word}
        BY <2>3, <3>2 DEF HasShape
      <3>4. QED
        BY <3>3
    <2>4. \A ok, save : ~KeyboardSetCommand(line, ok) /\ ~KeyboardTimeoutCommand(line, save)
                        /\ ~PowerAutoCommand(line, ok, save)
      BY <2>2, <2>3 DEF KeyboardSetCommand, KeyboardTimeoutCommand, PowerAutoCommand
    <2>5. \A ok : ~PowerApplyCommand(line, ok) /\ ~ProfileCommand(line, ok)
      BY <2>2 DEF PowerApplyCommand, ProfileCommand
    <2>6. PICK save \in Saves : OtherCommand(line, save)
      BY <1>2, <1>4, <2>4, <2>5
    <2>7. running' = running
      BY <2>2, <2>6 DEF OtherCommand, ClientInv
    <2>8. QED
      BY <2>2, <2>6, <2>7 DEF OtherCommand, Harmless, kbVars, powerVars, NotSaved
  <1>5. QED
    BY <1>3, <1>4

\* Nothing a client without control sends, in any order and whatever other
\* clients, polls and signals do, changes a setting, a register, the state file
\* or ends the daemon (ensure_control and the requires_control column).
THEOREM GuestsAreHarmless == Spec => GuestsChangeNothing
  <1> DEFINE Step == \A c \in client : ~CanControl(Peer[c]) /\ pc' = "top" => Harmless
  <1>1. Init => ClientInv
    BY ClientAtStart
  <1>2. ClientInv /\ [Next]_vars => ClientInv'
    BY ClientKept
  <1>3. ClientInv /\ [Next]_vars => [Step]_vars
    <2> SUFFICES ASSUME ClientInv, Next, NEW c \in client, ~CanControl(Peer[c]), pc' = "top"
                 PROVE  Harmless
      OBVIOUS
    <2>1. pc = "read"
      BY DEF ClientInv
    <2>2. Serve \/ InvalidCommand \/ BrightnessKey \/ SupplyChange
      BY <2>1 DEF Next, Start, Crash, Leave, Poll, Timeout, Wake, SelectFails, Ends, Signal,
                  TimePasses, GoesIdle, KeyPress, ComesToRest, Connect, Rest
    <2>3. ~BrightnessKey /\ ~SupplyChange
      BY <2>1 DEF BrightnessKey, SupplyChange, loopVars
    <2>4. InvalidCommand => Harmless
      BY DEF InvalidCommand, NotSaved, kbVars, powerVars, Harmless
    <2>5. QED
      BY <2>2, <2>3, <2>4, ServeHarmless
  <1> HIDE DEF Step
  <1>4. Spec => [][Step]_vars
    BY <1>1, <1>2, <1>3, PTL DEF Spec
  <1>5. QED
    BY <1>4 DEF Step, Harmless, GuestsChangeNothing

-----------------------------------------------------------------------------
\* What client and daemon understand

LEMMA ShapeOfOne ==
    ASSUME NEW S, NEW line \in Seq(S), NEW a
    PROVE  HasShape(line, <<a>>) <=> Len(line) = 1 /\ line[1] \in a
BY DEF HasShape

LEMMA ShapeOfTwo ==
    ASSUME NEW S, NEW line \in Seq(S), NEW a, NEW b
    PROVE  HasShape(line, <<a, b>>) <=> Len(line) = 2 /\ line[1] \in a /\ line[2] \in b
  <1>1. ASSUME HasShape(line, <<a, b>>) PROVE Len(line) = 2 /\ line[1] \in a /\ line[2] \in b
    <2>1. Len(line) = 2 /\ DOMAIN line = 1..2 /\ \A i \in 1..2 : line[i] \in <<a, b>>[i]
      BY <1>1 DEF HasShape
    <2>2. QED
      BY <2>1
  <1>2. ASSUME Len(line) = 2, line[1] \in a, line[2] \in b PROVE HasShape(line, <<a, b>>)
    BY <1>2 DEF HasShape
  <1>3. QED
    BY <1>1, <1>2

LEMMA ShapeOfThree ==
    ASSUME NEW S, NEW line \in Seq(S), NEW a, NEW b, NEW c
    PROVE  HasShape(line, <<a, b, c>>)
           <=> Len(line) = 3 /\ line[1] \in a /\ line[2] \in b /\ line[3] \in c
  <1>1. ASSUME HasShape(line, <<a, b, c>>)
        PROVE  Len(line) = 3 /\ line[1] \in a /\ line[2] \in b /\ line[3] \in c
    <2>1. Len(line) = 3 /\ DOMAIN line = 1..3 /\ \A i \in 1..3 : line[i] \in <<a, b, c>>[i]
      BY <1>1 DEF HasShape
    <2>2. QED
      BY <2>1
  <1>2. ASSUME Len(line) = 3, line[1] \in a, line[2] \in b, line[3] \in c
        PROVE  HasShape(line, <<a, b, c>>)
    BY <1>2 DEF HasShape
  <1>3. QED
    BY <1>1, <1>2

LEMMA ShapeOfFour ==
    ASSUME NEW S, NEW line \in Seq(S), NEW a, NEW b, NEW c, NEW d, HasShape(line, <<a, b, c, d>>)
    PROVE  Len(line) = 4 /\ line[1] \in a /\ line[2] \in b /\ line[3] \in c /\ line[4] \in d
  <1>1. Len(line) = 4 /\ DOMAIN line = 1..4 /\ \A i \in 1..4 : line[i] \in <<a, b, c, d>>[i]
    BY DEF HasShape
  <1>2. QED
    BY <1>1

LEMMA HasWords == ASSUME NEW line, Len(line) # 0 PROVE line # <<>>
BY Len(<<>>) = 0

\* A client with control is not refused the line.
Understood(line) == Dispatch(line, TRUE) \in {"status", "run"}

\* A line in one of the daemon's shapes runs.
LEMMA UnderstoodWhen ==
    ASSUME NEW T, NEW line \in Seq(T), Len(line) # 0, line[1] \in Open \cup Mixed \cup RequiresControl,
           AsksStatus(line) \/ Parses(line)
    PROVE  Understood(line)
  <1>1. line # <<>>
    BY HasWords
  <1>2. Head(line) = line[1]
    BY <1>1
  <1>3. QED
    BY <1>1, <1>2 DEF Understood, Dispatch

LEMMA OneWordUnderstood ==
    ASSUME NEW T, NEW line \in Seq(T), Len(line) = 1,
           line[1] \in {"status", "presets", "preset-show", "capabilities", "resume", "stop",
                        "auto", "firmware-auto"}
    PROVE  Understood(line)
  <1>1. Len(line) # 0 /\ line[1] \in Open \cup Mixed \cup RequiresControl
    BY DEF Open, RequiresControl
  <1>2. CASE line[1] \in {"status", "presets", "preset-show", "capabilities"}
    <2>1. HasShape(line, <<{"status", "presets", "preset-show", "capabilities"}>>)
      BY <1>2, ShapeOfOne
    <2>2. Parses(line)
      BY <2>1 DEF Parses, OpenWords
    <2>3. QED
      BY <1>1, <2>2, UnderstoodWhen
  <1>3. CASE line[1] \in {"resume", "stop"}
    <2>1. HasShape(line, <<{"resume", "stop"}>>)
      BY <1>3, ShapeOfOne
    <2>2. Parses(line)
      BY <2>1 DEF Parses, ControlWords
    <2>3. QED
      BY <1>1, <2>2, UnderstoodWhen
  <1>4. CASE line[1] \in {"auto", "firmware-auto"}
    <2>1. HasShape(line, <<{"auto", "firmware-auto"}>>)
      BY <1>4, ShapeOfOne
    <2>2. Parses(line)
      BY <2>1 DEF Parses, FanWords
    <2>3. QED
      BY <1>1, <2>2, UnderstoodWhen
  <1>5. QED
    BY <1>2, <1>3, <1>4

\* `<command> status`, and the longer `keyboard-backlight timeout status`.
LEMMA StatusUnderstood ==
    ASSUME NEW T, NEW line \in Seq(T), Len(line) = 2, line[1] \in Mixed, line[2] = "status"
    PROVE  Understood(line)
  <1>1. HasShape(line, <<Mixed, {"status"}>>)
    BY ShapeOfTwo
  <1>2. AsksStatus(line)
    BY <1>1 DEF AsksStatus
  <1>3. Len(line) # 0 /\ line[1] \in Open \cup Mixed \cup RequiresControl
    OBVIOUS
  <1>4. QED
    BY <1>2, <1>3, UnderstoodWhen, Zenon

LEMMA TwoWordsUnderstood ==
    ASSUME NEW T, NEW line \in Seq(T), NEW a, NEW b,
           a \subseteq Open \cup Mixed \cup RequiresControl,
           <<a, b>> \in CoolboostWords \cup FanModeWords \cup ProfileWords \cup GpuTempWords
                        \cup PowerSourceWords \cup FanWords,
           Len(line) = 2, line[1] \in a, line[2] \in b
    PROVE  Understood(line)
  <1>1. HasShape(line, <<a, b>>)
    BY ShapeOfTwo
  <1>2. Parses(line)
    BY <1>1 DEF Parses
  <1>3. QED
    BY <1>2, UnderstoodWhen

LEMMA ThreeWordsUnderstood ==
    ASSUME NEW T, NEW line \in Seq(T), NEW a, NEW b, NEW c,
           a \subseteq Open \cup Mixed \cup RequiresControl,
           <<a, b, c>> \in PowerSourceWords \cup FanWords \cup KeyboardWords,
           Len(line) = 3, line[1] \in a, line[2] \in b, line[3] \in c
    PROVE  Understood(line)
  <1>1. HasShape(line, <<a, b, c>>)
    BY ShapeOfThree
  <1>2. Parses(line)
    BY <1>1 DEF Parses
  <1>3. QED
    BY <1>2, UnderstoodWhen

LEMMA FittingWord ==
    ASSUME NEW T, NEW line \in Seq(T), Range(line) \cap TooLong = {}, NEW words, NEW i \in 1..Len(line),
           line[i] \in words
    PROVE  line[i] \in Fitting(words)
BY DEF Fitting, Range

-----------------------------------------------------------------------------
\* Whatever the client program is given, the line it sends is one the daemon
\* runs or answers for a client with control, for every set of names, numerals
\* and buffer lengths (commands/client/, registry.c, commands/parser/).
THEOREM ClientUnderstood ==
    ASSUME NEW T, NEW argv \in Seq(T), NEW line \in Seq(T), ClientSends(argv, line),
           Range(line) \cap TooLong = {}
    PROVE  Understood(line)
  <1>1. CASE StatusSends(argv, line)
    <2>1. Len(line) = 1 /\ line[1] = "status"
      BY <1>1 DEF StatusSends
    <2>2. QED
      BY <2>1, OneWordUnderstood
  <1>2. CASE BuiltinSends(argv, line)
    <2>1. Len(line) = 1 /\ line[1] \in {"stop", "auto", "firmware-auto", "presets", "capabilities", "resume"}
      BY <1>2, ShapeOfOne DEF BuiltinSends, Passes
    <2>2. QED
      BY <2>1, OneWordUnderstood
  <1>3. ASSUME NEW word \in Mixed, NEW words, NEW run, Fitting(words) \subseteq run,
               Passes(argv, <<{word}, words \cup {"status"}>>, line),
               <<{word}, run>> \in CoolboostWords \cup FanModeWords \cup ProfileWords
                                   \cup GpuTempWords \cup PowerSourceWords
        PROVE  Understood(line)
    <2>1. Len(line) = 2 /\ line[1] = word /\ line[2] \in words \cup {"status"}
      BY <1>3, ShapeOfTwo DEF Passes
    <2>2. CASE line[2] = "status"
      BY <2>1, <2>2, StatusUnderstood
    <2>3. CASE line[2] \in words
      <3>1. line[2] \in Fitting(words)
        BY <2>1, <2>3, FittingWord
      <3>2. line[2] \in run
        BY <1>3, <3>1
      <3>3. QED
        BY <1>3, <2>1, <3>2, TwoWordsUnderstood
    <2>4. QED
      BY <2>1, <2>2, <2>3
  <1>4. CASE CoolboostSends(argv, line)
    BY <1>3, <1>4 DEF CoolboostSends, CoolboostWords, Fitting, Mixed, FanStatus
  <1>5. CASE FanModeSends(argv, line)
    <2>1. {"status", "auto", "manual", "turbo"} = {"auto", "manual", "turbo"} \cup {"status"}
      OBVIOUS
    <2>2. QED
      BY <1>3, <1>5, <2>1 DEF FanModeSends, FanModeWords, Fitting, Mixed, FanStatus
  <1>6. CASE ProfileSends(argv, line)
    BY <1>3, <1>6 DEF ProfileSends, ProfileWords, Mixed, PlatformStatus
  <1>7. CASE GpuTempSends(argv, line)
    <2>1. {"status", "auto", "live"} = {"auto", "live"} \cup {"status"}
      OBVIOUS
    <2>2. QED
      BY <1>3, <1>7, <2>1 DEF GpuTempSends, GpuTempWords, Fitting, Mixed, PlatformStatus
  <1>8. CASE PowerSourceSends(argv, line)
    <2>1. CASE Passes(argv, <<{"power-source"}, {"status", "apply"}>>, line)
      <3>1. {"status", "apply"} = {"apply"} \cup {"status"}
        OBVIOUS
      <3>2. QED
        BY <1>3, <2>1, <3>1 DEF PowerSourceWords, Fitting, Mixed, PlatformStatus
    <2>2. CASE Passes(argv, <<{"power-source"}, {"auto"}, OnOff>>, line)
      <3>1. Len(line) = 3 /\ line[1] = "power-source" /\ line[2] = "auto" /\ line[3] \in OnOff
        BY <2>2, ShapeOfThree DEF Passes
      <3>2. QED
        BY <3>1, ThreeWordsUnderstood DEF PowerSourceWords, Mixed, PlatformStatus
    <2>3. QED
      BY <1>8, <2>1, <2>2 DEF PowerSourceSends
  <1>9. CASE KeyboardSends(argv, line)
    <2>1. CASE Passes(argv, <<{"keyboard-backlight"}, {"status"}>>, line)
      <3>1. Len(line) = 2 /\ line[1] = "keyboard-backlight" /\ line[2] = "status"
        BY <2>1, ShapeOfTwo DEF Passes
      <3>2. QED
        BY <3>1, StatusUnderstood DEF Mixed, PlatformStatus
    <2>2. CASE Passes(argv, <<{"keyboard-backlight"}, {"timeout"}, OnOff \cup {"status"}>>, line)
      <3>1. /\ Len(line) = 3 /\ line[1] = "keyboard-backlight" /\ line[2] = "timeout"
            /\ line[3] \in OnOff \cup {"status"}
        BY <2>2, ShapeOfThree DEF Passes
      <3>2. CASE line[3] = "status"
        <4>1. line = <<"keyboard-backlight", "timeout", "status">>
          BY <3>1, <3>2
        <4>2. Len(line) # 0 /\ line[1] \in Open \cup Mixed \cup RequiresControl
          BY <3>1 DEF Mixed, PlatformStatus
        <4>3. AsksStatus(line)
          BY <4>1 DEF AsksStatus
        <4>4. QED
          BY <4>2, <4>3, UnderstoodWhen, Zenon
      <3>3. CASE line[3] \in OnOff
        BY <3>1, <3>3, ThreeWordsUnderstood DEF KeyboardWords, Mixed, PlatformStatus
      <3>4. QED
        BY <3>1, <3>2, <3>3
    <2>3. CASE /\ HasShape(argv, <<{"keyboard-backlight"}, {"set"}, Decimals>>)
               /\ Numerals[argv[3]] \in Levels
               /\ Len(line) = 3 /\ line[1] = argv[1] /\ line[2] = argv[2] /\ Prints(argv[3], line[3])
      <3>1. argv[1] = "keyboard-backlight" /\ argv[2] = "set"
        BY <2>3, ShapeOfThree
      <3>2. line[3] \in DOMAIN Numerals /\ Numerals[line[3]] \in Levels
        BY <2>3, CommandsAssumption DEF Prints
      <3>3. line[3] \in Brightness
        BY <3>2 DEF Brightness, Byte, Within, Levels
      <3>4. QED
        BY <2>3, <3>1, <3>3, ThreeWordsUnderstood DEF KeyboardWords, Mixed, PlatformStatus
    <2>4. QED
      BY <1>9, <2>1, <2>2, <2>3 DEF KeyboardSends
  <1>10. ASSUME NEW word \in Byte, NEW out, Prints(word, out) PROVE out \in Byte
    BY <1>10, CommandsAssumption DEF Prints, Byte, Within
  <1>11. CASE EcSends(argv, line)
    <2>1. CASE /\ HasShape(argv, <<{"ec"}, {"read"}, Byte>>)
               /\ Len(line) = 2 /\ line[1] = "ec-read" /\ Prints(argv[3], line[2])
      <3>1. line[2] \in Byte
        BY <1>10, <2>1, ShapeOfThree
      <3>2. HasShape(line, <<{"ec-read"}, Byte>>)
        BY <2>1, <3>1, ShapeOfTwo
      <3>3. Parses(line)
        BY <2>1, <3>2 DEF Parses, EcParses
      <3>4. QED
        BY <2>1, <3>3, UnderstoodWhen DEF RequiresControl
    <2>2. CASE /\ HasShape(argv, <<{"ec"}, {"dump"}, Byte, Byte>>)
               /\ Numerals[argv[4]] - Numerals[argv[3]] \in 0..127
               /\ Len(line) = 3 /\ line[1] = "ec-dump"
               /\ \A i \in 2..3 : Prints(argv[i + 1], line[i])
      <3>1. Prints(argv[3], line[2]) /\ Prints(argv[4], line[3])
        BY <2>2
      <3>2. line[2] \in Byte /\ line[3] \in Byte
        BY <1>10, <2>2, <3>1, ShapeOfFour
      <3>3. HasShape(line, <<{"ec-dump"}, Byte, Byte>>)
        BY <2>2, <3>2, ShapeOfThree
      <3>4. Numerals[line[3]] - Numerals[line[2]] \in 0..127
        BY <2>2, <3>1 DEF Prints
      <3>5. Parses(line)
        BY <2>2, <3>3, <3>4 DEF Parses, EcParses
      <3>6. Len(line) # 0 /\ line[1] \in RequiresControl
        BY <2>2 DEF RequiresControl
      <3>7. QED
        BY <3>5, <3>6, UnderstoodWhen
    <2>3. QED
      BY <1>11, <2>1, <2>2 DEF EcSends
  <1>12. CASE SetSends(argv, line)
    <2>1. argv[1] = "set" /\ argv[2] \in {"cpu", "gpu", "all"} /\ argv[3] \in PercentWord
      BY <1>12, ShapeOfThree DEF SetSends
    <2>2. /\ Len(line) = 3 /\ line[1] = "set" /\ line[2] \in {"cpu", "gpu", "all"}
          /\ Prints(argv[3], line[3])
      BY <1>12, <2>1 DEF SetSends
    <2>3. line[3] \in PercentWord
      BY <2>1, <2>2, CommandsAssumption DEF Prints, PercentWord, Within
    <2>4. line[2] \in Fitting(Names \cup {"cpu", "gpu", "all"})
      BY <2>2, FittingWord
    <2>5. QED
      BY <2>2, <2>3, <2>4, ThreeWordsUnderstood DEF FanWords, RequiresControl
  <1>13. CASE PresetSends(argv, line)
    <2>1. CASE line = <<"preset-show">>
      BY <2>1, OneWordUnderstood
    <2>2. CASE Passes(argv, <<{"preset"}, Names>>, line)
      <3>1. Len(line) = 2 /\ line[1] = "preset" /\ line[2] \in Names
        BY <2>2, ShapeOfTwo DEF Passes
      <3>2. line[2] \in Fitting(Names)
        BY <3>1, FittingWord
      <3>3. QED
        BY <3>1, <3>2, TwoWordsUnderstood DEF FanWords, RequiresControl
    <2>3. QED
      BY <1>13, <2>1, <2>2 DEF PresetSends
  <1>14. QED
    BY <1>1, <1>2, <1>4, <1>5, <1>6, <1>7, <1>8, <1>9, <1>11, <1>12, <1>13 DEF ClientSends


LEMMA TuplesAreSequences ==
    ASSUME NEW T, NEW a \in T
    PROVE  /\ <<a>> \in Seq(T)
           /\ \A b \in T : <<a, b>> \in Seq(T)
           /\ \A b, c \in T : <<a, b, c>> \in Seq(T)
           /\ \A b, c, d \in T : <<a, b, c, d>> \in Seq(T)
OBVIOUS

\* Every word an argument vector or a line is made of.
Vocabulary ==
    Words \cup Printed \cup DOMAIN Numerals \cup Open \cup RequiresControl \cup Mixed \cup
    {"preset", "set", "keyboard-backlight", "power-source", "ec", "timeout", "auto", "read",
     "cpu", "all", "dump", "status", "preset-show", "ec-read", "ec-dump"}

LEMMA ArgvsAreText == Argvs \subseteq Seq(Vocabulary)
  <1>1. \A c \in Open \cup RequiresControl : <<c>> \in Seq(Vocabulary)
    BY TuplesAreSequences DEF Vocabulary
  <1>2. \A c \in Mixed \cup {"preset", "set"}, w \in Words : <<c, w>> \in Seq(Vocabulary)
    BY TuplesAreSequences DEF Vocabulary
  <1>3. \A c \in {"keyboard-backlight", "power-source", "ec", "set"},
           v \in {"set", "timeout", "auto", "read", "cpu", "all"}, w \in Words :
              <<c, v, w>> \in Seq(Vocabulary)
    BY TuplesAreSequences DEF Vocabulary
  <1>4. \A v, w \in DOMAIN Numerals : <<"ec", "dump", v, w>> \in Seq(Vocabulary)
    BY TuplesAreSequences DEF Vocabulary
  <1>5. ASSUME NEW argv \in Argvs PROVE argv \in Seq(Vocabulary)
    <2>1. \/ \E c \in Open \cup RequiresControl : argv = <<c>>
          \/ \E c \in Mixed \cup {"preset", "set"}, w \in Words : argv = <<c, w>>
          \/ \E c \in {"keyboard-backlight", "power-source", "ec", "set"},
                v \in {"set", "timeout", "auto", "read", "cpu", "all"}, w \in Words :
                   argv = <<c, v, w>>
          \/ \E v, w \in DOMAIN Numerals : argv = <<"ec", "dump", v, w>>
      BY DEF Argvs
    <2>2. QED
      BY <1>1, <1>2, <1>3, <1>4, <2>1, SMTT(30)
  <1>6. QED
    BY <1>5

LEMMA LinesAreText ==
    ASSUME NEW line \in ClientLines
    PROVE  /\ line \in Seq(Vocabulary)
           /\ \E argv \in Seq(Vocabulary) : ClientSends(argv, line)
  <1>1. PICK argv \in Argvs :
          /\ ClientSends(argv, line)
          /\ \/ line = argv \/ line = <<"status">> \/ line = <<"preset-show">>
             \/ \E n \in Printed : line = <<"ec-read", n>>
             \/ Len(argv) = 3 /\ \E n \in Printed : line = <<argv[1], argv[2], n>>
             \/ \E m, n \in Printed : line = <<"ec-dump", m, n>>
    BY DEF ClientLines
  <1>2. argv \in Seq(Vocabulary)
    BY ArgvsAreText
  <1>3. ASSUME line = argv \/ line = <<"status">> \/ line = <<"preset-show">>
        PROVE  line \in Seq(Vocabulary)
    <2>1. <<"status">> \in Seq(Vocabulary) /\ <<"preset-show">> \in Seq(Vocabulary)
      BY TuplesAreSequences DEF Vocabulary
    <2>2. QED
      BY <1>2, <1>3, <2>1, Zenon
  <1>4. ASSUME \E n \in Printed : line = <<"ec-read", n>> PROVE line \in Seq(Vocabulary)
    BY <1>4, TuplesAreSequences DEF Vocabulary
  <1>5. ASSUME Len(argv) = 3 /\ \E n \in Printed : line = <<argv[1], argv[2], n>>
        PROVE  line \in Seq(Vocabulary)
    <2>1. argv[1] \in Vocabulary /\ argv[2] \in Vocabulary
      BY <1>2, <1>5
    <2>2. QED
      BY <1>5, <2>1, TuplesAreSequences DEF Vocabulary
  <1>6. ASSUME \E m, n \in Printed : line = <<"ec-dump", m, n>> PROVE line \in Seq(Vocabulary)
    BY <1>6, TuplesAreSequences DEF Vocabulary
  <1>7. line \in Seq(Vocabulary)
    BY <1>1, <1>3, <1>4, <1>5, <1>6, Zenon
  <1>8. QED
    BY <1>1, <1>2, <1>7

\* The same of the clients the loop serves, as the runs check it.
THEOREM ClientAgrees == Spec => []ClientAndDaemonAgree
  <1>1. ClientAndDaemonAgree
    <2> SUFFICES ASSUME NEW c \in client, CanControl(Peer[c]), NEW line \in ClientLines,
                        Range(line) \cap TooLong = {}
                 PROVE  Dispatch(line, CanControl(Peer[c])) \in {"status", "run"}
      BY DEF ClientAndDaemonAgree
    <2>1. Understood(line)
      BY LinesAreText, ClientUnderstood
    <2>2. QED
      BY <2>1 DEF Understood, Dispatch
  <1>2. QED
    BY <1>1, PTL

-----------------------------------------------------------------------------
\* Types

LEMMA ProductBounds ==
    ASSUME NEW p \in 0..100, NEW d \in Nat
    PROVE  p * d \in Nat /\ p * d <= 100 * d
OBVIOUS

LEMMA LevelInRange == ASSUME NEW percent \in Percents PROVE ValueFromPercent(percent) \in Values
  <1> DEFINE d == MaxValue - MinValue
             n == percent * d
  <1>1. d \in Nat /\ MinValue \in Nat /\ MaxValue = MinValue + d
    BY KeyboardAssumption
  <1>2. n \in Nat /\ n <= 100 * d
    BY <1>1, ProductBounds DEF Percents
  <1> HIDE DEF n
  <1>3. (n + 50) \div 100 \in 0..d
    BY <1>1, <1>2
  <1>4. MinValue + (n + 50) \div 100 \in MinValue..MaxValue
    BY <1>1, <1>3
  <1>5. QED
    BY <1>4 DEF n, ValueFromPercent, Values

LEMMA QuotientBound ==
    ASSUME NEW a \in Nat, NEW d \in Nat \ {0}, NEW m \in Nat, a < (m + 1) * d
    PROVE  a \div d \in 0..m
  <1>1. a \div d \in Nat /\ (a \div d) * d <= a
    OBVIOUS
  <1>2. QED
    BY <1>1

LEMMA PercentInRange ==
    ASSUME NEW min \in Int, NEW max \in Int, min < max, NEW value \in min..max
    PROVE  PercentFromRange(value, min, max) \in Percents
  <1> DEFINE d == max - min
             v == value - min
  <1>1. d \in Nat \ {0} /\ v \in 0..d
    OBVIOUS
  <1> HIDE DEF d, v
  <1>2. d \div 2 \in Nat /\ d \div 2 < d
    BY <1>1
  <1>3. v * 100 + d \div 2 \in Nat /\ v * 100 + d \div 2 < (100 + 1) * d
    BY <1>1, <1>2
  <1>4. (v * 100 + d \div 2) \div d \in 0..100
    BY <1>1, <1>3, QuotientBound
  <1>5. QED
    BY <1>4 DEF d, v, PercentFromRange, Percents

LEMMA ReadInRange == ASSUME light \in Values PROVE ReadAny \in Percents
  <1> DEFINE v == light - MinValue
             d == MaxValue - MinValue
  <1>1. v \in 0..d /\ d \in Nat \ {0}
    BY KeyboardAssumption DEF Values
  <1>2. CASE LedMax > 0
    <2>1. v * LedMax \in Nat /\ v * LedMax <= d * LedMax
      <3> HIDE DEF v, d
      <3>1. QED
        BY <1>1, KeyboardAssumption
    <2>2. v * LedMax < (LedMax + 1) * d
      <3> HIDE DEF v, d
      <3>1. d * LedMax < (LedMax + 1) * d
        BY <1>1, KeyboardAssumption
      <3>2. QED
        BY <1>1, <2>1, <3>1, KeyboardAssumption
    <2>3. (v * LedMax) \div d \in 0..LedMax
      <3> HIDE DEF v, d
      <3>1. QED
        BY <1>1, <2>1, <2>2, QuotientBound, KeyboardAssumption
    <2>4. LedPercent \in Percents
      BY <1>2, <2>3, PercentInRange, KeyboardAssumption DEF LedPercent
    <2>5. QED
      BY <1>2, <2>4 DEF ReadAny
  <1>3. CASE ~(LedMax > 0)
    BY <1>3, PercentInRange, KeyboardAssumption DEF ReadAny, Percent, Values
  <1>4. QED
    BY <1>2, <1>3

\* The keyboard's own steps.
LEMMA SetLightType ==
    ASSUME light \in Values, NEW percent \in Percents, NEW ok
    PROVE  LightAfterSet(percent, ok) \in Values
BY LevelInRange DEF LightAfterSet

LEMMA TickType == ASSUME KbTypeOK, NEW i, NEW ok, KbTick(i, ok) PROVE KbTypeOK'
  <1> USE DEF KbTypeOK
  <1>1. CASE ~CanRun
    BY <1>1 DEF KbTick, kbVars
  <1>2. CASE CanRun
    <2>1. enabled' = enabled /\ restore' = RestoreAfterRead(ok)
      BY <1>2 DEF KbTick
    <2>2. restore' \in Percents
      BY <2>1, ReadInRange DEF RestoreAfterRead
    <2>3. \/ light' = LightAfterSet(0, ok) /\ timedOff' = SetOK(ok)
          \/ light' = LightAfterSet(restore, ok) /\ timedOff' = (timedOff /\ ~SetOK(ok))
          \/ light' = light /\ timedOff' = timedOff
      BY <1>2 DEF KbTick
    <2>4. light' \in Values
      BY <2>3, SetLightType DEF Percents
    <2>5. timedOff' \in BOOLEAN
      BY <2>3 DEF SetOK
    <2>6. QED
      BY <2>1, <2>2, <2>4, <2>5
  <1>3. QED
    BY <1>1, <1>2

LEMMA SetType ==
    ASSUME KbTypeOK, NEW percent \in Percents, NEW ok, KbSet(percent, ok)
    PROVE  KbTypeOK'
  <1>1. light' \in Values
    BY SetLightType DEF KbSet, KbTypeOK
  <1>2. Percent(light') \in Percents
    BY <1>1, PercentInRange, KeyboardAssumption DEF Percent, Values
  <1>3. QED
    BY <1>1, <1>2 DEF KbSet, KbTypeOK

LEMMA SourceKnown == ReadPowerSource \in PowerSources
BY PowerAssumption DEF ReadPowerSource, PowerSources

LEMMA ApplyType ==
    ASSUME profile \in 0..255, NEW source, NEW ok, ApplyFor(source, ok)
    PROVE  profile' \in 0..255
BY PowerAssumption, ZenonT(30) DEF ApplyFor, ApplyProfile, ProfileFor

LEMMA PowerTickType == ASSUME PowerTypeOK, NEW ok, PowerTick(ok) PROVE PowerTypeOK'
  <1>1. CASE UNCHANGED powerVars
    BY <1>1 DEF PowerTypeOK, powerVars
  <1>2. CASE ~UNCHANGED powerVars
    BY <1>2, SourceKnown, ApplyType DEF PowerTick, PowerTypeOK
  <1>3. QED
    BY <1>1, <1>2

LEMMA PowerAutoType ==
    ASSUME PowerTypeOK, NEW on \in BOOLEAN, NEW ok, PowerAuto(on, ok)
    PROVE  PowerTypeOK'
BY ApplyType DEF PowerAuto, PowerTypeOK

LEMMA ProfileType ==
    ASSUME PowerTypeOK, NEW ok, PowerApply(ok) \/ \E id : SetProfile(id, ok)
    PROVE  PowerTypeOK'
  <1>1. CASE PowerApply(ok)
    BY <1>1, ApplyType DEF PowerApply, PowerTypeOK
  <1>2. CASE \E id : SetProfile(id, ok)
    BY <1>2, PowerAssumption, ZenonT(30) DEF SetProfile, ApplyProfile, PowerTypeOK
  <1>3. QED
    BY <1>1, <1>2

-----------------------------------------------------------------------------
\* No connection waits twice, so no more wait than there are.
Distinct(queue) == \A i, j \in DOMAIN queue : queue[i] = queue[j] => i = j

LoopInv ==
    /\ KbTypeOK /\ PowerTypeOK
    /\ pc \in {"exit", "top", "select", "read"}
    /\ running \in BOOLEAN /\ due \in BOOLEAN /\ watching \in BOOLEAN /\ keys \in BOOLEAN
    /\ idle \in BOOLEAN /\ refused \in BOOLEAN /\ calm \in BOOLEAN
    /\ backlog \in Seq(Clients) /\ Distinct(backlog)
    /\ client = {} \/ \E c \in Clients : client = {c}
    /\ (client = {}) = (pc # "read")
    /\ saved = {} \/ \E s \in SavedSettings : saved = {s}

LEMMA DistinctFits ==
    ASSUME NEW C, IsFiniteSet(C), NEW queue \in Seq(C), Distinct(queue)
    PROVE  Len(queue) <= Cardinality(C)
  <1>1. Len(queue) \in Nat /\ queue \in [1..Len(queue) -> C] /\ DOMAIN queue = 1..Len(queue)
    BY LenProperties
  <1>2. queue \in Injection(1..Len(queue), C)
    BY <1>1 DEF Distinct, Injection, IsInjective
  <1>3. Cardinality(1..Len(queue)) <= Cardinality(C)
    BY <1>2, FS_Injection
  <1>4. Cardinality(1..Len(queue)) = Len(queue)
    BY <1>1, FS_Interval
  <1>5. QED
    BY <1>3, <1>4

LEMMA TailDistinct ==
    ASSUME NEW C, NEW queue \in Seq(C), Distinct(queue), queue # <<>>
    PROVE  Tail(queue) \in Seq(C) /\ Distinct(Tail(queue)) /\ Head(queue) \in C
BY DEF Distinct

LEMMA AppendDistinct ==
    ASSUME NEW C, NEW queue \in Seq(C), Distinct(queue), NEW c \in C, c \notin Range(queue)
    PROVE  Append(queue, c) \in Seq(C) /\ Distinct(Append(queue, c))
BY DEF Distinct, Range

LEMMA LoopAtStart == Init => LoopInv
  <1> SUFFICES ASSUME Init PROVE LoopInv
    OBVIOUS
  <1>1. KbTypeOK
    <2>1. light \in Values /\ enabled \in BOOLEAN /\ timedOff \in BOOLEAN
      BY KeyboardAssumption DEF Init, KbInit
    <2>2. restore \in Percents
      BY DEF Init, KbInit, Percents
    <2>3. QED
      BY <2>1, <2>2 DEF KbTypeOK
  <1>2. PowerTypeOK
    <2>1. supplies \in Seq(Supply) /\ autoApply \in BOOLEAN
      BY PowerAssumption, LoopAssumption DEF Init
    <2>2. profile \in 0..255
      BY PowerAssumption DEF Init, Range
    <2>3. QED
      BY <2>1, <2>2 DEF Init, PowerTypeOK, PowerSources
  <1>3. Distinct(backlog) /\ backlog \in Seq(Clients)
    BY DEF Init, Distinct
  <1>4. QED
    BY <1>1, <1>2, <1>3 DEF Init, LoopInv

LEMMA QuietType ==
    ASSUME LoopInv, UNCHANGED <<kbVars, powerVars>>
    PROVE  KbTypeOK' /\ PowerTypeOK'
BY DEF LoopInv, KbTypeOK, PowerTypeOK, kbVars, powerVars

LEMMA LoopStartType == ASSUME LoopInv, Start PROVE LoopInv'
  <1>1. \/ saved = {}
        \/ \E s \in SavedSettings : saved = {s}
    BY DEF LoopInv
  <1>2. enabled' \in BOOLEAN /\ autoApply' \in BOOLEAN
    <2>1. CASE saved = {}
      BY <2>1, KeyboardAssumption, PowerAssumption DEF Start, KbStart, PowerStart
    <2>2. CASE \E s \in SavedSettings : saved = {s}
      BY <2>2, KeyboardAssumption, PowerAssumption DEF Start, KbStart, PowerStart, SavedSettings
    <2>3. QED
      BY <1>1, <2>1, <2>2
  <1>3. KbTypeOK'
    <2>1. light' \in Values /\ timedOff' \in BOOLEAN
      BY DEF LoopInv, Start, KbStart, KbTypeOK
    <2>2. restore' \in Percents
      BY DEF Start, KbStart, Percents
    <2>3. QED
      BY <1>2, <2>1, <2>2 DEF KbTypeOK
  <1>4. PowerTypeOK'
    BY <1>2 DEF LoopInv, Start, PowerStart, PowerTypeOK, PowerSources
  <1>5. Settings' \in SavedSettings
    BY <1>2 DEF Settings, SavedSettings
  <1>6. saved' = {} \/ \E s \in SavedSettings : saved' = {s}
    BY <1>1, <1>5 DEF Start
  <1>7. QED
    BY <1>3, <1>4, <1>6, KeyboardAssumption DEF LoopInv, Start, OpenInput, Distinct
LEMMA LoopServeType == ASSUME LoopInv, Serve PROVE LoopInv'
  <1>1. KbTypeOK /\ PowerTypeOK /\ running \in BOOLEAN /\ refused \in BOOLEAN
    BY DEF LoopInv
  <1>2. enabled \in BOOLEAN /\ autoApply \in BOOLEAN
    BY <1>1 DEF KbTypeOK, PowerTypeOK
  <1> DEFINE Typed == KbTypeOK' /\ PowerTypeOK' /\ running' \in BOOLEAN
             Stored == \/ saved' = {Settings'} /\ refused' = FALSE
                       \/ saved' = saved /\ refused' \in BOOLEAN
  <1>3. ASSUME NotSaved \/ \E save : Save(save) PROVE Stored
    BY <1>1, <1>3 DEF NotSaved, Save
  <1>4. ASSUME UNCHANGED kbVars PROVE KbTypeOK'
    BY <1>1, <1>4 DEF KbTypeOK, kbVars
  <1>5. ASSUME UNCHANGED powerVars PROVE PowerTypeOK'
    BY <1>1, <1>5 DEF PowerTypeOK, powerVars
  <1>6. ASSUME NEW line \in InputLines, NEW ok, KeyboardSetCommand(line, ok) PROVE Typed /\ Stored
    <2>1. line \in Seq(STRING)
      BY LoopAssumption
    <2>2. line[3] \in Brightness
      BY <1>6, <2>1, ShapeOfThree DEF KeyboardSetCommand
    <2>3. Numerals[line[3]] \in Percents
      BY <2>2 DEF Brightness, Levels, Percents
    <2>4. KbTypeOK'
      BY <1>1, <1>6, <2>3, SetType DEF KeyboardSetCommand
    <2>5. QED
      BY <1>1, <1>3, <1>5, <1>6, <2>4 DEF KeyboardSetCommand
  <1>7. ASSUME NEW line, NEW save, KeyboardTimeoutCommand(line, save) PROVE Typed /\ Stored
    <2>1. CASE TimeoutSupported
      <3>1. KbTypeOK'
        BY <1>1, <1>7, <2>1 DEF KeyboardTimeoutCommand, KbTimeout, KbTypeOK
      <3>2. QED
        BY <1>1, <1>3, <1>5, <1>7, <2>1, <3>1 DEF KeyboardTimeoutCommand
    <2>2. CASE ~TimeoutSupported
      BY <1>1, <1>3, <1>4, <1>5, <1>7, <2>2 DEF KeyboardTimeoutCommand
    <2>3. QED
      BY <2>1, <2>2
  <1>8. ASSUME NEW line, NEW ok, PowerApplyCommand(line, ok) PROVE Typed /\ Stored
    BY <1>1, <1>3, <1>4, <1>8, ProfileType DEF PowerApplyCommand
  <1>9. ASSUME NEW line, NEW ok, NEW save, PowerAutoCommand(line, ok, save) PROVE Typed /\ Stored
    <2>1. CASE ~PolicyAvailable
      BY <1>1, <1>3, <1>4, <1>5, <1>9, <2>1 DEF PowerAutoCommand
    <2>2. CASE PolicyAvailable
      <3> DEFINE on == line[3] = "on"
      <3>1. PowerAuto(on, ok) /\ UNCHANGED kbVars /\ running' = running
        BY <1>9, <2>2 DEF PowerAutoCommand
      <3>2. \/ saved' = saved /\ refused' = (refused \/ ~autoApply)
            \/ Save(save)
        BY <1>9, <2>2 DEF PowerAutoCommand
      <3>3. on \in BOOLEAN
        OBVIOUS
      <3> HIDE DEF on
      <3>4. PowerTypeOK'
        BY <1>1, <3>1, <3>3, PowerAutoType
      <3>5. Stored
        BY <1>1, <1>3, <3>2
      <3>6. QED
        BY <1>1, <1>4, <3>1, <3>4, <3>5
    <2>3. QED
      BY <2>1, <2>2
  <1>10. ASSUME NEW line, NEW ok, ProfileCommand(line, ok) PROVE Typed /\ Stored
    BY <1>1, <1>3, <1>4, <1>10, ProfileType DEF ProfileCommand
  <1>11. ASSUME NEW line, NEW save, OtherCommand(line, save) PROVE Typed /\ Stored
    <2>1. UNCHANGED kbVars /\ UNCHANGED powerVars /\ running' \in BOOLEAN
      BY <1>1, <1>11 DEF OtherCommand
    <2>2. NotSaved \/ Save(save)
      BY <1>11 DEF OtherCommand
    <2>3. QED
      BY <1>3, <1>4, <1>5, <2>1, <2>2
  <1>12. ASSUME UNCHANGED <<kbVars, powerVars, running>>, NotSaved PROVE Typed /\ Stored
    BY <1>1, <1>3, <1>4, <1>5, <1>12
  <1>13. Typed /\ Stored
    <2> HIDE DEF Typed, Stored
    <2>1. QED
      BY <1>6, <1>7, <1>8, <1>9, <1>10, <1>11, <1>12 DEF Serve
  <1>14. Settings' \in SavedSettings
    BY <1>13 DEF KbTypeOK, PowerTypeOK, Settings, SavedSettings
  <1>15. saved' = {} \/ \E s \in SavedSettings : saved' = {s}
    BY <1>13, <1>14 DEF LoopInv
  <1>16. QED
    BY <1>13, <1>15 DEF LoopInv, Serve, Served

LEMMA LoopStepType == LoopInv /\ [Next]_vars => LoopInv'
  <1> SUFFICES ASSUME LoopInv, [Next]_vars PROVE LoopInv'
    OBVIOUS
  <1>1. CASE Start
    BY <1>1, LoopStartType
  <1>2. CASE Crash \/ Leave \/ SelectFails
    <2>1. KbTypeOK' /\ PowerTypeOK'
      BY <1>2, QuietType DEF Crash, Leave, SelectFails
    <2>2. Distinct(<<>>) /\ <<>> \in Seq(Clients)
      BY DEF Distinct
    <2>3. QED
      BY <1>2, <2>1, <2>2 DEF LoopInv, Crash, Leave, SelectFails, Ends
  <1>3. CASE Signal \/ Timeout
    <2>1. KbTypeOK' /\ PowerTypeOK'
      BY <1>3, QuietType DEF Signal, Timeout
    <2>2. QED
      BY <1>3, <2>1 DEF LoopInv, Signal, Timeout
  <1>4. CASE Poll
    <2>1. ASSUME due PROVE KbTypeOK' /\ PowerTypeOK'
      <3>1. PICK ok, write : PowerTick(write) /\ PollKeyboard(ok)
        BY <1>4, <2>1 DEF Poll
      <3>2. PowerTypeOK'
        BY <3>1, PowerTickType DEF LoopInv
      <3>3. KbTypeOK'
        BY <3>1, TickType DEF LoopInv, PollKeyboard, KbTypeOK, kbVars
      <3>4. QED
        BY <3>2, <3>3
    <2>2. ASSUME ~due PROVE KbTypeOK' /\ PowerTypeOK'
      BY <1>4, <2>2, QuietType DEF Poll
    <2>3. KbTypeOK' /\ PowerTypeOK'
      BY <2>1, <2>2
    <2>4. QED
      BY <1>4, <2>3 DEF LoopInv, Poll
  <1>5. CASE Wake
    <2>1. PowerTypeOK'
      BY <1>5 DEF Wake, LoopInv, PowerTypeOK, powerVars
    <2>2. KbTypeOK'
      BY <1>5, TickType DEF Wake, LoopInv, KbTypeOK, kbVars
    <2>3. idle' \in BOOLEAN /\ keys' \in BOOLEAN
      BY <1>5 DEF Wake, ReadInput, LoopInv
    <2>4. CASE backlog # <<>>
      <3>1. Head(backlog) \in Clients /\ Tail(backlog) \in Seq(Clients) /\ Distinct(Tail(backlog))
        BY <2>4, TailDistinct DEF LoopInv
      <3>2. QED
        BY <1>5, <2>1, <2>2, <2>3, <2>4, <3>1 DEF Wake, AcceptOne, LoopInv
    <2>5. CASE backlog = <<>>
      BY <1>5, <2>1, <2>2, <2>3, <2>5 DEF Wake, AcceptOne, LoopInv
    <2>6. QED
      BY <2>4, <2>5
  <1>6. CASE Serve
    BY <1>6, LoopServeType
  <1>7. CASE InvalidCommand
    <2>1. KbTypeOK' /\ PowerTypeOK'
      BY <1>7, QuietType DEF InvalidCommand
    <2>2. QED
      BY <1>7, <2>1 DEF LoopInv, InvalidCommand, NotSaved, Served
  <1>8. CASE TimePasses \/ GoesIdle \/ KeyPress \/ ComesToRest
    <2>1. KbTypeOK' /\ PowerTypeOK'
      BY <1>8, QuietType DEF TimePasses, GoesIdle, KeyPress, ComesToRest
    <2>2. QED
      BY <1>8, <2>1, ZenonT(30) DEF LoopInv, TimePasses, GoesIdle, KeyPress, ComesToRest, Rest
  <1>9. CASE BrightnessKey
    <2>1. KbTypeOK' /\ PowerTypeOK'
      BY <1>9 DEF LoopInv, BrightnessKey, KbTypeOK, PowerTypeOK, powerVars
    <2>2. QED
      BY <1>9, <2>1 DEF LoopInv, BrightnessKey, loopVars
  <1>10. CASE SupplyChange
    <2>1. KbTypeOK' /\ PowerTypeOK'
      BY <1>10, LoopAssumption DEF LoopInv, SupplyChange, KbTypeOK, PowerTypeOK, kbVars
    <2>2. QED
      BY <1>10, <2>1 DEF LoopInv, SupplyChange, loopVars
  <1>11. CASE \E c \in Clients : Connect(c)
    <2>1. PICK c \in Clients : Connect(c)
      BY <1>11
    <2>2. KbTypeOK' /\ PowerTypeOK'
      BY <2>1, QuietType DEF Connect
    <2>3. backlog' \in Seq(Clients) /\ Distinct(backlog')
      BY <2>1, AppendDistinct DEF Connect, Waits, LoopInv
    <2>4. QED
      BY <2>1, <2>2, <2>3 DEF LoopInv, Connect, Rest
  <1>12. CASE UNCHANGED vars
    <2>1. KbTypeOK' /\ PowerTypeOK'
      BY <1>12, QuietType DEF vars
    <2>2. QED
      BY <1>12, <2>1 DEF LoopInv, vars, loopVars
  <1>13. QED
    BY <1>1, <1>2, <1>3, <1>4, <1>5, <1>6, <1>7, <1>8, <1>9, <1>10, <1>11, <1>12 DEF Next

\* Every variable of the loop keeps its type under every order of clients, keys,
\* charger changes, signals and crashes: the brightness register and the level
\* to go back to stay in their ranges, no connection waits twice and only a loop
\* that reads a command has a client (run_daemon_loop, keyboard_backlight.c).
THEOREM LoopTypeCorrect == Spec => []TypeOK
  <1>1. Init => LoopInv
    BY LoopAtStart
  <1>2. LoopInv /\ [Next]_vars => LoopInv'
    BY LoopStepType
  <1>3. LoopInv => TypeOK
    BY DistinctFits, LoopAssumption DEF LoopInv, TypeOK
  <1>4. QED
    BY <1>1, <1>2, <1>3, PTL DEF Spec
=============================================================================
