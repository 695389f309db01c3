----------------------------- MODULE ModelConfig -----------------------------
(***************************************************************************)
(* config_load: what the daemon makes of a model file.  A section's loader *)
(* returns {} when the code rejects the file, else {the section}.          *)
(*                                                                         *)
(* Buffers are taken to be long enough for every string and object.        *)
(***************************************************************************)
EXTENDS JsonScan

MaxProfiles == 8
MaxFans == 2
MaxThresholds == 32
MaxWrites == 8
MaxPresets == 16

\* A record of the values found, or {} when one of them is missing.
AllOf(found) ==
    IF \E k \in DOMAIN found : found[k] = {} THEN {}
    ELSE {[k \in DOMAIN found |-> CHOOSE v \in found[k] : TRUE]}

\* Two records in one (the provers do not know TLC's @@).
Joined(f, g) == [k \in DOMAIN f \cup DOMAIN g |-> IF k \in DOMAIN f THEN f[k] ELSE g[k]]

In(range, found) == found \cap range
Byte(found) == In(0..255, found)
NonEmpty(found) == found \ {""}

\* config_optional_int_key and its kin
OptInt(text, key, default) == IF Present(text, key) THEN IntKey(text, key) ELSE {default}
OptBool(text, key, default) == IF Present(text, key) THEN BoolKey(text, key) ELSE {default}
OptString(text, key, default) == IF Present(text, key) THEN StringKey(text, key) ELSE {default}

ClampTo(v, lo, hi) == IF v < lo THEN lo ELSE IF v > hi THEN hi ELSE v

\* Mutant of Clamped: the value is not clamped.
Unclamped(text, key, default, lo, hi) == OptInt(text, key, default)

\* config_optional_clamped_int_key
Clamped(text, key, default, lo, hi) == {ClampTo(v, lo, hi) : v \in OptInt(text, key, default)}

\* The objects of a list, the first max of them.
Items(text, key, max) ==
    IF ArrayKey(text, key) = {} THEN <<>>
    ELSE LET objects == Objects(CHOOSE a \in ArrayKey(text, key) : TRUE)
         IN  SubSeq(objects, 1, Min({Len(objects), max}))

-----------------------------------------------------------------------------
\* The sections

\* Mutant of Section: the keys are searched in the whole file.
WholeFile(text, name) == text

\* Where the loader of a section starts to search.
Section(text, name) == From(text, name)

Identity(text) ==
    AllOf([model |-> NonEmpty(StringKey(text, "model")),
           default_preset |-> NonEmpty(StringKey(text, "default_preset")),
           path |-> OptString(text, "path", "/sys/kernel/debug/ec/ec0/io")])

Timing(text) ==
    AllOf([poll_interval_ms |-> In(100..60000, OptInt(text, "poll_interval_ms", 3000)),
           critical_temperature_c |-> In(1..130, OptInt(text, "critical_temperature_c", 90)),
           read_words |-> OptBool(text, "read_words", TRUE)])

\* Bounds and default of the policy's numbers, by the critical temperature.
SafetyNumbers(critical) ==
    [min_speed_percent |-> <<1, 100, 30>>, min_speed_temperature_c |-> <<1, 130, 60>>,
     critical_speed_percent |-> <<1, 100, 100>>, critical_step_percent |-> <<1, 100, 20>>,
     critical_consecutive_samples |-> <<1, 10, 1>>,
     critical_release_temperature_c |-> <<1, critical, critical - 5>>,
     auto_ramp_up_percent |-> <<0, 100, 0>>,
     auto_ramp_bypass_temperature_c |-> <<0, critical, 0>>,
     missing_temperature_speed_percent |-> <<1, 100, 60>>,
     max_ec_read_failures |-> <<1, 100, 3>>, max_ec_write_failures |-> <<1, 100, 3>>]

\* Without a section the defaults stand as they are.
SafetySection(text, critical) ==
    LET numbers == SafetyNumbers(critical)
        safety == Section(text, "safety")
    IN  IF ~Present(text, "safety")
        THEN {Joined([critical_full_speed |-> TRUE], [k \in DOMAIN numbers |-> numbers[k][3]])}
        ELSE AllOf(Joined(
                [critical_full_speed |-> OptBool(safety, "critical_full_speed", TRUE)],
                [k \in DOMAIN numbers |->
                    Clamped(safety, k, numbers[k][3], numbers[k][1], numbers[k][2])]))

FanModeDefaults ==
    [cpu_auto_value |-> 4, cpu_manual_value |-> 12, cpu_turbo_value |-> 8,
     gpu_auto_value |-> 16, gpu_manual_value |-> 48, gpu_turbo_value |-> 32]

\* An optional section is <<>> when the file has none.
FanModes(text) ==
    LET modes == Section(text, "fan_modes")
    IN  IF ~Present(text, "fan_modes") THEN {<<>>}
        ELSE AllOf(Joined(
                [k \in {"cpu_register", "gpu_register"} |-> Byte(IntKey(modes, k))],
                [k \in DOMAIN FanModeDefaults |-> Byte(OptInt(modes, k, FanModeDefaults[k]))]))

Profile(text) ==
    AllOf([id |-> NonEmpty(StringKey(text, "id")), value |-> Byte(IntKey(text, "value"))])

Profiles(text) ==
    LET items == Items(text, "profiles", MaxProfiles)
    IN  AllOf([i \in DOMAIN items |-> Profile(items[i])])

PlatformProfiles(text) ==
    LET section == Section(text, "platform_profiles")
    IN  IF ~Present(text, "platform_profiles") THEN {<<>>}
        ELSE AllOf([register |-> Byte(IntKey(section, "register")),
                    default_profile |-> OptString(section, "default_profile", ""),
                    profiles |-> Profiles(section)])

Known(profiles) ==
    IF profiles = <<>> THEN {} ELSE {profiles.profiles[i].id : i \in DOMAIN profiles.profiles}

PowerSources(text, profiles) ==
    LET section == Section(text, "power_source_profiles")
    IN  IF ~Present(text, "power_source_profiles") THEN {<<>>}
        ELSE AllOf([ac |-> In(Known(profiles), StringKey(section, "ac")),
                    battery |-> In(Known(profiles), StringKey(section, "battery")),
                    auto_apply |-> OptBool(section, "auto_apply", FALSE)])

KeyboardDefaults ==
    [min_value |-> 0, timeout_seconds |-> 30,
     timeout_supported |-> FALSE, timeout_default_enabled |-> FALSE]

Keyboard(text) ==
    LET section == Section(text, "keyboard_backlight")
        fields == AllOf([register |-> Byte(IntKey(section, "register")),
                         max_value |-> Byte(IntKey(section, "max_value")),
                         min_value |-> Byte(OptInt(section, "min_value", KeyboardDefaults.min_value)),
                         timeout_supported |-> OptBool(section, "timeout_supported", FALSE),
                         timeout_default_enabled |->
                             OptBool(section, "timeout_default_enabled", FALSE),
                         timeout_seconds |-> In(5..3600, OptInt(section, "timeout_seconds",
                                                      KeyboardDefaults.timeout_seconds))])
    IN  IF ~Present(text, "keyboard_backlight") THEN {<<>>}
        ELSE {k \in fields : k.min_value < k.max_value}

\* The strings of the list, the first eight of them.
AllowedDmi(text) ==
    {w[2] : w \in UNION {{a[i] : i \in {j \in DOMAIN a : a[j][1] = "s" /\
            Cardinality({n \in 1..j : a[n][1] = "s"}) <= 8}} :
                a \in ArrayKey(text, "allowed_dmi_substrings")}}

InitWrite(text) ==
    AllOf([register |-> Byte(IntKey(text, "register")), value |-> Byte(IntKey(text, "value")),
           reset_value |-> Byte(IntKey(text, "reset_value"))])

InitWriteList(text) ==
    LET items == Items(text, "init_writes", MaxWrites)
    IN  AllOf([i \in DOMAIN items |-> InitWrite(items[i])])

-----------------------------------------------------------------------------
\* Fans and presets

Point(text) ==
    LET point == AllOf([up |-> In(0..130, IntKey(text, "up")),
                        down |-> In(0..130, IntKey(text, "down")),
                        speed |-> In(0..100, IntKey(text, "speed"))])
    IN  {p \in point : p.down <= p.up}

Curve(text) ==
    LET items == Items(text, "curve", MaxThresholds)
    IN  AllOf([i \in DOMAIN items |-> Point(items[i])]) \ {<<>>}

FanIdentity(text) ==
    [id |-> NonEmpty(StringKey(text, "id")), name |-> NonEmpty(StringKey(text, "name")),
     sensor_group |-> NonEmpty(StringKey(text, "sensor_group"))]

\* A power control other than on and auto is none.
FanSensors(text) ==
    LET awake == OptBool(text, "keep_awake", FALSE)
        control == OptString(text, "sensor_power_control", IF TRUE \in awake THEN "on" ELSE "")
        group == StringKey(text, "sensor_group")
    IN  [keep_awake |-> awake,
         control_sensor_group |->
            IF Present(text, "control_sensor_group")
            THEN StringKey(text, "control_sensor_group") ELSE group,
         sensor_power_control |-> {IF c \in {"on", "auto"} THEN c ELSE "" : c \in control}]

FanRegisters(text) ==
    [read_register |-> Byte(IntKey(text, "read_register")),
     write_register |-> Byte(IntKey(text, "write_register"))]

FanTemperatureRegisters(text) ==
    [k \in {"temperature_register", "control_temperature_register"} |->
        In(-1..255, OptInt(text, k, -1))]

FanNumbers(text) ==
    [read_min |-> OptInt(text, "read_min", 0), read_max |-> OptInt(text, "read_max", 6000),
     write_min |-> OptInt(text, "write_min", 0), write_max |-> OptInt(text, "write_max", 100),
     reset_speed |-> OptInt(text, "reset_speed", 50),
     missing_temperature_speed_percent |->
         Clamped(text, "missing_temperature_speed_percent", 0, 0, 100)]

\* validate_fan_numeric_ranges
RangesValid(fan) ==
    /\ 0 <= fan.read_min /\ fan.read_min < fan.read_max
    /\ 0 <= fan.write_min /\ fan.write_min < fan.write_max /\ fan.write_max <= 100
    /\ fan.write_min <= fan.reset_speed /\ fan.reset_speed <= fan.write_max

FanEntry(text) ==
    LET fan == AllOf(Joined(FanIdentity(text), Joined(FanSensors(text),
                     Joined(FanRegisters(text), Joined(FanTemperatureRegisters(text),
                     Joined(FanNumbers(text), [curve |-> Curve(text)]))))))
    IN  {f \in fan : RangesValid(f)}

Fans(text) ==
    LET items == Items(text, "fans", MaxFans)
    IN  AllOf([i \in DOMAIN items |-> FanEntry(items[i])]) \ {<<>>}

Preset(text) ==
    AllOf([id |-> NonEmpty(StringKey(text, "id")), cpu |-> In(1..100, IntKey(text, "cpu")),
           gpu |-> In(1..100, IntKey(text, "gpu"))])

PresetList(text) ==
    LET items == Items(text, "presets", MaxPresets)
    IN  AllOf([i \in DOMAIN items |-> Preset(items[i])])

-----------------------------------------------------------------------------
\* The whole file

WithTiming(text, timing) ==
    UNION {AllOf([identity |-> Identity(text), timing |-> {timing},
                  safety |-> SafetySection(text, timing.critical_temperature_c),
                  fan_modes |-> FanModes(text), platform_profiles |-> {profiles},
                  power_source_profiles |-> PowerSources(text, profiles),
                  keyboard_backlight |-> Keyboard(text), allowed_dmi |-> {AllowedDmi(text)},
                  init_writes |-> InitWriteList(text),
                  fans |-> Fans(text), presets |-> PresetList(text)]) :
           profiles \in PlatformProfiles(text)}

\* config_load: {} or {the configuration}.
Load(text) == UNION {WithTiming(text, timing) : timing \in Timing(text)}

-----------------------------------------------------------------------------
\* What the rest of the daemon relies on, as its modules assume it.

SafetyInRange(s, critical) ==
    /\ \A k \in {"min_speed_percent", "critical_speed_percent", "critical_step_percent",
                 "missing_temperature_speed_percent", "max_ec_read_failures",
                 "max_ec_write_failures"} : s[k] \in 1..100
    /\ s.min_speed_temperature_c \in 1..130 /\ s.critical_consecutive_samples \in 1..10
    /\ s.critical_release_temperature_c \in -4..critical
    /\ s.auto_ramp_up_percent \in 0..100 /\ s.auto_ramp_bypass_temperature_c \in 0..130

InRange(cfg) ==
    /\ cfg.timing.critical_temperature_c \in 1..130
    /\ SafetyInRange(cfg.safety, cfg.timing.critical_temperature_c)
    /\ cfg.keyboard_backlight # <<>> =>
          /\ {cfg.keyboard_backlight.min_value, cfg.keyboard_backlight.max_value} \subseteq 0..255
          /\ cfg.keyboard_backlight.min_value < cfg.keyboard_backlight.max_value
          /\ cfg.keyboard_backlight.timeout_seconds > 0
    /\ cfg.power_source_profiles # <<>> =>
          {cfg.power_source_profiles.ac, cfg.power_source_profiles.battery}
              \subseteq Known(cfg.platform_profiles)
    /\ Len(cfg.fans) \in 1..MaxFans
    /\ \A i \in DOMAIN cfg.fans :
          /\ RangesValid(cfg.fans[i]) /\ cfg.fans[i].curve # <<>>
          /\ cfg.fans[i].missing_temperature_speed_percent \in 0..100
    /\ \A i \in DOMAIN cfg.presets : {cfg.presets[i].cpu, cfg.presets[i].gpu} \subseteq 1..100
=============================================================================
