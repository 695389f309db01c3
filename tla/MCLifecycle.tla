----------------------------- MODULE MCLifecycle -----------------------------
(***************************************************************************)
(* Values for the constants of Lifecycle: model files in the shape of      *)
(* models/acer-nitro-an517-51.json, whole and damaged.                     *)
(***************************************************************************)
EXTENDS Lifecycle

Join(members) ==
    FoldLeft(LAMBDA t, m : IF t = <<>> THEN m ELSE t \o <<Mark(",")>> \o m, <<>>, members)

Key(k) == <<S(k), Mark(":")>>
Num(k, v) == Key(k) \o <<N(v)>>
Str(k, v) == Key(k) \o <<S(v)>>
Flag(k, v) == Key(k) \o <<B(v)>>
Obj(members) == <<Mark("{")>> \o Join(members) \o <<Mark("}")>>
Sub(k, members) == Key(k) \o Obj(members)
Arr(k, items) == Key(k) \o <<Mark("[")>> \o Join(items) \o <<Mark("]")>>

McSafety(numbers) == Sub("safety", numbers)
Tuned == McSafety(<<Num("min_speed_percent", 30), Flag("critical_full_speed", FALSE),
                    Num("critical_release_temperature_c", 82),
                    Num("missing_temperature_speed_percent", 35)>>)
\* Beyond the bounds, and a key missing that a fan further on has.
Wild == McSafety(<<Num("min_speed_percent", 250), Num("critical_release_temperature_c", 300),
                   Num("critical_consecutive_samples", 0)>>)

Modes(more) == Sub("fan_modes", <<Num("cpu_register", 34)>> \o more \o <<Num("gpu_register", 33)>>)
Platform == Sub("platform_profiles",
    <<Num("register", 44), Str("default_profile", "balanced"),
      Arr("profiles", <<Obj(<<Str("id", "quiet"), Num("value", 0)>>),
                        Obj(<<Str("id", "balanced"), Num("value", 1)>>)>>)>>)
PowerSource(battery) == Sub("power_source_profiles",
    <<Str("ac", "balanced"), Str("battery", battery), Flag("auto_apply", TRUE)>>)
Light(max) == Sub("keyboard_backlight",
    <<Num("register", 49), Num("min_value", 1), Num("max_value", max),
      Flag("timeout_supported", TRUE)>>)
Write(r, v, reset) == Obj(<<Num("register", r), Num("value", v), Num("reset_value", reset)>>)
McPoint(up, down, speed) == Obj(<<Num("up", up), Num("down", down), Num("speed", speed)>>)
McFanOf(group, more) == Obj(<<Str("id", "cpu"), Str("name", "CPU fan"), Num("read_register", 19),
    Num("write_register", 55), Num("reset_speed", 50)>> \o more \o
    <<Str("sensor_group", group),
      Arr("curve", <<McPoint(0, 0, 0), McPoint(70, 65, 60)>>)>>)
McFan(more) == McFanOf("cpu", more)
McPresets == Arr("presets", <<Obj(<<Str("id", "cool"), Num("cpu", 65), Num("gpu", 60)>>)>>)

Header(preset) == <<Str("model", "Nitro"), Str("default_preset", preset),
                  Arr("allowed_dmi_substrings", <<<<S("AN517-51")>>, <<S("AN715-51")>>>>)>>
EcAt(critical, sections) ==
    Sub("ec", <<Num("poll_interval_ms", 3000), Num("critical_temperature_c", critical)>> \o sections)
Ec(sections) == EcAt(90, sections)

\* Two writes to one register, the second of which wins at the start.
TwoWrites == Arr("init_writes", <<Write(34, 12, 4), Write(33, 48, 16), Write(34, 8, 12)>>)
OneWrite == Arr("init_writes", <<Write(34, 12, 4)>>)

Awake == <<Flag("keep_awake", TRUE)>>
Dozing == <<Str("sensor_power_control", "auto"), Num("missing_temperature_speed_percent", 40)>>

McText ==
    [tuned |-> Obj(Header("firmware-auto") \o
        <<Ec(<<Tuned, Modes(<<Num("cpu_manual_value", 12)>>), Platform, PowerSource("quiet"),
               Light(4), OneWrite>>),
          Arr("fans", <<McFan(Awake)>>), McPresets>>),
     wild |-> Obj(Header("cool") \o
        <<Ec(<<Platform, Light(4), Wild, TwoWrites>>), Arr("fans", <<McFanOf("max", Dozing)>>),
          McPresets>>),
     bare |-> Obj(<<Str("model", "Nitro"), Str("default_preset", "auto"),
                    Arr("fans", <<McFan(<<>>)>>)>>),
     elsewhere |-> Obj(<<Str("model", "Other"), Str("default_preset", "auto"),
        Arr("allowed_dmi_substrings", <<<<S("PH315")>>>>),
        EcAt(4, <<McSafety(<<Num("min_speed_percent", 30)>>)>>), Arr("fans", <<McFan(<<>>)>>)>>),
     dark |-> Obj(Header("auto") \o <<Ec(<<Light(1)>>), Arr("fans", <<McFan(<<>>)>>)>>),
     unknown |-> Obj(Header("auto") \o
        <<Ec(<<Platform, PowerSource("eco")>>), Arr("fans", <<McFan(<<>>)>>)>>),
     fanless |-> Obj(Header("auto")),
     cut |-> SubSeq(Obj(Header("auto") \o <<Arr("fans", <<McFan(<<>>)>>)>>), 1, 40)]

\* What the proof about sections takes for granted (LifecycleProofs).
ASSUME McKeysInOrder == KeysInOrder = Documents

McFiles == [default |-> {"tuned", "wild", "bare", "elsewhere", "missing"},
            fallback |-> {"tuned", "dark"},
            given |-> {"wild", "unknown", "fanless", "cut"}]

\* Two inode numbers are as good as each other.
McSymmetry == Permutations(Inodes)

McLines == {<<>>, <<"--config", "given">>, <<"--force-model">>, <<"--check-config">>,
            <<"--validate-model", "--config", "given">>, <<"--config">>, <<"--help">>}

McBoot == [r \in {33, 34, 55} |-> CASE r = 33 -> 16 [] r = 34 -> 4 [] OTHER -> 50]
McFaults == {{}, {34}}
=============================================================================
