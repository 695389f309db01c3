--------------------------- MODULE ControlCommands ---------------------------
(***************************************************************************)
(* The command language between client and daemon: the lines the client    *)
(* sends for an argument vector, and what the daemon's registry and        *)
(* parsers make of a line.                                                 *)
(*                                                                         *)
(* A line is the sequence of its tokens.  A shape is a sequence of sets of *)
(* tokens; a line has a shape when each token is in its set.               *)
(***************************************************************************)
EXTENDS Integers, Sequences, SequencesExt

CONSTANTS
    Names,      \* words a user may give as a preset or profile
    Numerals,   \* numerals and their values, strtol base 0
    Decimals,   \* those that base 10 reads the same
    Printed,    \* those printf writes
    TooLong     \* words that do not fit the daemon's token buffers

ASSUME CommandsAssumption ==
    /\ Names \cup DOMAIN Numerals \cup TooLong \subseteq STRING
    /\ Numerals \in [DOMAIN Numerals -> Int]
    /\ Printed \subseteq Decimals /\ Decimals \subseteq DOMAIN Numerals

HasShape(line, shape) ==
    Len(line) = Len(shape) /\ \A i \in DOMAIN line : line[i] \in shape[i]

\* parse_int_range
Within(numerals, min, max) == {n \in numerals : Numerals[n] \in min..max}

OnOff == {"on", "off"}
Byte == Within(DOMAIN Numerals, 0, 255)
PercentWord == Within(Decimals, 1, 100)
Levels == {0, 25, 50, 75, 100}

-----------------------------------------------------------------------------
\* The client: what `nitro ARGV` sends.  Anything else is refused, exit 2.

Passes(argv, shape, line) == HasShape(argv, shape) /\ line = argv

\* The value of word, as printf writes it.
Prints(word, out) == out \in Printed /\ Numerals[out] = Numerals[word]

\* start, restart, validate, doctor and status --json send nothing.
StatusSends(argv, line) ==
    /\ line = <<"status">>
    /\ HasShape(argv, <<{"status"}>>) \/
       HasShape(argv, <<{"status"}, {"--celsius", "--fahrenheit"}>>)

BuiltinSends(argv, line) ==
    Passes(argv, <<{"stop", "auto", "firmware-auto", "presets", "capabilities", "resume"}>>, line)

CoolboostSends(argv, line) == Passes(argv, <<{"coolboost"}, OnOff \cup {"status"}>>, line)

FanModeSends(argv, line) ==
    Passes(argv, <<{"fan-mode"}, {"status", "auto", "manual", "turbo"}>>, line)

ProfileSends(argv, line) == Passes(argv, <<{"profile"}, Names \cup {"status"}>>, line)

GpuTempSends(argv, line) == Passes(argv, <<{"gpu-temp"}, {"status", "auto", "live"}>>, line)

PowerSourceSends(argv, line) ==
    \/ Passes(argv, <<{"power-source"}, {"status", "apply"}>>, line)
    \/ Passes(argv, <<{"power-source"}, {"auto"}, OnOff>>, line)

KeyboardSends(argv, line) ==
    \/ Passes(argv, <<{"keyboard-backlight"}, {"status"}>>, line)
    \/ Passes(argv, <<{"keyboard-backlight"}, {"timeout"}, OnOff \cup {"status"}>>, line)
    \/ /\ HasShape(argv, <<{"keyboard-backlight"}, {"set"}, Decimals>>)
       /\ Numerals[argv[3]] \in Levels
       /\ Len(line) = 3 /\ line[1] = argv[1] /\ line[2] = argv[2] /\ Prints(argv[3], line[3])

EcSends(argv, line) ==
    \/ /\ HasShape(argv, <<{"ec"}, {"read"}, Byte>>)
       /\ Len(line) = 2 /\ line[1] = "ec-read" /\ Prints(argv[3], line[2])
    \/ /\ HasShape(argv, <<{"ec"}, {"dump"}, Byte, Byte>>)
       /\ Numerals[argv[4]] - Numerals[argv[3]] \in 0..127
       /\ Len(line) = 3 /\ line[1] = "ec-dump"
       /\ \A i \in 2..3 : Prints(argv[i + 1], line[i])

SetSends(argv, line) ==
    /\ HasShape(argv, <<{"set"}, {"cpu", "gpu", "all"}, PercentWord>>)
    /\ Len(line) = 3 /\ line[1] = argv[1] /\ line[2] = argv[2] /\ Prints(argv[3], line[3])

PresetSends(argv, line) ==
    \/ HasShape(argv, <<{"preset"}, {"show"}>>) /\ line = <<"preset-show">>
    \/ Passes(argv, <<{"preset"}, Names>>, line)

ClientSends(argv, line) ==
    \/ StatusSends(argv, line) \/ BuiltinSends(argv, line)
    \/ CoolboostSends(argv, line) \/ FanModeSends(argv, line) \/ ProfileSends(argv, line)
    \/ GpuTempSends(argv, line) \/ PowerSourceSends(argv, line) \/ KeyboardSends(argv, line)
    \/ EcSends(argv, line) \/ SetSends(argv, line) \/ PresetSends(argv, line)

-----------------------------------------------------------------------------
\* The daemon: what becomes of a line.  A handler's words are the shape of
\* the lines it acts on; a name is looked up later.

\* command_read_token into a buffer.
Fitting(words) == words \ TooLong

OpenWords == {<<{"status", "presets", "preset-show", "capabilities"}>>}
ControlWords == {<<{"resume", "stop"}>>}
CoolboostWords == {<<{"coolboost"}, OnOff>>}
FanModeWords == {<<{"fan-mode"}, {"auto", "manual", "turbo"}>>}
ProfileWords == {<<{"profile"}, Fitting(Names)>>}
GpuTempWords == {<<{"gpu-temp"}, {"auto", "live"}>>}
PowerSourceWords == {<<{"power-source"}, {"apply"}>>, <<{"power-source"}, {"auto"}, OnOff>>}

FanWords == {<<{"auto", "firmware-auto"}>>,
             <<{"set"}, Fitting(Names \cup {"cpu", "gpu", "all"}), PercentWord>>,
             <<{"preset"}, Fitting(Names)>>}

\* Mutant of Brightness: a level is a percentage of at least 1.
BrightnessFromOne == {n \in Byte : Numerals[n] \in Levels \ {0}}

Brightness == {n \in Byte : Numerals[n] \in Levels}

KeyboardWords == {<<{"keyboard-backlight"}, {"set"}, Brightness>>,
                  <<{"keyboard-backlight"}, {"timeout"}, OnOff>>}

EcParses(line) ==
    \/ HasShape(line, <<{"ec-read"}, Byte>>)
    \/ /\ HasShape(line, <<{"ec-dump"}, Byte, Byte>>)
       /\ Numerals[line[3]] - Numerals[line[2]] \in 0..127

Parses(line) ==
    \/ EcParses(line)
    \/ \E shape \in OpenWords \cup ControlWords \cup FanWords \cup CoolboostWords
                    \cup FanModeWords \cup ProfileWords \cup GpuTempWords
                    \cup PowerSourceWords \cup KeyboardWords :
            HasShape(line, shape)

\* DAEMON_COMMANDS: whom the table lets in, and whose handler looks first.
RequiresControl ==
    {"ec-read", "ec-dump", "set", "preset", "auto", "firmware-auto", "resume", "stop"}
FanStatus == {"coolboost", "fan-mode"}
PlatformStatus == {"profile", "power-source", "gpu-temp", "keyboard-backlight"}
Mixed == FanStatus \cup PlatformStatus
Open == {"status", "presets", "preset-show", "capabilities"}

\* command_action_is_status
AsksStatus(line) ==
    \/ HasShape(line, <<Mixed, {"status"}>>)
    \/ line = <<"keyboard-backlight", "timeout", "status">>

\* Mutant of Dispatch: a handler of mixed commands forgets ensure_control.
DispatchMixed(line, allowed) ==
    IF line = <<>> \/ Head(line) \notin Open \cup Mixed \cup RequiresControl THEN "unknown"
    ELSE IF Head(line) \in RequiresControl /\ ~allowed THEN "denied"
    ELSE IF AsksStatus(line) THEN "status"
    ELSE IF Parses(line) THEN "run" ELSE "usage"

\* dispatch_daemon_command and the registry handlers
Dispatch(line, allowed) ==
    IF line = <<>> \/ Head(line) \notin Open \cup Mixed \cup RequiresControl THEN "unknown"
    ELSE IF Head(line) \in RequiresControl /\ ~allowed THEN "denied"
    ELSE IF AsksStatus(line) THEN "status"
    ELSE IF Head(line) \in Mixed /\ ~allowed THEN "denied"
    ELSE IF Parses(line) THEN "run" ELSE "usage"

-----------------------------------------------------------------------------
\* Argument vectors a user may give, right and wrong, and what is sent for
\* them.

Words == Names \cup DOMAIN Numerals \cup OnOff
         \cup {"status", "auto", "manual", "turbo", "apply", "live", "show", "cpu", "all"}

Argvs ==
    {<<c>> : c \in Open \cup RequiresControl}
    \cup {<<c, w>> : c \in Mixed \cup {"preset", "set"}, w \in Words}
    \cup {<<c, v, w>> : c \in {"keyboard-backlight", "power-source", "ec", "set"},
                        v \in {"set", "timeout", "auto", "read", "cpu", "all"}, w \in Words}
    \cup {<<"ec", "dump", v, w>> : v, w \in DOMAIN Numerals}

ClientLines ==
    LET Outs(argv) == {argv, <<"status">>, <<"preset-show">>}
              \cup (IF Len(argv) = 3 THEN {<<"ec-read", n>> : n \in Printed}
                        \cup {<<argv[1], argv[2], n>> : n \in Printed} ELSE {})
              \cup (IF Len(argv) = 4 THEN {<<"ec-dump", m, n>> : m, n \in Printed} ELSE {})
    IN  UNION {{l \in Outs(argv) : ClientSends(argv, l)} : argv \in Argvs}
=============================================================================
