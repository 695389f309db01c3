------------------------------ MODULE Lifecycle ------------------------------
(***************************************************************************)
(* main: what the daemon takes hold of on its way up and gives back on its *)
(* way down, with a model file that may be any text, the state file it     *)
(* saves to (StateFile) and crashes and power losses at every step.        *)
(*                                                                         *)
(* A block of main that either goes on or returns is one step.  The loop   *)
(* itself is DaemonLoop, and what it does to the fans FanControl; here it  *)
(* changes the control mode, saves it and leaves registers behind.         *)
(***************************************************************************)
EXTENDS ModelConfig, StateFile

CONSTANTS
    Text,           \* the model files a path may lead to, by name
    Files,          \* what each path may lead to
    Lines,          \* the argument vectors of a start
    MachineNames,   \* the parts of model names this machine's names contain
    BootRegisters,  \* what firmware puts into the registers when it starts
    WriteFaults     \* the sets of registers that may fail together

Documents == DOMAIN Text
Registers == DOMAIN BootRegisters
Paths == {"default", "fallback", "given"}

\* Who has the fans: all this module tells apart of a control mode.
Owners == {"firmware", "daemon"}

\* Where a path follows --config; no path reads --config itself.
Operands(line) == {i \in 2..Len(line) : line[i - 1] = "--config"}

ASSUME LifecycleAssumption ==
    /\ \A d \in Documents : Text[d] \in Seq(Token)
    /\ {"none", "missing"} \cap Documents = {}
    /\ Files \in [Paths -> SUBSET (Documents \cup {"missing"})]
    /\ Lines \subseteq Seq(STRING)
    /\ \A line \in Lines : \A i \in Operands(line) : line[i] \in Paths
    /\ Texts = Owners
    /\ BootRegisters \in [Registers -> 0..255]
    /\ WriteFaults \subseteq SUBSET Registers

\* What config_load makes of each file.
Configs == [d \in Documents |-> Load(Text[d])]

VARIABLES
    phase,      \* where main is; "off" when no daemon runs
    args,       \* struct daemon_args, until the configuration is loaded
    loaded,     \* the model file main works with
    running,    \* daemon_running
    socket,     \* the socket file: "none", "dead" or "live"
    regs,       \* EC registers
    power,      \* power/control of the sensor groups' devices
    end,        \* how the last run ended (history)
    faulty,     \* one of its closing writes failed (history)
    before      \* registers and power when it started, until it writes (history)

processVars == <<args, loaded, running>>
machineVars == <<socket, regs, power>>
historyVars == <<end, faulty, before>>
vars == <<phase, processVars, machineVars, historyVars, fileVars>>

Phases == {"off", "load", "tools", "directories", "ec", "bind", "listen", "init", "sensors",
           "restore", "loop", "reset", "release", "close", "unlink"}

Options == {"--force-model", "--check-config", "--probe", "--validate-model"}

-----------------------------------------------------------------------------
\* Arguments

\* daemon_args_init
NoArgs == [path |-> "default", explicit |-> FALSE, options |-> {}, result |-> "ok"]

\* daemon_args_parse: the last path counts, and the first wrong word ends it.
Parse(line) ==
    LET words == DOMAIN line \ Operands(line)
        wrong == {i \in words : /\ line[i] \notin Options
                                /\ ~(line[i] = "--config" /\ i < Len(line))}
    IN  [path |-> IF Operands(line) = {} THEN "default" ELSE line[Max(Operands(line))],
         explicit |-> Operands(line) # {},
         options |-> {line[i] : i \in words} \cap Options,
         result |-> IF wrong = {} THEN "ok"
                    ELSE IF line[Min(wrong)] = "--help" THEN "help" ELSE "usage"]

Asked(option) == option \in args.options

-----------------------------------------------------------------------------
\* The configuration in use

Loads(d) == d \in Documents /\ Configs[d] # {}

\* The file main goes on with when the paths lead to these.
Usable(files) ==
    IF Loads(files[args.path]) THEN {files[args.path]}
    ELSE {d \in {files["fallback"]} : ~args.explicit /\ Loads(d)}

\* What the paths of interest may lead to by now; files change between starts.
Installed ==
    {f \in [{args.path, "fallback"} -> Documents \cup {"missing"}] :
        \A p \in DOMAIN f : f[p] \in Files[p]}

\* dmi_allowed; no list allows every machine.
DmiAllowed(d) ==
    \E c \in Configs[d] : c.allowed_dmi = {} \/ c.allowed_dmi \cap MachineNames # {}

\* ec_write_byte, over a list of <<register, value>>, when those of F fail: the
\* last write to a register stays.
Written(list, F) ==
    [r \in DOMAIN regs |->
        LET writes == {i \in DOMAIN list : list[i][1] = r}
        IN  IF r \in F \/ writes = {} THEN regs[r] ELSE list[Max(writes)][2]]

InitWrites(cfg) ==
    [i \in DOMAIN cfg.init_writes |-> <<cfg.init_writes[i].register, cfg.init_writes[i].value>>]

\* Mutant of ResetWrites: in the order of the init writes.
ResetWritesForward(cfg) ==
    [i \in DOMAIN cfg.fans |-> <<cfg.fans[i].write_register, cfg.fans[i].reset_speed>>] \o
    [i \in DOMAIN cfg.init_writes |->
        <<cfg.init_writes[i].register, cfg.init_writes[i].reset_value>>]

\* apply_reset_writes: backwards, so of two writes to a register the first wins.
ResetWrites(cfg) ==
    Reverse([i \in DOMAIN cfg.fans |-> <<cfg.fans[i].write_register, cfg.fans[i].reset_speed>>]) \o
    Reverse([i \in DOMAIN cfg.init_writes |->
                <<cfg.init_writes[i].register, cfg.init_writes[i].reset_value>>])

\* apply_fan_mode's writes; the second is made only when the first succeeded.
ModeWrites(cfg, mode) ==
    IF cfg.fan_modes = <<>> THEN <<>>
    ELSE IF mode = "auto"
    THEN <<<<cfg.fan_modes.cpu_register, cfg.fan_modes.cpu_auto_value>>,
           <<cfg.fan_modes.gpu_register, cfg.fan_modes.gpu_auto_value>>>>
    ELSE <<<<cfg.fan_modes.cpu_register, cfg.fan_modes.cpu_manual_value>>,
           <<cfg.fan_modes.gpu_register, cfg.fan_modes.gpu_manual_value>>>>

ModeFaults(cfg, mode, F) ==
    LET list == ModeWrites(cfg, mode)
    IN  IF list # <<>> /\ list[1][1] \in F THEN {list[1][1], list[2][1]} ELSE F

ModeApplied(cfg, mode, F) == \A w \in Range(ModeWrites(cfg, mode)) : w[1] \notin F

\* Some speed a running daemon gives its fans
SpeedWrites(cfg) ==
    [i \in DOMAIN cfg.fans |-> <<cfg.fans[i].write_register, cfg.fans[i].write_max>>]

ModeTaken(cfg, mode, F) == Written(ModeWrites(cfg, mode), ModeFaults(cfg, mode, F))

\* The registers when the daemon or firmware takes the fans
Taken(cfg, mode, F) ==
    Written(ModeWrites(cfg, mode) \o (IF mode = "auto" THEN <<>> ELSE SpeedWrites(cfg)),
            F \cup ModeFaults(cfg, mode, F))

\* sensor_group_matches: the devices of a group
Devices(group) == IF group = "max" THEN {"cpu", "gpu"} ELSE {group} \cap {"cpu", "gpu"}

\* What a fan wants of its group's devices; "" is nothing.
PowerWanted(fan, control) ==
    IF fan.sensor_power_control # ""
    THEN IF control = "auto" THEN "auto" ELSE fan.sensor_power_control
    ELSE IF fan.keep_awake THEN control ELSE ""

\* apply_sensor_power_control, when the devices of G refuse: the last fan that
\* wants something of a device has it.
PowerSet(cfg, control, G) ==
    [g \in DOMAIN power |->
        LET fans == {i \in DOMAIN cfg.fans : /\ g \in Devices(cfg.fans[i].sensor_group)
                                             /\ PowerWanted(cfg.fans[i], control) # ""}
        IN  IF g \in G \/ fans = {} THEN power[g]
            ELSE PowerWanted(cfg.fans[Max(fans)], control)]

-----------------------------------------------------------------------------
\* Start and the tools that only look

AtBoot == [regs |-> BootRegisters, power |-> [g \in {"cpu", "gpu"} |-> "auto"]]

Init ==
    /\ phase = "off"
    /\ args = NoArgs /\ loaded = "none" /\ running = FALSE
    /\ socket = "none" /\ regs = AtBoot.regs /\ power = AtBoot.power
    /\ end = "none" /\ faulty = FALSE /\ before = AtBoot
    /\ FileInit

\* main returns; its process is gone.
Exit(how) ==
    /\ phase' = "off" /\ end' = how
    /\ args' = NoArgs /\ loaded' = "none" /\ running' = FALSE

Enter(next) == phase' = next /\ UNCHANGED end

Keep == UNCHANGED <<socket, regs, power, faulty, before, fileVars>>

Start ==
    /\ phase = "off"
    /\ \E line \in Lines :
          /\ args' = Parse(line) /\ args'.result = "ok"
          /\ phase' = "load"
    /\ before' = [regs |-> regs, power |-> power] /\ faulty' = FALSE /\ end' = "none"
    /\ UNCHANGED <<loaded, running, machineVars, fileVars>>

\* Help, and arguments main does not know.
Misused ==
    /\ phase = "off" /\ \E line \in Lines : Parse(line).result # "ok"
    /\ Exit("early") /\ Keep

\* config_load, the DMI check and --check-config
Refuse ==
    /\ phase = "load"
    /\ \E files \in Installed : \A d \in Usable(files) : ~Asked("--force-model") /\ ~DmiAllowed(d)
    /\ Exit("early") /\ Keep

Configure ==
    /\ phase = "load"
    /\ \E files \in Installed : \E d \in Usable(files) :
          /\ Asked("--force-model") \/ DmiAllowed(d)
          /\ \/ Asked("--check-config") /\ Exit("early")
             \/ /\ ~Asked("--check-config")
                /\ Enter(IF Asked("--probe") \/ Asked("--validate-model")
                         THEN "tools" ELSE "directories")
                /\ loaded' = d /\ running' = TRUE /\ args' = NoArgs
    /\ Keep

\* probe_ec and validate_model only read; ec_open_rw may fail before.
Look == phase = "tools" /\ Exit("early") /\ Keep

\* mkdir_p of the two directories
MakeDirectories ==
    /\ phase = "directories"
    /\ Exit("early") \/ (Enter("ec") /\ UNCHANGED processVars)
    /\ Keep

OpenEc ==
    /\ phase = "ec"
    /\ Exit("early") \/ (Enter("bind") /\ UNCHANGED processVars)
    /\ Keep

-----------------------------------------------------------------------------
\* make_socket

\* The path is freed before the new socket exists, so a failure loses the old.
Bind ==
    /\ phase = "bind"
    /\ \/ Exit("early") /\ UNCHANGED socket
       \/ Exit("early") /\ socket' = "none"
       \/ Enter("listen") /\ socket' = "dead" /\ UNCHANGED processVars
    /\ UNCHANGED <<regs, power, faulty, before, fileVars>>

\* finish_control_socket
Listen ==
    /\ phase = "listen"
    /\ \/ Exit("early") /\ socket' = "none"
       \/ Enter("init") /\ socket' = "live" /\ UNCHANGED processVars
    /\ UNCHANGED <<regs, power, faulty, before, fileVars>>

-----------------------------------------------------------------------------
\* Taking the fans

ApplyInitWrites ==
    /\ phase = "init" /\ Enter("sensors")
    /\ \E cfg \in Configs[loaded], F \in WriteFaults : regs' = Written(InitWrites(cfg), F)
    /\ before' = AtBoot
    /\ UNCHANGED <<processVars, socket, power, faulty, fileVars>>

SensorsOn ==
    /\ phase = "sensors" /\ Enter("restore")
    /\ \E cfg \in Configs[loaded], G \in SUBSET DOMAIN power : power' = PowerSet(cfg, "on", G)
    /\ UNCHANGED <<processVars, socket, regs, faulty, before, fileVars>>

FanModeOf(owner) == IF owner = "firmware" THEN "auto" ELSE "manual"

\* Firmware that cannot be given the fans leaves them to the daemon.
Restored(cfg, c, F) ==
    IF c = "firmware" /\ ~ModeApplied(cfg, "auto", F)
    THEN Written(ModeWrites(cfg, "auto") \o ModeWrites(cfg, "manual"), ModeFaults(cfg, "auto", F))
    ELSE Taken(cfg, FanModeOf(c), F)

\* restore_control_state; it saves nothing.
Restore ==
    /\ phase = "restore"
    /\ \E cfg \in Configs[loaded], c \in Owners, F \in WriteFaults :
          /\ Reads(names, data) = Whole(c)
          /\ regs' = Restored(cfg, c, F)
    /\ Enter("loop")
    /\ UNCHANGED <<processVars, socket, power, faulty, before, fileVars>>

Presets(cfg) == {cfg.presets[i].id : i \in DOMAIN cfg.presets}

\* What the model's default preset does, and {} or {what is saved}.
Default(cfg, F) ==
    LET id == cfg.identity.default_preset
        entered == cfg.fan_modes # <<>> /\ ModeApplied(cfg, "auto", F)
    IN  CASE id = "auto" -> [regs |-> ModeTaken(cfg, "manual", F), saved |-> {"daemon"}]
          [] id = "firmware-auto" -> [regs |-> ModeTaken(cfg, "auto", F),
                                      saved |-> IF entered THEN {"firmware"} ELSE {}]
          [] id \in Presets(cfg) -> [regs |-> Written(SpeedWrites(cfg), F), saved |-> {"daemon"}]
          [] OTHER -> [regs |-> regs, saved |-> {}]

\* Without a state file, or with one that cannot be read.  Without its directory
\* write_control_state writes nothing.
EnterDefault ==
    /\ phase = "restore"
    /\ \E cfg \in Configs[loaded], F \in WriteFaults :
          LET default == Default(cfg, F)
          IN  /\ regs' = default.regs
              /\ (\E c \in default.saved : BeginSave(c)) \/ UNCHANGED fileVars
    /\ Enter("loop")
    /\ UNCHANGED <<processVars, socket, power, faulty, before>>

-----------------------------------------------------------------------------
\* The loop

Settled == phase = "loop" /\ call = "none"

\* A command that changes the control mode and saves it, or is refused.
Choose ==
    /\ Settled /\ running
    /\ \E cfg \in Configs[loaded], c \in Owners, F \in WriteFaults :
          /\ c = "firmware" => cfg.fan_modes # <<>>
          /\ IF ModeApplied(cfg, FanModeOf(c), F)
             THEN regs' = Taken(cfg, FanModeOf(c), F) /\ (BeginSave(c) \/ UNCHANGED fileVars)
             ELSE regs' = ModeTaken(cfg, FanModeOf(c), F) /\ UNCHANGED fileVars
    /\ UNCHANGED <<phase, end, processVars, socket, power, faulty, before>>

\* The state file is being written; the loop waits.
Save ==
    /\ phase = "loop" /\ SaveStep
    /\ UNCHANGED <<phase, processVars, machineVars, historyVars>>

\* A signal, or the stop command.
Stop ==
    /\ running /\ phase \in {"directories", "ec", "bind", "listen", "init", "sensors",
                             "restore", "loop"}
    /\ running' = FALSE
    /\ UNCHANGED <<phase, args, loaded, machineVars, historyVars, fileVars>>

\* daemon_running is read, or select fails; nobody reads it again.
LeaveLoop ==
    /\ Settled /\ Enter("reset") /\ running' = FALSE
    /\ UNCHANGED <<args, loaded, machineVars, faulty, before, fileVars>>

-----------------------------------------------------------------------------
\* Giving back

Reset ==
    /\ phase = "reset" /\ Enter("release")
    /\ \E cfg \in Configs[loaded], F \in WriteFaults :
          regs' = Written(ResetWrites(cfg), F) /\ faulty' = (F # {})
    /\ UNCHANGED <<processVars, socket, power, before, fileVars>>

SensorsAuto ==
    /\ phase = "release" /\ Enter("close")
    /\ \E cfg \in Configs[loaded], G \in SUBSET DOMAIN power :
          power' = PowerSet(cfg, "auto", G) /\ faulty' = (faulty \/ G # {})
    /\ UNCHANGED <<processVars, socket, regs, before, fileVars>>

CloseSocket ==
    /\ phase = "close" /\ Enter("unlink") /\ socket' = "dead"
    /\ UNCHANGED <<processVars, regs, power, faulty, before, fileVars>>

UnlinkSocket ==
    /\ phase = "unlink" /\ Exit("done") /\ socket' = "none"
    /\ UNCHANGED <<regs, power, faulty, before, fileVars>>

-----------------------------------------------------------------------------
\* What may happen at any step

\* The process is killed; the kernel closes what it had open.
Crash ==
    /\ phase # "off" /\ Exit("crash") /\ WriterDies
    /\ socket' = IF socket = "live" THEN "dead" ELSE socket
    /\ UNCHANGED <<regs, power, faulty, before>>

\* /run is empty and firmware has the machine when it comes back.
PowerLoss ==
    /\ Exit("crash") /\ PowerFails
    /\ socket' = "none" /\ regs' = AtBoot.regs /\ power' = AtBoot.power
    /\ UNCHANGED <<faulty, before>>

Kernel == KernelStep /\ UNCHANGED <<phase, processVars, machineVars, historyVars>>

Next ==
    \/ Start \/ Misused \/ Refuse \/ Configure \/ Look \/ MakeDirectories \/ OpenEc
    \/ Bind \/ Listen \/ ApplyInitWrites \/ SensorsOn \/ Restore \/ EnterDefault
    \/ Choose \/ Save \/ Stop \/ LeaveLoop
    \/ Reset \/ SensorsAuto \/ CloseSocket \/ UnlinkSocket
    \/ Crash \/ PowerLoss \/ Kernel

Spec == Init /\ [][Next]_vars

-----------------------------------------------------------------------------
\* Properties

Ranged == {d \in Documents : \A cfg \in Configs[d] : InRange(cfg)}

\* Types; and what config_load accepts is in the ranges the daemon's other
\* parts take for granted (config_load and the parsers it calls).
TypeOK ==
    /\ phase \in Phases
    /\ args.path \in Paths /\ args.options \subseteq Options
    /\ loaded \in Documents \cup {"none"}
    /\ (loaded = "none") = (phase \in {"off", "load"})
    /\ loaded # "none" => loaded \in Ranged
    /\ running \in BOOLEAN
    /\ socket \in {"none", "dead", "live"}
    /\ regs \in [Registers -> 0..255]
    /\ power \in [{"cpu", "gpu"} -> {"auto", "on"}]
    /\ FileTypeOK

\* The sections of a model file, with the keys their loaders read.
Sections(cfg) == {s \in {"safety", "keyboard_backlight", "fan_modes", "platform_profiles"} :
                     cfg[s] # <<>>}

KeysOf(cfg, section) ==
    IF section = "safety" THEN DOMAIN SafetyNumbers(cfg.timing.critical_temperature_c)
    ELSE IF section = "platform_profiles" THEN {"register"}
    ELSE DOMAIN cfg[section]

\* What a section's own value comes to, and the value of a key that is left out.
InBounds(cfg, key, v) ==
    LET numbers == SafetyNumbers(cfg.timing.critical_temperature_c)
    IN  IF key \in DOMAIN numbers THEN ClampTo(v, numbers[key][1], numbers[key][2]) ELSE v

DefaultOf(cfg, key) ==
    LET numbers == SafetyNumbers(cfg.timing.critical_temperature_c)
    IN  IF key \in DOMAIN numbers THEN {numbers[key][3]}
        ELSE IF key \in DOMAIN FanModeDefaults THEN {FanModeDefaults[key]}
        ELSE IF key \in DOMAIN KeyboardDefaults THEN {KeyboardDefaults[key]}
        ELSE {}

KeyKept(text, cfg, section, key) ==
    LET own == Own(SectionOf(text, section), key)
    IN  /\ own # {} => cfg[section][key] \in {InBounds(cfg, key, v) : v \in own}
        /\ own = {} /\ ~ReadsElsewhere(text, section, key)
           => cfg[section][key] \in
                  IF Present(text, section)
                  THEN {InBounds(cfg, key, v) : v \in DefaultOf(cfg, key)} ELSE DefaultOf(cfg, key)

KeysKept ==
    {d \in Documents : \A cfg \in Configs[d] : \A section \in Sections(cfg) :
        \A key \in KeysOf(cfg, section) : KeyKept(Text[d], cfg, section, key)}

\* The model files whose sections hold their own keys before any other word
\* that reads like them.
KeysInOrder ==
    {d \in Documents : \A cfg \in Configs[d] : \A section \in Sections(cfg) :
        \A key \in KeysOf(cfg, section) : OwnComesFirst(Text[d], section, key)}

\* A section of a model file that loads is read by its own keys: what stands in
\* it is in force, whatever other sections hold, and what is left out has its
\* default, in the bounds of the key when there is a section, unless the key
\* occurs again later in the file, which the search takes for the section's own
\* (json_find_key, json_int_key_checked, config_optional_clamped_int_key).
SectionsKeepTheirKeys == loaded # "none" => loaded \in KeysKept

\* The value a register is reset to: the one its first init write names, else
\* its fan's reset speed.
ResetValue(cfg, r) ==
    LET writes == {i \in DOMAIN cfg.init_writes : cfg.init_writes[i].register = r}
    IN  IF writes # {} THEN {cfg.init_writes[Min(writes)].reset_value}
        ELSE {cfg.fans[i].reset_speed : i \in {j \in DOMAIN cfg.fans :
                                                  cfg.fans[j].write_register = r}}

\* A daemon that ends in order gives back what it took: no socket file, every
\* register it was configured to initialise at its reset value and the sensors'
\* power control automatic, unless a closing write failed; and a start that is
\* refused has changed no register, and a look none at all (main, make_socket,
\* apply_reset_writes, apply_sensor_power_control).
ExitUndoesStart ==
    [][ phase # "off" /\ phase' = "off" /\ end' # "crash" =>
        /\ end' = "early" => regs' = before.regs /\ power' = before.power
        /\ socket' # "live" /\ (socket' = "dead" => socket = "dead" /\ end' # "done")
        /\ end' = "done" /\ ~faulty' =>
              \A cfg \in Configs[loaded] :
                  /\ \A r \in Registers :
                        ResetValue(cfg, r) # {} => regs'[r] \in ResetValue(cfg, r)
                  /\ \A fan \in Range(cfg.fans) :
                        fan.keep_awake \/ fan.sensor_power_control # ""
                        => \A g \in Devices(fan.sensor_group) : power'[g] = "auto" ]_vars
=============================================================================
