# TLA+ models of the acer-nitro-sense daemon

`acer-nitro-sense` is a Linux daemon that runs the fans, the keyboard light and
the platform profile of Acer Nitro laptops by writing embedded-controller (EC)
registers. It is a single-threaded C program: one loop
(`src/src/daemon/loop.c`) polls sensors, applies a safety policy, reads input
events and serves one control-socket client at a time. What makes it hard is
not threads but *histories*: fans change hands between user, curve, safety
policy and laptop firmware; every EC access may fail on its own in the middle
of a handler; the machine sleeps, loses power, the process crashes and restarts
from a text file; and most decisions are made from state that an earlier step
left behind.

This directory holds TLA+ models of it, TLC configurations that check them on
small instances, and TLAPS proofs of what matters most for every configuration.

## 1. Inventory

| Component | Source (`src/src/...`) | State | Operations | Modelled by |
| --- | --- | --- | --- | --- |
| Fan policy | `fan/safety_policy.c`, `safety.c`, `observation.c`, `temperature_filter.c` | per fan: percentages, control temperature, pending spike, critical samples, failure counters, safety reason | curve, ramp, safety adjustment, spike filter, one refresh, one write | `FanPolicy` |
| Fan control loop | `fan/control.c`, `daemon/loop.c` | the fans; the speed registers; the loop's deadline | `update_fan_states`, `apply_current_control_state`, `apply_preset_state`, the loop | `FanControl`, `DaemonLoop` |
| Fan commands | `commands/daemon/fan.c`, `fan_mode.c`, `coolboost.c`, `fan_context.c`, `control.c` | auto flag, preset name, turbo flag | `set`, `preset`, `auto`, `firmware-auto`, `fan-mode`, `coolboost`, `resume`, `stop` | `FanControl` |
| Fan-mode registers | `platform/fan_mode.c`, `platform/control.c`, `fan/lifecycle.c` | two EC mode registers | apply a mode, init and reset writes | `FanControl`, `Lifecycle` |
| Persisted state | `daemon/state_persist.c`, `state_restore.c`, `daemon.c`, `fan/temperature_cache.c` | the state file, the temperature cache | save; a start with or without a file | `FanControl`, `DaemonLoop`, `Lifecycle` |
| State-file I/O | `util/file.c`, `util/fd.c` | temporary file, state file | open, write, fsync, close, rename, unlink | `StateFile` |
| Start and exit | `daemon.c`, `daemon/args.c`, `control/socket.c`, `fan/lifecycle.c`, `hardware/dmi.c`, `platform/sensor_power.c`, `sensors/power.c` | the phase of `main`, the socket file, sensors' power control | arguments, checks, everything taken and given back | `Lifecycle` |
| Model configuration | `config/*.c` | `ans_config` | one loader per section | `ModelConfig` |
| JSON helpers | `util/json.c`, `util/json_scan.c` | none | key search, typed values, arrays, objects | `JsonScan` (partly) |
| Power-source policy | `platform/power_source.c`, `platform/profile.c` and their commands | last source, auto flag, profile register | poll the source, apply a profile | `PowerSource` |
| Keyboard backlight | `keyboard/*.c`, `commands/daemon/keyboard_backlight.c` | light register, timeout flag, dimmed flag, level to go back to | set, timeout on and off, the tick that dims and restores | `KeyboardBacklight` |
| Input activity | `input/activity.c` | monitored devices, idle clock | open, read events | `DaemonLoop` |
| Control socket | `control/*.c`, `commands/daemon/daemon.c`, `client/transport.c` | the client being served | accept, read a line, peer credentials | `DaemonLoop`, `Lifecycle` |
| Command registry | `commands/daemon/registry.c`, `commands/parser/*` | none | look up, check control, parse arguments | `ControlCommands` |
| Command-line client | `commands/client/*`, `client/parse.c` | none | check arguments, send one line | `ControlCommands` (partly) |
| EC access | `ec/*.c`, `daemon/status_reply.c` | back end, port permissions, a handshake in progress | open, read, write, words, dumps | `EcDevice` |
| Sensors | `sensors/sensors.c`, `nvidia.c`, `fake.c` | a library handle | read sysfs and NVML | an input of `FanControl` |
| Status, capabilities, diagnostics, hardware names, packaging | the rest | none of their own | formatting | not modelled |

**How they interact.** A poll refreshes both fans from the sensors, computes one
reason that is forced on both, and writes the fans that need it; then it looks
at the power source and at the keyboard timeout. A command handler runs to its
end between two polls; it uses the counters the last poll left, switches the
fan-mode registers, writes speeds, changes a setting and saves the state file,
which holds fan, keyboard and power settings together. A start loads the model
file, takes the socket, runs the init writes, seeds temperatures from a cache
and replays the state file; an exit gives all of it back. The sleep hook sends
`resume`. All share the EC, and nothing but the order of steps protects one
from the others.

**Hard behaviours.** Partial failure inside a handler (two fan-mode registers,
two speed registers, one file, each of which may fail); stale state (a command
acts on the last poll's view, the recorded percentage may not be what the
register holds); ordering between override, hand-back and command; a client
that holds the one thread; handshakes given up half way; crash, power loss and
restart between any two system calls; things that must eventually happen
although each poll acts only on a difference. `PROJECT.json` lists each hazard
at its line.

**What makes each component correct.**
*Policy*: the effective percentage never falls under the floor known
temperatures call for; a critical latch is neither lost while hot nor kept when
cool. *Fan loop*: an override takes the fan from firmware and gives it back; a
register holds what is reported. *Commands*: a control mode is entered only when
its registers are in it; a refused command leaves the choice as it was; who has
no control changes nothing. *State*: the file always holds the choice in force,
whole, and a start puts it back. *Lifecycle*: whatever ends the daemon in order
gives back what it took. *Configuration*: a section is read by its own keys and
its numbers are in range. *Keyboard and power*: light and profile follow the user
and the charger. *EC*: an answer belongs to the question; a failed write does
nothing. *Liveness*: heat is answered, safety lets go, firmware regains its fans,
polls go on, clients are answered, `stop` ends the loop.

## 2. Modules

| Module | What it is |
| --- | --- |
| `FanPolicy` | pure operators: curve, ramp, `SafetyAdjust`, `Observe`, `SetFanState` |
| `FanControl` | state machine: fans, EC registers, control mode, process, state file |
| `FanControlProperties` | its invariants and action properties |
| `FanRecovery` | `FanControl` plus a climate that may become steady; liveness |
| `KeyboardBacklight`, `PowerSource` | state and handlers of the two, as actions to compose |
| `ControlCommands` | the command language: what the client sends, what the daemon makes of a line |
| `DaemonLoop` | composes the three above under `run_daemon_loop`, with clients, signals, clock and restarts |
| `EcAccess` | abstract: what a register access promises |
| `EcDevice` | back ends, port handshake and controller; implements `EcAccess` |
| `AtomicFile` | abstract: a file replaced in one step |
| `StateFile` | `write_text_file_atomic` by system calls, over a file system that writes back late; implements `AtomicFile` |
| `JsonScan`, `ModelConfig` | pure operators: the text search and the loaders built on it |
| `Lifecycle` | composes `ModelConfig` and `StateFile` under `main`, with sockets, registers, failures, crashes and power losses |
| `MCFanControl`, `MCFanRecovery`, `MCDaemonLoop`, `MCEcDevice`, `MCLifecycle` | constants for TLC |
| `FanPolicyLemmas`, `FanControlProofs`, `FanChoiceProofs`, `FanCriticalProofs`, `DaemonLoopProofs`, `EcDeviceProofs`, `StateFileProofs`, `LifecycleProofs` | theorems |

### Fans

`fan[f]` is the `fan_state` of one fan (`daemon/types.h`), reduced to the fields
control reads. `safety_active` and `safety_reason` are one field, `""` when
inactive. `speed` and `mode` are the EC's write and fan-mode registers. `auto`,
`preset`, `coolboost` are the loop's control mode. `saved` is the state file, as
a set of at most one record. `running` says whether the process is in its loop.

There is one action per handler, whole: `Poll` is `update_fan_states`; `Set`,
`ApplyPreset`, `AutoMode`, `FirmwareAutoMode`, `FanModeManual`, `CoolBoostOn`,
`CoolBoostOffCommand`, `Resume`, `Stop` are the command handlers with their
early returns; `SaveWithOtherSetting` stands for the keyboard and power
commands, which save everything; `Start` is `main` up to the loop; `Crash` and
`Suspend` are the environment. A handler is threaded through a *machine*
(`[fan, speed, mode]`), a working copy the helpers `SetFans`, `ApplyFanMode`,
`CoolBoostOff` and so on transform in the order the code calls them. Each EC
access inside it has an outcome of its own, drawn from `Reads`, `Writes` and
`ModeWrites`. A crash inside a handler leaves what the handler would have left
had its remaining writes failed, so it is that outcome followed by `Crash`.

### The loop

`pc` is where the thread is: before the poll (`top`), in `select`, or in
`control_read_command` (`read`), the only place where it waits inside a handler.
`due` stands for a passed `next_update_ms`, `idle` for an idle time beyond the
timeout, `keys` for events nobody has read. `Poll` is the head of the loop, with
`PowerTick` and, while a keyboard is watched, `KbTick`; `Wake` is what follows a
`select` that returns: read events, tick the keyboard, accept one client.
`Serve` is `handle_client` with its whole dispatch: `Dispatch` of
`ControlCommands` decides by table, control column and handler whether the line
runs. `Crash`, `Signal`, `Start` and the surroundings (`GoesIdle`, `KeyPress`,
`BrightnessKey`, `SupplyChange`, `Connect`) interleave at each of them. `saved`
is the keyboard and power part of the state file. `ComesToRest` marks where the
surroundings fall still, for liveness. `refused` is a history variable: a setting
was changed by a command that was then refused.

A line is a sequence of tokens, and a command's shape a sequence of token sets;
numerals carry their value in base 10 and in the base `strtol` guesses, because
client and daemon use both.

### The EC

A step of the port back end is one poll of the status port with the `inb` or
`outb` that follows when it passes, so the controller (`EcTakes`, `EcAnswers`,
external) runs between any two of them. `MaxPolls` caps a wait, as the code's
10000 does. `Crash` ends a process in any place. `ReadByte`, `ReadWord`, `Dump` and
`WriteByte` are the callers. The file back ends are one kernel call that may
fail before or after it takes effect; the fake is an array. `AbsCall`,
`AbsRequest`, `AbsOwed`, `AbsRet` are the refinement mapping to `EcAccess`:
a request is what the controller has of it once its register arrived.

### Files and the life of a process

`StateFile` keeps names and data twice, in memory and on disk; `WriteBack` and
`CommitNames` bring one to the other when the kernel likes. Any call may fail,
the writer may die, power may fail. A file cut short is `Torn`. `Lifecycle` has
one action per block of `main` that either goes on or returns; `Exit("early")` is
an early return with what it undoes. `Text` gives each model file as a sequence of
tokens and `Load` is evaluated on it. `Choose` and `Save` stand for the loop: a
change of who has the fans, then the system calls of its save, one by one.

### Abstractions

A command name, preset or mode is a value, not text. Text matters in two places,
and there it is modelled by what the code's search finds: the `"preset"` key of
the state file (`RestoredPreset`) and the model file (`JsonScan`). Register reads
in `FanControl` fail or give the right value; `EcDevice` says when that is so.
Buffers are long enough, save for the names `TooLong` holds. Replies, `status`,
logs and RPM are left out.

## 3. Runs

| Run | Module | Checks | Shows |
| --- | --- | --- | --- |
| `histories` | `MCFanControl` | `ChoiceIsSaved`, `TargetsAreSaved`, `TurboIsReported`, `FirmwareOwnsWhenSafe`, `RestartKeepsTargets`, `ResumeRestoresControl`, `OverrideTakesControl`, `MinimumSpeedHeld`, `PolledConditionsCoolBothFans`, `CriticalSpeedHeld`, `RampBounded` | every order of polls over unknown, cool, warm, hot and critical samples, shared or of the CPU alone, of all fan commands, and of crashes, stops, starts, sleeps and resumes, with and without a temperature cache |
| `faults` | `MCFanControl` | `TypeOK`, `PolledConditionsCoolBothFans`, `CommandsHeedGlobalConditions`, `ControlIsOwned`, `RegisterStaysInStep` | sensor reads, speed writes and mode writes failing independently, past their limits |
| `recovery` | `MCFanRecovery` | `HeatIsAnswered`, `SafetyIsReleased`, `FirmwareRegainsFans`, `AutoSettlesOnCurve` | liveness from every reachable state, once the climate is steady |
| `loop` | `MCDaemonLoop` | `TypeOK`, `SettingsSurviveRestart`, `ClientAndDaemonAgree`, `GuestsChangeNothing`, `PollsGoOn`, `ClientsAnswered`, `StopEnds`, `LightReturns`, `DimsWhenIdle`, `ProfileFollowsSource` | an owner, and a guest who may stay silent, against polls, input, the charger, signals, crashes and failing I/O |
| `ports` | `MCEcDevice` | `TypeOK`, `AnswersMatch`, `PortsHeldInPairs`, `FailedWritesHaveNoEffect`, `JobsEnd`, `ImplementsAccess` | every back end against a controller that may be slow or silent, with crashes at every port access |
| `lifecycle` | `MCLifecycle` | `TypeOK`, `SectionsKeepTheirKeys`, `ImplementsAtomicFile`, `ExitUndoesStart` | `main` over whole and damaged model files, any call failing, crashes and power losses at every step, also between the calls that replace the state file |
| `preset_lost`, `stale_register`, `critical_step`, `hand_back_lost`, `stuck_failure`, `write_failures_local` | | one property each | disagreements between code and documentation, section 5 |

**Bounds of the fan runs.** The constants are those of the shipped model
`src/models/acer-nitro-an517-51.json` except for a curve of three points with
hysteresis, failure limits of 1 or 2 instead of 3, and `critical_full_speed`,
which the passing runs turn on (see `critical_step`). The samples are one
representative of each region the policy's thresholds cut out: unknown (-1),
below the first curve point's neighbour (65), at the minimum-speed rule (75),
between release and critical (85), critical (95); jumps among them both trigger
and confirm the spike filter. Two fans are all the code supports
(`ANS_MAX_FANS`). A failure limit of 2 has a state below, at and above the
limit; 1 in the liveness run drops only the state below. A request of 20 is
below every floor; the preset (25 and 40), the reset speed (50) and the curve (up to
60) bring requests on the other side of each rule. `Commands` selects
the operations of a run so that each stays small while all actions occur in the
passing runs. No counter needs a cap: the code saturates them.

I/O is reliable in `histories`, so what its properties say of overrides, hand-backs
and restarts is said of writes that succeed; `faults` has the failing ones, with one
temperature. What commands and polls know is the last poll's view, and the
properties speak of that view: a temperature that has changed since is seen by the
next poll, not before.

**What counts as a global condition.** `docs/safety.md` and `global_safety_reason`,
which commands use, count failing reads, failing writes and a latched critical
temperature of any fan (`GlobalCondition`); the poll counts the first and the last
only (`PolledCondition`), and cools a fan whose writes fail by itself. So there are
three properties: `PolledConditionsCoolBothFans` says what polls do,
`CommandsHeedGlobalConditions` that commands heed all three, and
`GlobalConditionsCoolBothFans` what the document promises of both, which
`write_failures_local` refutes.

**What a resume restores.** `ResumeRestoresControl` leaves out a resume with turbo
on. `handle_resume_command` re-applies percentages in manual mode and never turbo,
while the flag stays set and status goes on reporting it, although
`fan/control.c:229-230` says that the EC then reflects what users see in status.

**Bounds of `loop`.** Two clients suffice for one to wait behind the other; one
has control and one has not, and the one without may stay silent. The light has
three values, so that dark, full and a level between differ. `InputLines` has one line
for each way a handler may change state, and lines no client sends;
`ClientAndDaemonAgree` ranges over all lines the client can send (`ClientLines`)
with numerals on both sides of every bound, in base 10 and 16. The charger goes on
and off; its profiles differ.

**Bounds of `ports`.** Two registers, one of which the firmware changes by
itself, so that a word and a dump cross from one to the other; three byte
values, with writes below and above them for the clamp; two polls before a
timeout, so that a wait has one that is not its last; six machines, one for each
outcome of the search for a back end and for a port that is refused.

**Bounds of `lifecycle`.** Two texts are enough to tell old from new; two inodes
are as many as can have names at once, and they are interchangeable (symmetry).
Eight model files: one with every section, one with bounds exceeded, a key
missing that a later object has, two writes to one register and a fan that holds
both sensor groups, one with defaults only, one for another machine whose critical
temperature puts the default release temperature out of bounds, and four the loader
refuses for different reasons. One register may fail, or none. `McKeysInOrder`
checks the hypothesis of `SectionsKept` on all eight.

**Fairness.** `RecoverySpec` asks weak fairness of `SteadyPoll` alone: the loop
polls whenever its deadline has passed (`loop.c:148-158`) and serves at most
one client per iteration, so commands cannot starve polls. `DaemonLoop` asks that
the thread goes on when it does not wait (`LoopGoesOn`), that clients outside
`Silent` send or close (`ClientSpeaks`), and that time passes (`ClockRuns`);
nothing is asked of the clients in `Silent`, of commands, of restarts, nor of
I/O before `ComesToRest`. So `PollsGoOn`, `ClientsAnswered` and `StopEnds` say
themselves, with `Blocked`, that a silent client may hold the loop: the code reads
without a timeout. `EcDevice` asks it of the daemon's own steps (`Host`); the
controller owes nothing, not even an answer.

**Histories and exceptions.** `AnswersMatch` speaks until an answer is
abandoned (`lost`): nothing drains the byte that then stays in the output buffer,
and every later read is one answer late. `SettingsSurviveRestart` leaves out a
setting that a refused `power-source auto` changed. `LightReturns` and
`DimsWhenIdle` start from states in which the daemon knows whether it dimmed the
light. `SectionsKeepTheirKeys` leaves out a key that its section omits and a later
one has; and the default of a key that a section omits is clamped as a number of
the file is, because `config_optional_clamped_int_key` clamps last: with a critical
temperature of 5 or less the release temperature is not the default, but 1. Each exception is a hazard in `PROJECT.json`.

**Deadlock.** Checked in every run: some step is always possible.

## 4. Proofs

`tlapm` checks eight modules, for every value of the constants that satisfies
the named assumptions (`SafetyAssumption`, `FanConfigAssumption`,
`FanControlAssumption`, `KeyboardAssumption`, `PowerAssumption`,
`LoopAssumption`, `CommandsAssumption`, `EcDeviceAssumption`,
`LifecycleAssumption`, `StateFileAssumption`: the ranges the loaders enforce, and
the shape of what the environment offers). None of them bounds the number of
clients, registers, model files, tokens of a file or arguments; clients are
finitely many.

| Theorem | States | If |
| --- | --- | --- |
| `TypeCorrect` | `Spec => []TypeOK` | |
| `FloorHeld` | `Spec => MinimumSpeedHeld` | `CriticalCoversFloors` |
| `RegistersStay` | `Spec => RegisterStaysInStep` | |
| `ControlOwned` | `Spec => ControlIsOwned` | `FanModesAvailable` |
| `RampHeld` | `Spec => RampBounded` | |
| `BothFansCooled` | `Spec => PolledConditionsCoolBothFans` | `critical_full_speed` |
| `CriticalHeld` | `Spec => CriticalSpeedHeld` | `critical_full_speed` |
| `CommandsHeed` | `Spec => CommandsHeedGlobalConditions` | `critical_full_speed`, `max_write_failures > 1` |
| `ChoiceSaved` | `Spec => []ChoiceIsSaved` | `ReliableWrites`, `SetNamesFans` |
| `TurboReported` | `Spec => []TurboIsReported` | `ReliableWrites` |
| `FirmwareOwns` | `Spec => []FirmwareOwnsWhenSafe` | `ReliableWrites` |
| `OverridesTakeControl` | `Spec => OverrideTakesControl` | `ReliableWrites` |
| `ResumeRestores` | `Spec => ResumeRestoresControl` | `ReliableWrites`, `InitWritesModes` |
| `TargetsSaved` | `Spec => []TargetsAreSaved` | `ReliableWrites`, `SetNamesFans`, `ResetAboveZero` |
| `TargetsRestored` | `Spec => RestartKeepsTargets` | `ReliableWrites`, `SetNamesFans`, `ResetAboveZero` |
| `SettingsKept` | `Spec => []SettingsSurviveRestart` | `Saves = {TRUE}` |
| `GuestsAreHarmless` | `Spec => GuestsChangeNothing` | |
| `LoopTypeCorrect` | `Spec => []TypeOK` of `DaemonLoop` | |
| `ClientUnderstood` | what `ClientSends` can send is `Understood` | no name is too long |
| `ClientAgrees` | `Spec => []ClientAndDaemonAgree` | |
| `DeviceTypeCorrect` | `Spec => []TypeOK` of `EcDevice` | |
| `PortsHeld` | `Spec => []PortsHeldInPairs` | |
| `AnswersAreRight` | `Spec => []AnswersMatch` | |
| `FailedWritesAreHarmless` | `Spec => FailedWritesHaveNoEffect` | |
| `DeviceImplementsAccess` | `Spec => ImplementsAccess` | |
| `FileSafe` | `FileSpec => []FileInv` | |
| `StateFileIsAtomic` | `FileSpec => ImplementsAtomicFile` | |
| `LifeKeepsStateFile` | `Lifecycle!Spec => ImplementsAtomicFile` | |
| `LoadedInRange` | every `cfg` in `Load(text)` is `InRange` | |
| `LifeTypeCorrect` | `Spec => []TypeOK` of `Lifecycle` | |
| `LifeUndoesStart` | `Spec => ExitUndoesStart` | |
| `SectionsKept` | `Spec => [](loaded \in KeysInOrder => SectionsKeepTheirKeys)` | |

**Fans.** `TypeOK` is inductive, and with it in hand the action properties hold
of every single step. The work is in the helpers. Each has one lemma saying it
returns a well-formed `Machine` that `Follows` the one it was given: a write
register that held the recorded percentage still does, and a fan above its floor
still is. `Follows` is transitive, so a handler's lemma is the composition of its
helpers' lemmas, and `CommandDone`, `RefusedDone` and `EnteredDone` finish the
three ways a handler ends. `FloorHeld` rests on `AdjustFloor`, which shows by the
branches of `fan_safety_adjust_percent` that no request and no reason yields
less than the floor, and on `UnadjustedFloor`, which covers the fans
firmware-auto leaves alone. `CriticalCoversFloors` says that the critical speed,
and without `critical_full_speed` one critical step above the lowest request,
is no less than the floors; the shipped model does not satisfy its second half,
and `critical_step` shows that the property then fails.

`RampHeld` covers what the shipped model, and so `histories`, leaves out: a bypass
temperature. It goes by the three ends of a poll for one fan (not written, written,
write failed): whatever the end, a fan without a reason had no forced reason, so its
target came through the ramp.

`FanCriticalProofs` repeats the composition with another relation, `Cools`, which
says of one round of writes that it leaves the critical samples and read failures
alone, clears a fan's write failures or counts one more, and moves fans to critical
speed only while there is a condition to heed. What a poll counts as global holds
before a handler exactly if it holds at each of its writes. Failing writes are
harder, because a write may cure them: a handler has at most two rounds (turbo off,
then its own), a fan whose writes fail before and after both was not cured between
them (`FailsBetween`), and so both rounds heeded it. This is where a limit above one
is needed. `BothFansCooled` covers the fan's own failing writes by the branch of
`fan_safety_adjust_percent` that no forced reason is needed for, and does not cover
the other fan's, for which it is false (section 5).

`FanChoiceProofs` needs real invariants. `ChoiceInv` says that the control mode
and every saved record are proper pairs of flag and name, so that a start can
take up what it reads, that a running daemon has a saved record, and that the
record tells the mode in force. `ModeInv` says where turbo cannot be: in no mode
register when there is no state file or no fan modes, nor while the daemon runs
with the flag off. `FirmwareOwnsWhenSafe` is proved together with the two, from
what an override and a hand-back leave in both registers. Without writes that
succeed the properties fail (`hand_back_lost`), so `ReliableWrites` asks for mode,
speed and state-file writes that succeed, and for a default preset that exists
(firmware-auto only on a machine with fan modes). `SetNamesFans` leaves out a `set`
of no fan, a hazard of its own. `OverridesTakeControl` and `ResumeRestores` follow
from `ChoiceInv`, which says that firmware-auto is only in force on a model with
fan modes, and from `WrittenFansHold`: a successful write leaves the register at
the recorded percentage.

The targets rest on `TargetInv`: every request is above 0, and so is every saved
percentage. Then the target of a fan *is* its request, every rewrite of a fan with
its own target (leaving turbo, a resume, a poll outside automatic mode, an
override) leaves the request alone, and each handler that changes a request saves
it. `ResetAboveZero` is what starts this off, because a fan begins with its reset
speed as request; the loader accepts a reset speed of 0 when `write_min` is 0, and
such a fan's target is the percentage it runs at, which safety may change.

**The loop.** `SettingsInv` strengthens `SettingsSurviveRestart` with the type of
the two settings and with what they are while no daemon runs; each handler
either leaves both or saves both. `GuestsAreHarmless` goes by the handlers: a line
that `Dispatch` runs for a client without control has none of the shapes of a
handler that changes something; `ClientInv` adds that a client exists only while
the thread reads from it. `ClientUnderstood` goes by the commands of the client's
table: for each, the words the client passes on have a shape of the daemon's table,
for any preset names, numerals and name lengths. `LoopTypeCorrect` needs `LoopInv`,
which adds that no client waits twice, and the arithmetic of the light: percent
to level and back stays in range for every pair of bounds.

**The EC.** `DeviceInv` ties the host's place in its handshake to the state of the
controller: after the command the controller either has it still in its input
buffer or has taken it; after the register of a write it waits for a value for
that very register. What is left of an access that was given up does not matter,
because a command makes the controller start over; only an answer that was
abandoned does, and then `lost` says so. `AnswersMatch` compares with `Settled`,
the registers as they will be once the byte in the input buffer is taken, because
a write returns before that. `DeviceImplementsAccess` then goes by the actions:
one lemma for each step of `EcAccess` says what it takes, and one for each action
of `EcDevice` shows which of them, or a stutter, it is: a wait that times out is
a failure, the last byte of a write its submission and its return in one, a crash
a failure or the end of a result nobody collected.

**The file.** `FileInv` says what each `call` implies: from `fsync` on `tmp`
holds the new text, from `close` on the disk does too; the file behind `state`,
by the names in memory and by those on disk, is whole in both and is never the
temporary one being written.
With it every system call is a step of `AtomicFile` or a stutter, and a step of
`Lifecycle` is one of `StateFile` or leaves its variables alone.

**Model files.** `LoadedInRange` goes loader by loader over any text of tokens.
The searches return parts of the text (`FromIsText`, `ValueIsText`, `ArrayIsText`,
`ObjectsAreTexts`), so a number found is a number; `AllOf` keeps each field in
what was found for it, and the loaders' checks and clamps do the rest. Least and
greatest places exist by the well-foundedness of `Nat` (`LeastOf`), the k-th object
of a list by counting (`RankOf`). `SectionsKept` rests on `OwnIsRead`: a
section's object is the piece of the text that starts behind the section's first
colon, so a key the object holds is met by the search at the same distance, and if
no other word that reads like the key comes before, its value is what is read.
`KeysInOrder` names the files of which that is true. It is a real condition: a
string that reads like a key of its section and stands before it is taken for the
key.

**The life of `main`.** `LifeTypeCorrect` needs that every list of writes is made of
bytes, which is where the lemmas of `LoadedInRange` come in. `ExitUndoesStart` speaks
of the last step only, so `LifeInv` carries what the steps before leave behind:
until the init writes, registers and power are as they were; the socket is live
between `listen` and `close` only; from `release` on, a reset without a failed write
has put every register at its reset value, and from `close` on every device a fan
held is automatic. TLC has checked it as an invariant of `lifecycle`.
`ResetGivesBack` is the heart: the writes are made backwards, so the last one to
a register is the first init write that names it, and the fans' reset speeds,
written before, stand only where no init write does. `LoadsOnce` says that a file
has one configuration, so that what was initialised is what is reset.

**Only model-checked.** Every invariant and action property of the passing runs is
stated by a theorem, under the hypotheses of the table; where those are not
met TLC alone speaks, and the violations of section 5 live there. Liveness
(`HeatIsAnswered`, `SafetyIsReleased`, `FirmwareRegainsFans`, `AutoSettlesOnCurve`,
`PollsGoOn`, `ClientsAnswered`, `StopEnds`, `LightReturns`, `DimsWhenIdle`,
`ProfileFollowsSource`, `JobsEnd`) stays with TLC, because fairness and `ENABLED` are
out of the prover's reach. So is induction over data. The models avoid it by
saying what a loop comes to instead of folding over its rounds (`Written`: the
last write to a register stands; `Parse`: the last path and the first wrong word
count; `PowerSet`: the last fan that wants something of a device has it) and the
proofs by the least-number principle, which the prover can use because it speaks of
a set.

## 5. Findings

1. **A named preset is lost by a restart** (`preset_lost`,
   `daemon/state_persist.c:48`). The saved `"mode": "preset"` precedes the
   `"preset"` key, and the reader's text search stops at the former.
2. **A stale register** (`stale_register`, `fan/control.c:155`). In
   firmware-auto the poll records a percentage it does not write; `set` of one
   fan switches both to manual and the other runs at whatever its register held.
3. **The critical step undercuts the minimum speed** (`critical_step`,
   `fan/safety_policy.c:33`) on models with `critical_full_speed` off.
4. **One failed write keeps a fan from firmware** (`hand_back_lost`,
   `fan/control.c:85`). The hand-back is tried in one poll only.
5. **A fan over its write-failure limit may never be retried**
   (`stuck_failure`, `fan/control.c:164`) when its recorded percentage is
   already the critical one.
6. **One fan's failing writes leave the other as it is** (`write_failures_local`,
   `fan/observation.c:187`). `docs/safety.md:87-89` makes repeated EC failures a
   global condition for which both fans are requested at critical speed, and
   `global_safety_reason` with its unit test counts writes among them, but only
   commands ask it; the reason a poll forces is made without them.

Each is quoted with the line it contradicts in `PROJECT.json`.

One more disagreement is known without a run of its own: after a resume in turbo
the EC is in manual mode while status reports coolboost on (section 3, hazard
`commands/daemon/control.c:71`). `ResumeRestoresControl` excludes it by name.

## 6. What is left

**Next.**

1. An abstract specification of fan ownership (firmware, daemon, safety) that
   `FanControl` implements.
2. A bound on how long the spike filter can hold back a rise, stated over
   sample sequences.

**Not modelled.**

- *Status, capabilities, diagnostics, doctor*: formatting of state kept
  elsewhere; they change nothing.
- *Sensors*: reads of sysfs and NVML. `FanControl` takes a sample, or none, as
  input; the library handle of NVML is the only state.
- *Hardware names, packaging*: names for display; units and the sleep hook
  appear as `Start`, `Crash`, `Suspend` and `Resume`. `hardware/dmi.c` is in
  `Lifecycle` as the check of the machine.
- *The client's own programs*: `start`, `restart` and `doctor` call systemd and
  other tools; their exit codes are not modelled.
- *JSON spelling*: escapes, the digits of a number and buffer lengths.

Hazards seen in the code that no module reaches, besides those in
`PROJECT.json`: a brightness set by a command is not persisted although
`commands/daemon/registry.c:319-320` calls it persisted state; a second daemon
removes the socket of a live one (`control/socket.c:94`); a device that is
unplugged stays in the set `select` watches (`input/activity.c:153`); a word may
tear between its two bytes (`ec/ec.c:107`); a state file that cannot be read
gives way to the default preset without a message (`daemon/state_restore.c:257`).
