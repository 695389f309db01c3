----------------------------- MODULE DaemonLoop -----------------------------
(***************************************************************************)
(* run_daemon_loop: polls, input events and clients on one thread, with    *)
(* the keyboard backlight and the power-source policy it drives and the    *)
(* settings of both in the state file.  Fan control, which the same poll   *)
(* and the same clients drive, is FanControl.                              *)
(*                                                                         *)
(* A handler is one step; between steps the user, the charger, the clients *)
(* and signals act.  The one place where the thread waits inside a handler *)
(* is control_read_command, so reading a command is a state of its own.    *)
(***************************************************************************)
EXTENDS KeyboardBacklight, PowerSource, ControlCommands

CONSTANTS
    Clients,        \* connections that may exist at one time
    Silent,         \* those whose peer may neither send nor close
    Peer,           \* Clients -> credentials, as SO_PEERCRED and /proc give them
    GroupExists,    \* getgrnam finds the control group
    InputLines,     \* what clients send
    SupplySets,     \* the power supplies a machine goes through
    KbOutcomes, ProfileWrites, Saves    \* the outcomes of I/O

ASSUME LoopAssumption ==
    /\ IsFiniteSet(Clients) /\ Silent \subseteq Clients
    /\ Peer \in [Clients -> [uid : {"root", "user"}, gid : BOOLEAN,
                             groups : BOOLEAN, member : BOOLEAN]]
    /\ GroupExists \in BOOLEAN
    /\ InputLines \subseteq Seq(STRING)
    /\ SupplySets \subseteq Seq(Supply)
    /\ KbOutcomes \subseteq KbOutcome
    /\ ProfileWrites \subseteq BOOLEAN /\ Saves \subseteq BOOLEAN

VARIABLES
    pc,         \* where the loop is; "exit" when no daemon runs
    running,    \* daemon_running
    due,        \* next_update_ms has passed
    watching,   \* input_monitor.fd_len > 0
    keys,       \* key events nobody has read
    idle,       \* the last activity read is timeout_seconds ago
    backlog,    \* connections not yet accepted
    client,     \* {} or {the one being served}
    saved,      \* {} or {the settings in the state file}
    refused,    \* a setting changed although its command was refused (history)
    calm        \* the surroundings have come to rest

loopVars == <<pc, running, due, watching, keys, idle, backlog, client, saved, refused, calm>>
vars == <<loopVars, kbVars, powerVars>>

Settings == [auto |-> autoApply, timeout |-> enabled]
SavedSettings == [auto : BOOLEAN, timeout : BOOLEAN]

TypeOK ==
    /\ KbTypeOK
    /\ PowerTypeOK
    /\ pc \in {"exit", "top", "select", "read"}
    /\ {running, due, watching, keys, idle, refused, calm} \subseteq BOOLEAN
    /\ backlog \in Seq(Clients) /\ Len(backlog) <= Cardinality(Clients)
    /\ client = {} \/ \E c \in Clients : client = {c}
    /\ (client = {}) = (pc # "read")
    /\ saved = {} \/ \E s \in SavedSettings : saved = {s}

Waits(c) == c \in Range(backlog) \/ c \in client

\* A client that may stay silent holds the loop.
Blocked == pc = "read" /\ client \subseteq Silent

\* client_can_control: root, or in the control group by any of three ways.
CanControl(peer) ==
    peer.uid = "root" \/ (GroupExists /\ (peer.gid \/ peer.groups \/ peer.member))

Outcomes == IF calm THEN {[read |-> TRUE, write |-> TRUE, back |-> TRUE]} ELSE KbOutcomes
ProfileOutcomes == IF calm THEN {TRUE} ELSE ProfileWrites

Init ==
    /\ KbInit
    /\ supplies \in SupplySets /\ last = "unknown"
    /\ autoApply = AutoDefault /\ profile \in Range(Profiles)
    /\ pc = "exit" /\ running = FALSE /\ due = TRUE
    /\ watching = FALSE
    /\ keys = FALSE /\ idle = FALSE
    /\ backlog = <<>> /\ client = {} /\ saved = {}
    /\ refused = FALSE /\ calm = FALSE

-----------------------------------------------------------------------------
\* The process

\* input_activity_open, when the timeout is supported and keyboards are found.
OpenInput == watching' \in {FALSE, TimeoutSupported} /\ idle' = FALSE /\ keys' = FALSE

\* main up to the loop: settings from the state file, else the defaults,
\* which a default preset may save.  The first poll is due at once.
Start ==
    /\ pc = "exit" /\ ~calm
    /\ pc' = "top" /\ running' = TRUE /\ due' = TRUE
    /\ KbStart({s.timeout : s \in saved})
    /\ PowerStart({s.auto : s \in saved})
    /\ saved' \in IF saved = {} THEN {{}, {Settings'}} ELSE {saved}
    /\ refused' = FALSE
    /\ OpenInput
    /\ UNCHANGED <<backlog, client, calm>>

\* The end of the process, however it comes: its connections are gone.
Ends == pc' = "exit" /\ running' = FALSE /\ backlog' = <<>> /\ client' = {}

Crash ==
    /\ pc # "exit" /\ ~calm
    /\ Ends
    /\ UNCHANGED <<due, watching, keys, idle, saved, refused, calm, kbVars, powerVars>>

\* on_signal.  It wakes select but not a read, which is restarted, and it is
\* too late when it comes between the loop's test and select.
Signal ==
    /\ pc # "exit" /\ ~calm
    /\ running' = FALSE
    /\ pc' \in IF pc = "select" THEN {"top", "select"} ELSE {pc}
    /\ UNCHANGED <<due, watching, keys, idle, backlog, client, saved, refused, calm,
                   kbVars, powerVars>>

-----------------------------------------------------------------------------
\* The loop

\* The loop ends: reset writes, close, unlink.
Leave ==
    /\ pc = "top" /\ ~running
    /\ Ends
    /\ UNCHANGED <<due, watching, keys, idle, saved, refused, calm, kbVars, powerVars>>

\* Mutant of PollKeyboard: the tick runs only when a poll is skipped.
PollKeyboardNever(ok) == UNCHANGED kbVars

PollKeyboard(ok) == IF watching THEN KbTick(idle, ok) ELSE UNCHANGED kbVars

\* Mutant of Poll: a poll is put off while input or a client waits.
PollWhenQuiet ==
    /\ pc = "top" /\ running
    /\ pc' = "select"
    /\ due' = (due /\ backlog # <<>>)
    /\ UNCHANGED <<running, watching, keys, idle, backlog, client, saved, refused, calm,
                   kbVars, powerVars>>

\* Mutant of Poll: the loop does not test daemon_running.
PollAnyway ==
    /\ pc = "top"
    /\ pc' = "select" /\ due' = FALSE
    /\ UNCHANGED <<running, watching, keys, idle, backlog, client, saved, refused, calm,
                   kbVars, powerVars>>

Poll ==
    /\ pc = "top" /\ running
    /\ pc' = "select"
    /\ IF due
       THEN \E ok \in Outcomes, write \in ProfileOutcomes : PowerTick(write) /\ PollKeyboard(ok)
       ELSE UNCHANGED <<kbVars, powerVars>>
    /\ due' = FALSE
    /\ UNCHANGED <<running, watching, keys, idle, backlog, client, saved, refused, calm>>

Readable == (watching /\ keys) \/ backlog # <<>>

Timeout ==
    /\ pc = "select" /\ due /\ ~Readable
    /\ pc' = "top"
    /\ UNCHANGED <<running, due, watching, keys, idle, backlog, client, saved, refused, calm,
                   kbVars, powerVars>>

\* Mutant of AcceptOne: a waiting client is left for the next event.
AcceptLater == pc' = "top" /\ UNCHANGED <<backlog, client>>

AcceptOne ==
    IF backlog # <<>>
    THEN pc' = "read" /\ client' = {Head(backlog)} /\ backlog' = Tail(backlog)
    ELSE pc' = "top" /\ UNCHANGED <<backlog, client>>

\* input_activity_handle_ready: every event that is waiting is read.
ReadInput == idle' = (idle /\ ~(watching /\ keys)) /\ keys' = (keys /\ ~watching)

\* select reports input or a connection: events are read first, then the
\* keyboard ticks, then one client is accepted.
Wake ==
    /\ pc = "select" /\ Readable
    /\ ReadInput
    /\ \E ok \in Outcomes : IF watching THEN KbTick(idle', ok) ELSE UNCHANGED kbVars
    /\ AcceptOne
    /\ UNCHANGED <<running, due, watching, saved, refused, calm, powerVars>>

SelectFails ==
    /\ pc = "select" /\ ~calm
    /\ Ends
    /\ UNCHANGED <<due, watching, keys, idle, saved, refused, calm, kbVars, powerVars>>

-----------------------------------------------------------------------------
\* One client

\* Mutant of Save: the file gets the settings of before the command.
SaveBefore(ok) == IF ok THEN saved' = {Settings} /\ refused' = FALSE
                  ELSE UNCHANGED <<saved, refused>>

\* write_control_state
Save(ok) == IF ok THEN saved' = {Settings'} /\ refused' = FALSE
            ELSE UNCHANGED <<saved, refused>>

NotSaved == UNCHANGED <<saved, refused>>

KeyboardSetCommand(line, ok) ==
    /\ HasShape(line, <<{"keyboard-backlight"}, {"set"}, Brightness>>)
    /\ KbSet(Numerals[line[3]], ok)
    /\ UNCHANGED <<powerVars, running>> /\ NotSaved

KeyboardTimeoutCommand(line, save) ==
    /\ HasShape(line, <<{"keyboard-backlight"}, {"timeout"}, OnOff>>)
    /\ UNCHANGED <<powerVars, running>>
    /\ IF TimeoutSupported THEN KbTimeout(line[3] = "on") /\ Save(save)
       ELSE UNCHANGED kbVars /\ NotSaved

PowerApplyCommand(line, ok) ==
    /\ line = <<"power-source", "apply">>
    /\ PowerApply(ok)
    /\ UNCHANGED <<kbVars, running>> /\ NotSaved

\* A refused change of the policy stays in force and is not saved.
PowerAutoCommand(line, ok, save) ==
    /\ HasShape(line, <<{"power-source"}, {"auto"}, OnOff>>)
    /\ UNCHANGED <<kbVars, running>>
    /\ LET on == line[3] = "on"
       IN  IF ~PolicyAvailable THEN UNCHANGED powerVars /\ NotSaved
           ELSE /\ PowerAuto(on, ok)
                /\ IF PowerAutoRefused(on, ok)
                   THEN saved' = saved /\ refused' = (refused \/ ~autoApply)
                   ELSE Save(save)

ProfileCommand(line, ok) ==
    /\ line[1] = "profile"
    /\ SetProfile(line[2], ok)
    /\ UNCHANGED <<kbVars, running>> /\ NotSaved

\* Commands of other components; those that change the fans save everything.
OtherCommand(line, save) ==
    /\ line[1] \notin {"keyboard-backlight", "power-source", "profile"}
    /\ UNCHANGED <<kbVars, powerVars>>
    /\ running' = (running /\ line[1] # "stop")
    /\ IF line[1] \in {"set", "preset", "auto", "firmware-auto", "fan-mode", "coolboost"}
       THEN Save(save) \/ NotSaved
       ELSE NotSaved

Served ==
    /\ pc' = "top" /\ client' = {}
    /\ UNCHANGED <<due, watching, keys, idle, backlog, calm>>

\* handle_client and execute_command with a whole line.
Serve ==
    /\ pc = "read"
    /\ \E c \in client, line \in InputLines :
          IF Dispatch(line, CanControl(Peer[c])) = "run"
          THEN \/ \E ok \in Outcomes : KeyboardSetCommand(line, ok)
               \/ \E save \in Saves : KeyboardTimeoutCommand(line, save)
               \/ \E ok \in ProfileOutcomes : PowerApplyCommand(line, ok)
               \/ \E ok \in ProfileOutcomes, save \in Saves : PowerAutoCommand(line, ok, save)
               \/ \E ok \in ProfileOutcomes : ProfileCommand(line, ok)
               \/ \E save \in Saves : OtherCommand(line, save)
          ELSE UNCHANGED <<kbVars, powerVars, running>> /\ NotSaved
    /\ Served

\* The peer closes without a line, or sends one that is too long.
InvalidCommand ==
    /\ pc = "read"
    /\ UNCHANGED <<kbVars, powerVars, running>> /\ NotSaved
    /\ Served

-----------------------------------------------------------------------------
\* The surroundings

Rest == <<pc, running, watching, client, saved, refused>>

TimePasses == ~due /\ due' = TRUE
              /\ UNCHANGED <<Rest, keys, idle, backlog, calm, kbVars, powerVars>>

GoesIdle == ~idle /\ ~calm /\ idle' = TRUE
            /\ UNCHANGED <<Rest, due, keys, backlog, calm, kbVars, powerVars>>

KeyPress == ~keys /\ ~calm /\ keys' = TRUE
            /\ UNCHANGED <<Rest, due, idle, backlog, calm, kbVars, powerVars>>

\* A brightness key the firmware handles.
BrightnessKey ==
    /\ ~calm /\ light' \in Values \ {light}
    /\ UNCHANGED <<loopVars, enabled, timedOff, restore, powerVars>>

SupplyChange ==
    /\ ~calm /\ supplies' \in SupplySets \ {supplies}
    /\ UNCHANGED <<loopVars, kbVars, last, autoApply, profile>>

Connect(c) ==
    /\ pc # "exit" /\ ~calm /\ ~Waits(c)
    /\ backlog' = Append(backlog, c)
    /\ UNCHANGED <<Rest, due, keys, idle, calm, kbVars, powerVars>>

\* From here on nothing happens to the daemon but time, and I/O succeeds.
ComesToRest ==
    /\ ~calm /\ running /\ backlog = <<>> /\ client = {}
    /\ calm' = TRUE
    /\ UNCHANGED <<Rest, due, keys, idle, backlog, kbVars, powerVars>>

Next ==
    \/ Start \/ Crash \/ Signal
    \/ Leave \/ Poll \/ Timeout \/ Wake \/ SelectFails
    \/ Serve \/ InvalidCommand
    \/ TimePasses \/ GoesIdle \/ KeyPress \/ BrightnessKey \/ SupplyChange \/ ComesToRest
    \/ \E c \in Clients : Connect(c)

\* The thread goes on whenever it is not waiting, clients not in Silent send
\* or close, and the clock runs.
LoopGoesOn ==
    /\ pc = "top" \/ (pc = "select" /\ (due \/ Readable))
    /\ pc' \in {"exit", "top", "select", "read"}
ClientSpeaks == pc = "read" /\ ~Blocked /\ pc' \in {"top", "exit"}
ClockRuns == ~due /\ due' = TRUE

Spec == Init /\ [][Next]_vars
             /\ WF_pc(LoopGoesOn) /\ WF_pc(ClientSpeaks) /\ WF_due(ClockRuns)

-----------------------------------------------------------------------------
\* Properties

\* A restart brings back the settings in force, after any commands, crashes
\* and failed EC writes, but for one that was changed by a command which was
\* then refused (write_control_state, restore_runtime_state_from_json).
SettingsSurviveRestart ==
    pc # "exit" /\ ~refused =>
      Settings \in IF saved = {}
                   THEN {[auto |-> AutoDefault, timeout |-> TimeoutSupported /\ TimeoutDefault]}
                   ELSE saved

\* A client with control is never refused what the client program sends for a
\* name the daemon can hold: the two check arguments apart, in tables of
\* their own (commands/client/, registry.c, commands/parser/).
ClientAndDaemonAgree ==
    \A c \in client : CanControl(Peer[c]) =>
        \A line \in ClientLines :
            Range(line) \cap TooLong = {} =>
                Dispatch(line, CanControl(Peer[c])) \in {"status", "run"}

\* A client without control changes nothing, whatever it sends (ensure_control
\* and the requires_control column).
GuestsChangeNothing ==
    [][\A c \in client :
         ~CanControl(Peer[c]) /\ pc' = "top"
           => UNCHANGED <<light, enabled, timedOff, restore, autoApply, last, profile, saved,
                          running>>]_vars

\* A poll that is due is made, unless a silent client holds the loop.
PollsGoOn == due /\ pc # "exit" ~> ~due \/ Blocked \/ pc = "exit"

\* Every client is answered, unless one before it is silent.
ClientsAnswered ==
    \A c \in Clients \ Silent : Waits(c) ~> ~Waits(c) \/ Blocked

\* `stop` and a signal end the loop, unless a silent client holds it.
StopEnds == ~running /\ pc # "exit" ~> pc = "exit" \/ Blocked

\* A light the timeout has dimmed comes back when the user is there, as long
\* as the daemon still knows that it dimmed it and to what it goes back.
LightReturns ==
    calm /\ watching /\ CanRun /\ timedOff /\ restore > 0 /\ (keys \/ ~idle)
      ~> light > MinValue /\ ~timedOff

\* With the timeout on, an idle keyboard goes dark, unless the daemon thinks
\* it already is.
DimsWhenIdle ==
    calm /\ watching /\ CanRun /\ idle /\ ~keys /\ ~timedOff ~> light = MinValue

\* A change of the power source that the loop has not handled brings its
\* profile, when the policy is on.
ProfileFollowsSource ==
    \A source \in {"ac", "battery"} :
        calm /\ autoApply /\ PolicyAvailable /\ ReadPowerSource = source /\ last # source
          ~> profile \in {Profiles[id] : id \in ProfileFor(source)}
=============================================================================
