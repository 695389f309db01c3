-------------------------- MODULE KeyboardBacklight --------------------------
(***************************************************************************)
(* The keyboard backlight: its EC register, the timeout that dims it when  *)
(* the user is idle, and the commands that set it.                         *)
(*                                                                         *)
(* idle stands for idle_ms >= timeout_ms.  A handler's register accesses   *)
(* fail on their own: ok gives the outcome of the write and of the reads   *)
(* before and after it, see KbOutcome.                                     *)
(***************************************************************************)
EXTENDS Integers

CONSTANTS
    MinValue, MaxValue, \* keyboard_backlight.min_value, max_value
    LedMax,             \* max_brightness of a sysfs LED, 0 when there is none
    KbAvailable,        \* keyboard_backlight.available
    TimeoutSupported,   \* keyboard_backlight.timeout_supported
    TimeoutDefault      \* keyboard_backlight.timeout_default_enabled

ASSUME KeyboardAssumption ==
    /\ MinValue \in 0..255 /\ MaxValue \in 0..255 /\ MinValue < MaxValue
    /\ LedMax \in Nat
    /\ KbAvailable \in BOOLEAN /\ TimeoutSupported \in BOOLEAN /\ TimeoutDefault \in BOOLEAN

VARIABLES
    light,      \* EC: the brightness register
    enabled,    \* keyboard_backlight_timeout_enabled
    timedOff,   \* keyboard_backlight_timed_off
    restore     \* keyboard_backlight_restore_percent

kbVars == <<light, enabled, timedOff, restore>>

Values == MinValue..MaxValue
Percents == 0..100
Steps == {0, 25, 50, 75, 100}

KbOutcome == [read : BOOLEAN, write : BOOLEAN, back : BOOLEAN]

KbTypeOK ==
    /\ light \in Values
    /\ enabled \in BOOLEAN
    /\ timedOff \in BOOLEAN
    /\ restore \in Percents

PercentFromRange(value, min, max) == ((value - min) * 100 + (max - min) \div 2) \div (max - min)

\* Mutant of ValueFromPercent: the percentage itself goes into the register.
PercentAsValue(percent) == percent

ValueFromPercent(percent) == MinValue + (percent * (MaxValue - MinValue) + 50) \div 100
Percent(value) == PercentFromRange(value, MinValue, MaxValue)

\* The LED shows the same level in its own range.
LedPercent == PercentFromRange(((light - MinValue) * LedMax) \div (MaxValue - MinValue), 0, LedMax)

\* keyboard_backlight_read_any: the LED first, then the register.
ReadAny == IF LedMax > 0 THEN LedPercent ELSE Percent(light)

CanRun == KbAvailable /\ TimeoutSupported /\ enabled

ShouldTurnOff(idle) == idle /\ ~timedOff

\* Mutant of ShouldRestore: the light comes back only when the user is idle.
ShouldRestoreIdle(idle) == idle /\ timedOff /\ restore > 0

ShouldRestore(idle) == ~idle /\ timedOff /\ restore > 0

\* keyboard_backlight_update_restore_percent.
RestoreAfterRead(ok) ==
    IF ~timedOff /\ ok.read /\ ReadAny > 0 THEN ReadAny ELSE restore

\* keyboard_backlight_set_percent: written and read back.
SetOK(ok) == KbAvailable /\ ok.write /\ ok.back
LightAfterSet(percent, ok) ==
    IF KbAvailable /\ ok.write THEN ValueFromPercent(percent) ELSE light

KbInit ==
    /\ light \in Values
    /\ enabled = (TimeoutSupported /\ TimeoutDefault)
    /\ timedOff = FALSE
    /\ restore = 100

\* keyboard_backlight_timeout_init and restore_runtime_state_from_json, given
\* the saved setting or {}.
KbStart(saved) ==
    /\ \E on \in IF saved = {} THEN {TimeoutDefault} ELSE saved : enabled' = (TimeoutSupported /\ on)
    /\ timedOff' = FALSE
    /\ restore' = 100
    /\ UNCHANGED light

KbTick(idle, ok) ==
    IF ~CanRun THEN UNCHANGED kbVars
    ELSE /\ UNCHANGED enabled
         /\ restore' = RestoreAfterRead(ok)
         /\ IF ShouldTurnOff(idle)
            THEN /\ light' = LightAfterSet(0, ok)
                 /\ timedOff' = SetOK(ok)
            ELSE IF ShouldRestore(idle)
            THEN /\ light' = LightAfterSet(restore, ok)
                 /\ timedOff' = (timedOff /\ ~SetOK(ok))
            ELSE UNCHANGED <<light, timedOff>>

\* `keyboard-backlight set`: a manual level ends the dimming.
KbSet(percent, ok) ==
    /\ light' = LightAfterSet(percent, ok)
    /\ IF SetOK(ok)
       THEN timedOff' = FALSE /\ restore' = Percent(light')
       ELSE UNCHANGED <<timedOff, restore>>
    /\ UNCHANGED enabled

\* `keyboard-backlight timeout`: off forgets that the light was dimmed.
KbTimeout(on) ==
    /\ enabled' = on
    /\ timedOff' = (timedOff /\ on)
    /\ UNCHANGED <<light, restore>>
=============================================================================
