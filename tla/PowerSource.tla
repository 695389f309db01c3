----------------------------- MODULE PowerSource -----------------------------
(***************************************************************************)
(* The power-source policy: which source feeds the machine, which platform *)
(* profile goes with it, and the commands that apply either.               *)
(***************************************************************************)
EXTENDS Integers, Sequences, SequencesExt

CONSTANTS
    Profiles,       \* platform_profiles: id -> EC value
    AcProfile, BatteryProfile,  \* power_source_profiles, "" when not configured
    AutoDefault,    \* power_source_profiles.auto_apply
    FakeSource      \* ANS_FAKE_POWER_SOURCE, "unknown" when not set

PowerSources == {"ac", "battery", "unknown"}
MainsTypes == {"Mains", "USB", "USB-C", "USB_PD"}

\* One entry of /sys/class/power_supply; type "" when it cannot be read.
Supply == [type : MainsTypes \cup {"Battery", "other", ""}, online : BOOLEAN]

ASSUME PowerAssumption ==
    /\ DOMAIN Profiles \subseteq STRING /\ Profiles \in [DOMAIN Profiles -> 0..255]
    /\ {AcProfile, BatteryProfile} \subseteq DOMAIN Profiles \cup {""}
    /\ AutoDefault \in BOOLEAN
    /\ FakeSource \in PowerSources

VARIABLES
    supplies,   \* the entries, in the order of the directory
    last,       \* last_power_source, the one the loop has handled
    autoApply,  \* runtime.power_source_auto_apply
    profile     \* EC: the platform profile register

powerVars == <<supplies, last, autoApply, profile>>

PowerTypeOK ==
    /\ supplies \in Seq(Supply)
    /\ last \in PowerSources
    /\ autoApply \in BOOLEAN
    /\ profile \in 0..255

\* The first mains entry online decides; then a battery, then any mains.
ReadPowerSource ==
    LET types == {supplies[i].type : i \in DOMAIN supplies}
    IN  IF FakeSource # "unknown" THEN FakeSource
        ELSE IF \E i \in DOMAIN supplies : supplies[i].type \in MainsTypes /\ supplies[i].online
        THEN "ac"
        ELSE IF "Battery" \in types THEN "battery"
        ELSE IF types \cap MainsTypes # {} THEN "ac"
        ELSE "unknown"

PolicyAvailable == Profiles # <<>> /\ AcProfile # "" /\ BatteryProfile # ""

\* power_source_profile_for: {} when there is none.
ProfileFor(source) ==
    IF ~PolicyAvailable THEN {}
    ELSE IF source = "ac" THEN {AcProfile}
    ELSE IF source = "battery" THEN {BatteryProfile} ELSE {}

\* apply_platform_profile
ApplyProfile(id, ok) ==
    IF id \in DOMAIN Profiles /\ ok THEN profile' = Profiles[id] ELSE UNCHANGED profile

ApplyFor(source, ok) ==
    IF ProfileFor(source) = {} THEN UNCHANGED profile
    ELSE \E id \in ProfileFor(source) : ApplyProfile(id, ok)

PowerStart(saved) ==
    /\ last' = "unknown"
    /\ autoApply' \in IF saved = {} THEN {AutoDefault} ELSE saved
    /\ UNCHANGED <<supplies, profile>>

\* Mutant of PowerTick: the profile of the source that was left is written.
PowerTickLate(ok) ==
    LET source == ReadPowerSource
    IN  IF source = "unknown" \/ source = last THEN UNCHANGED powerVars
        ELSE /\ last' = source
             /\ IF autoApply THEN ApplyFor(last, ok) ELSE UNCHANGED profile
             /\ UNCHANGED <<supplies, autoApply>>

\* maybe_apply_power_source_profile: the change counts as handled before its
\* profile is written.
PowerTick(ok) ==
    LET source == ReadPowerSource
    IN  IF source = "unknown" \/ source = last THEN UNCHANGED powerVars
        ELSE /\ last' = source
             /\ IF autoApply THEN ApplyFor(source, ok) ELSE UNCHANGED profile
             /\ UNCHANGED <<supplies, autoApply>>

\* `power-source auto`: the setting changes first; a failed write refuses the
\* command and skips the save.  Refused says so.
PowerAutoRefused(on, ok) == on /\ ProfileFor(ReadPowerSource) # {} /\ ~ok

PowerAuto(on, ok) ==
    /\ autoApply' = on
    /\ IF on THEN ApplyFor(ReadPowerSource, ok) ELSE UNCHANGED profile
    /\ UNCHANGED <<supplies, last>>

\* `power-source apply` and `profile NAME`.
PowerApply(ok) ==
    /\ ApplyFor(ReadPowerSource, ok)
    /\ UNCHANGED <<supplies, last, autoApply>>

SetProfile(id, ok) ==
    /\ ApplyProfile(id, ok)
    /\ UNCHANGED <<supplies, last, autoApply>>
=============================================================================
