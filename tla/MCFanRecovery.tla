---------------------------- MODULE MCFanRecovery ----------------------------
(***************************************************************************)
(* FanRecovery on the constants of MCFanControl.                           *)
(***************************************************************************)
EXTENDS FanRecovery, MCFanControl

\* Unknown, cool, critical, and critical for one fan only.
RecoverySamples == Shared({-1, 65, 95}) \cup CpuAlone(95, 65)
=============================================================================
