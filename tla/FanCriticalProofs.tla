-------------------------- MODULE FanCriticalProofs --------------------------
(***************************************************************************)
(* Cooling at critical speed, for every configuration that asks for full   *)
(* critical speed, every set of samples and every pattern of failing reads *)
(* and writes.                                                             *)
(*                                                                         *)
(* What a poll counts as a global condition is a matter of two counters of *)
(* each fan which writes do not touch; while it holds every write is       *)
(* forced.  Failing writes are a matter of a third one, which a write      *)
(* clears or counts up.                                                    *)
(***************************************************************************)
EXTENDS FanControlProofs

\* The critical speed, as far as the fan's write range allows it.
Critical(f) == ClampWrite(f, Safety.critical_speed_percent)

\* The fans of both have the same counters of samples and reads.
SameCounters(fans, gans) ==
    \A f \in Fan : /\ gans[f].read_failures = fans[f].read_failures
                   /\ gans[f].critical = fans[f].critical

\* Every fan of the second was written at most once: with success, or without.
WrittenOnce(fans, gans) ==
    \A f \in Fan : /\ \/ gans[f].write_failures = 0
                      \/ gans[f].write_failures >= fans[f].write_failures
                   /\ gans[f].write_failures <= fans[f].write_failures + 1

\* The same fan's writes fail in both.
WritesKeepFailing(fans, gans) == \E g \in Fan : WritesFailing(fans[g]) /\ WritesFailing(gans[g])

\* The conditions commands heed: with a limit of one failure a command could
\* cure a fan and fail on it again, which from outside looks like no cure.
Heeded(fans, gans) ==
    \/ PolledCondition(fans)
    \/ Safety.max_write_failures > 1 /\ WritesKeepFailing(fans, gans)

\* No fan moves but to the critical speed.
OnlyCools(fans, gans) ==
    \A f \in Fan : gans[f].percent = fans[f].percent \/ gans[f].percent = Critical(f)

\* One round of writes of a handler.
Cools(m, n) ==
    /\ SameCounters(m.fan, n.fan)
    /\ WrittenOnce(m.fan, n.fan)
    /\ Heeded(m.fan, n.fan) => OnlyCools(m.fan, n.fan)

-----------------------------------------------------------------------------
\* Counters and reasons

LEMMA ConditionKept ==
    ASSUME NEW fans, NEW gans, SameCounters(fans, gans)
    PROVE  PolledCondition(fans) <=> PolledCondition(gans)
  BY Zenon DEF SameCounters, PolledCondition, ReadsFailing, IsCritical

LEMMA FailuresAreInts ==
    ASSUME NEW m \in Machine, NEW f \in Fan
    PROVE  m.fan[f].write_failures \in Int /\ m.fan[f].write_failures >= 0
  <1>1. m.fan[f] \in FanState
    BY DEF Machine
  <1>2. m.fan[f].write_failures \in 0..(Safety.max_write_failures + 1)
    BY <1>1, FanStateFields
  <1>3. QED
    BY <1>2, SafetyRanges

LEMMA OnlyCoolsTrans ==
    ASSUME NEW a, NEW b, NEW c, OnlyCools(a, b), OnlyCools(b, c)
    PROVE  OnlyCools(a, c)
  BY Zenon DEF OnlyCools

\* A failure that two rounds of writes leave was there between them, as long as
\* it takes more than one to make one.
LEMMA FailsBetween ==
    ASSUME NEW a \in Machine, NEW b \in Machine, NEW c \in Machine,
           WrittenOnce(a.fan, b.fan), WrittenOnce(b.fan, c.fan),
           Safety.max_write_failures > 1, NEW g \in Fan,
           WritesFailing(a.fan[g]), WritesFailing(c.fan[g])
    PROVE  WritesFailing(b.fan[g])
  <1>1. /\ a.fan[g].write_failures \in Int
        /\ b.fan[g].write_failures \in Int
        /\ c.fan[g].write_failures \in Int
        /\ Safety.max_write_failures \in Int
    BY FailuresAreInts, SafetyRanges
  <1>2. /\ \/ b.fan[g].write_failures = 0
           \/ b.fan[g].write_failures >= a.fan[g].write_failures
        /\ c.fan[g].write_failures <= b.fan[g].write_failures + 1
    BY DEF WrittenOnce
  <1>3. QED
    BY <1>1, <1>2 DEF WritesFailing

\* Two rounds of writes, one after the other.
LEMMA CoolsTwice ==
    ASSUME NEW a \in Machine, NEW b \in Machine, NEW c \in Machine, Cools(a, b), Cools(b, c),
           Heeded(a.fan, c.fan)
    PROVE  OnlyCools(a.fan, c.fan)
  <1>1. PolledCondition(a.fan) <=> PolledCondition(b.fan)
    BY ConditionKept DEF Cools
  <1>2. Heeded(a.fan, b.fan) /\ Heeded(b.fan, c.fan)
    <2>1. CASE PolledCondition(a.fan)
      BY <1>1, <2>1 DEF Heeded
    <2>2. CASE Safety.max_write_failures > 1 /\ WritesKeepFailing(a.fan, c.fan)
      <3>1. PICK g \in Fan : WritesFailing(a.fan[g]) /\ WritesFailing(c.fan[g])
        BY <2>2 DEF WritesKeepFailing
      <3>2. WritesFailing(b.fan[g])
        BY <2>2, <3>1, FailsBetween DEF Cools
      <3>3. WritesKeepFailing(a.fan, b.fan) /\ WritesKeepFailing(b.fan, c.fan)
        BY <3>1, <3>2 DEF WritesKeepFailing
      <3>4. QED
        BY <2>2, <3>3 DEF Heeded
    <2>3. QED
      BY <2>1, <2>2 DEF Heeded
  <1>3. QED
    BY <1>2, OnlyCoolsTrans DEF Cools

\* Fan modes play no part.
LEMMA CoolsOf ==
    ASSUME NEW a, NEW b, NEW c, NEW d, a.fan = b.fan, c.fan = d.fan, Cools(a, c)
    PROVE  Cools(b, d)
  BY Zenon DEF Cools

LEMMA CoolsSame == ASSUME NEW m \in Machine, NEW n, n.fan = m.fan PROVE Cools(m, n)
  <1>1. WrittenOnce(m.fan, n.fan)
    <2>1. ASSUME NEW f \in Fan
          PROVE  /\ n.fan[f].write_failures >= m.fan[f].write_failures
                 /\ n.fan[f].write_failures <= m.fan[f].write_failures + 1
      BY FailuresAreInts
    <2>2. QED
      BY <2>1 DEF WrittenOnce
  <1>2. QED
    BY <1>1, Zenon DEF Cools, SameCounters, OnlyCools

\* Commands find a reason whenever there is a global condition, polls for what
\* they count as one.
LEMMA ConditionForces ==
    ASSUME NEW fans
    PROVE  /\ GlobalCondition(fans) => GlobalReason(fans) # ""
           /\ PolledCondition(fans) => ForcedReason(fans) # ""
  BY DEF GlobalCondition, PolledCondition, GlobalReason, ForcedReason, Fan

\* A forced reason, and failing writes of its own, make the critical speed of
\* every request for a fan.
LEMMA ForcedIsCritical ==
    ASSUME Safety.critical_full_speed, NEW f \in Fan, NEW s, NEW requested,
           NEW forced, forced # "" \/ WritesFailing(s)
    PROVE  /\ SafetyAdjust(f, s, requested, forced).percent = Critical(f)
           /\ SafetyAdjust(f, s, requested, forced).reason # ""
  BY DEF SafetyAdjust, CriticalPercent, Critical

LEMMA CriticalIsPercent == ASSUME NEW f \in Fan PROVE Critical(f) \in Percent /\ Critical(f) \in Int
  <1>1. Safety.critical_speed_percent \in Int
    BY SafetyRanges
  <1>2. QED
    BY <1>1, ClampWriteRange, PercentFacts DEF Critical

LEMMA AtLeastItself == \A x \in Int : x >= x
  OBVIOUS

-----------------------------------------------------------------------------
\* The helpers

\* One fan: the counters of samples and reads stay, a write clears the third
\* or counts it up.
LEMMA WriteCounters ==
    ASSUME NEW f \in Fan, NEW s \in FanState, NEW requested \in Int, NEW forced \in Reason,
           NEW ok \in BOOLEAN, NEW t, t = SetFanState(f, s, requested, forced, ok)
    PROVE  /\ t.read_failures = s.read_failures
           /\ t.critical = s.critical
           /\ t.write_failures = 0 \/ t.write_failures >= s.write_failures
           /\ t.write_failures <= s.write_failures + 1
  <1> DEFINE q == Clamp(requested, 1, 100)
             p == SafetyAdjust(f, s, requested, forced).percent
             r == SafetyAdjust(f, s, requested, forced).reason
  <1>1. ok => t = Written(s, q, p, r)
    BY DEF SetFanState, Written
  <1>2. ~ok => t = NotWritten(s)
    BY DEF SetFanState, NotWritten
  <1> HIDE DEF q, p, r
  <1>3. /\ Written(s, q, p, r).read_failures = s.read_failures
        /\ Written(s, q, p, r).critical = s.critical
        /\ Written(s, q, p, r).write_failures = 0
    BY DEF Written, FanState
  <1>4. /\ NotWritten(s).read_failures = s.read_failures
        /\ NotWritten(s).critical = s.critical
        /\ NotWritten(s).write_failures
             = IF s.write_failures < Safety.max_write_failures + 1
               THEN s.write_failures + 1 ELSE s.write_failures
    BY DEF NotWritten, FanState
  <1>5. s.write_failures \in 0..(Safety.max_write_failures + 1)
    BY FanStateFields
  <1>6. /\ NotWritten(s).write_failures >= s.write_failures
        /\ NotWritten(s).write_failures <= s.write_failures + 1
    BY <1>4, <1>5, SafetyRanges
  <1>7. 0 <= s.write_failures + 1
    BY <1>5, SafetyRanges
  <1>8. QED
    BY <1>1, <1>2, <1>3, <1>4, <1>6, <1>7

LEMMA FailureCounted == ASSUME NEW s \in FanState PROVE NotWritten(s).write_failures # 0
  <1>1. NotWritten(s).write_failures > 0 /\ NotWritten(s) \in FanState
    BY RecordedFailure
  <1>2. QED
    BY <1>1, FanStateFields

\* set_fan_percent on a set of fans.
LEMMA SetFansCounters ==
    ASSUME NEW m \in Machine, NEW S \in SUBSET Fan, NEW requested \in [Fan -> Int],
           NEW forced \in Reason, NEW ok \in Io, NEW n, n = SetFans(m, S, requested, forced, ok)
    PROVE  SameCounters(m.fan, n.fan) /\ WrittenOnce(m.fan, n.fan)
  <1>1. ASSUME NEW f \in Fan
        PROVE  n.fan[f] = IF f \in S THEN SetFanState(f, m.fan[f], requested[f], forced, ok[f])
                                     ELSE m.fan[f]
    BY DEF SetFans, Machine
  <1>2. ASSUME NEW f \in Fan
        PROVE  m.fan[f] \in FanState /\ requested[f] \in Int /\ ok[f] \in BOOLEAN
    BY DEF Machine, Io
  <1>3. ASSUME NEW f \in Fan
        PROVE  /\ n.fan[f].read_failures = m.fan[f].read_failures
               /\ n.fan[f].critical = m.fan[f].critical
               /\ \/ n.fan[f].write_failures = 0
                  \/ n.fan[f].write_failures >= m.fan[f].write_failures
               /\ n.fan[f].write_failures <= m.fan[f].write_failures + 1
    <2>1. CASE f \in S
      <3>1. n.fan[f] = SetFanState(f, m.fan[f], requested[f], forced, ok[f])
        BY <1>1, <2>1
      <3>2. QED
        BY <1>2, <3>1, WriteCounters
    <2>2. CASE f \notin S
      BY <1>1, <2>2, FailuresAreInts
    <2>3. QED
      BY <2>1, <2>2
  <1>4. QED
    BY <1>3 DEF SameCounters, WrittenOnce

\* A fan that is forced is written at critical speed or not at all.
ForcedFan(f, m, S, n) ==
    /\ f \in S => n.fan[f].percent = Critical(f) \/ n.fan[f].write_failures # 0
    /\ n.fan[f].percent \in {m.fan[f].percent, Critical(f)}
    /\ f \notin S => n.fan[f] = m.fan[f]

LEMMA SetFansForced ==
    ASSUME Safety.critical_full_speed, NEW m \in Machine, NEW S \in SUBSET Fan,
           NEW requested \in [Fan -> Int], NEW forced \in Reason, NEW ok \in Io,
           NEW f \in Fan, forced # "" \/ WritesFailing(m.fan[f])
    PROVE  ForcedFan(f, m, S, SetFans(m, S, requested, forced, ok))
  <1> DEFINE n == SetFans(m, S, requested, forced, ok)
             t == SetFanState(f, m.fan[f], requested[f], forced, ok[f])
  <1>1. n.fan[f] = IF f \in S THEN t ELSE m.fan[f]
    BY DEF SetFans, Machine
  <1>2. m.fan[f] \in FanState /\ requested[f] \in Int /\ ok[f] \in BOOLEAN
    BY DEF Machine, Io
  <1>3. /\ ok[f] => t.percent = SafetyAdjust(f, m.fan[f], requested[f], forced).percent
        /\ ~ok[f] => t.percent = m.fan[f].percent /\ t.write_failures # 0
    <2>1. /\ ok[f] => t.percent = SafetyAdjust(f, m.fan[f], requested[f], forced).percent
          /\ ~ok[f] => t.percent = m.fan[f].percent
      BY <1>2, SetFanStateType
    <2>2. t = SetFanState(f, m.fan[f], requested[f], forced, ok[f])
      OBVIOUS
    <2> HIDE DEF t
    <2>3. ASSUME ~ok[f] PROVE t.write_failures # 0
      <3>1. t = NotWritten(m.fan[f])
        BY <2>2, <2>3 DEF SetFanState, NotWritten
      <3>2. NotWritten(m.fan[f]).write_failures # 0
        BY <1>2, FailureCounted
      <3>3. QED
        BY <3>1, <3>2
    <2>4. QED
      BY <2>1, <2>3
  <1>4. SafetyAdjust(f, m.fan[f], requested[f], forced).percent = Critical(f)
    BY ForcedIsCritical
  <1> HIDE DEF t, n
  <1>5. ForcedFan(f, m, S, n)
    BY <1>1, <1>3, <1>4 DEF ForcedFan
  <1>6. QED
    BY <1>5 DEF n

\* What commands do with a machine under a global condition.
LEMMA SetFansCools ==
    ASSUME Safety.critical_full_speed, NEW m \in Machine, NEW S \in SUBSET Fan,
           NEW requested \in [Fan -> Int], NEW ok \in Io
    PROVE  Cools(m, SetFans(m, S, requested, GlobalReason(m.fan), ok))
  <1> DEFINE n == SetFans(m, S, requested, GlobalReason(m.fan), ok)
  <1>1. SameCounters(m.fan, n.fan) /\ WrittenOnce(m.fan, n.fan)
    BY GlobalReasonType, SetFansCounters
  <1>2. ASSUME Heeded(m.fan, n.fan) PROVE OnlyCools(m.fan, n.fan)
    <2>1. GlobalCondition(m.fan)
      BY <1>2 DEF Heeded, WritesKeepFailing, GlobalCondition
    <2>2. GlobalReason(m.fan) # "" /\ GlobalReason(m.fan) \in Reason
      BY <2>1, ConditionForces, GlobalReasonType
    <2>3. ASSUME NEW f \in Fan PROVE n.fan[f].percent \in {m.fan[f].percent, Critical(f)}
      BY <2>2, SetFansForced DEF ForcedFan
    <2> HIDE DEF n
    <2>4. QED
      BY <2>3 DEF OnlyCools
  <1> HIDE DEF n
  <1>3. QED
    BY <1>1, <1>2 DEF Cools, n

\* The two fans in turn are one round: each is written once.
LEMMA SetInTurnCools ==
    ASSUME Safety.critical_full_speed, NEW m \in Machine, NEW requested \in [Fan -> Int],
           NEW ok \in Io
    PROVE  /\ SetInTurn(m, requested, ok) \in Machine
           /\ Cools(m, SetInTurn(m, requested, ok))
  <1> DEFINE cpu == SetFans(m, {"cpu"}, requested, GlobalReason(m.fan), ok)
             n == SetFans(cpu, {"gpu"}, requested, GlobalReason(cpu.fan), ok)
  <1>1. {"cpu"} \in SUBSET Fan /\ {"gpu"} \in SUBSET Fan
    BY DEF Fan
  <1>2. cpu \in Machine /\ Cools(m, cpu)
    BY <1>1, GlobalReasonType, SetFansType, SetFansCools
  <1>3. cpu.fan["gpu"] = m.fan["gpu"]
    BY DEF SetFans, Machine, Fan
  <1>4. SetInTurn(m, requested, ok) = n
    BY DEF SetInTurn
  <1> HIDE DEF cpu
  <1>5. n \in Machine /\ Cools(cpu, n)
    BY <1>1, <1>2, GlobalReasonType, SetFansType, SetFansCools
  <1>6. n.fan["cpu"] = cpu.fan["cpu"]
    BY <1>2 DEF SetFans, Machine, Fan
  <1> HIDE DEF n
  <1>7. SameCounters(m.fan, n.fan)
    BY <1>2, <1>5, Zenon DEF Cools, SameCounters
  <1>8. WrittenOnce(m.fan, n.fan)
    BY <1>2, <1>3, <1>5, <1>6 DEF Cools, WrittenOnce, Fan
  <1>9. ASSUME Heeded(m.fan, n.fan) PROVE OnlyCools(m.fan, n.fan)
    <2>1. PolledCondition(m.fan) <=> PolledCondition(cpu.fan)
      BY <1>2, ConditionKept DEF Cools
    <2>2. WritesKeepFailing(m.fan, n.fan)
            => WritesKeepFailing(m.fan, cpu.fan) /\ WritesKeepFailing(cpu.fan, n.fan)
      BY <1>3, <1>6 DEF WritesKeepFailing, Fan
    <2>3. Heeded(m.fan, cpu.fan) /\ Heeded(cpu.fan, n.fan)
      BY <1>9, <2>1, <2>2 DEF Heeded
    <2>4. QED
      BY <1>2, <1>5, <2>3, OnlyCoolsTrans DEF Cools
  <1>10. QED
    BY <1>4, <1>5, <1>7, <1>8, <1>9 DEF Cools

LEMMA ApplyCurrentCools ==
    ASSUME Safety.critical_full_speed, NEW m \in Machine, NEW ok \in Io
    PROVE  /\ ApplyCurrentControlState(m, ok) \in Machine
           /\ Cools(m, ApplyCurrentControlState(m, ok))
  <1>1. \A f \in Fan : Target(m.fan[f]) \in Int
    BY TargetRange DEF Machine, Percent
  <1>2. [f \in Fan |-> Target(m.fan[f])] \in [Fan -> Int]
    BY <1>1
  <1>3. Fan \in SUBSET Fan
    OBVIOUS
  <1>4. QED
    BY <1>2, <1>3, GlobalReasonType, SetFansType, SetFansCools DEF ApplyCurrentControlState

LEMMA ApplyFanModeFans ==
    ASSUME NEW m \in Machine, NEW new, NEW ok
    PROVE  ApplyFanMode(m, new, ok).fan = m.fan
  BY DEF ApplyFanMode, Machine

LEMMA CoolBoostOffCools ==
    ASSUME Safety.critical_full_speed, NEW m \in Machine, NEW modeOk \in Io, NEW ok \in Io
    PROVE  Cools(m, CoolBoostOff(m, modeOk, ok))
  <1> DEFINE manual == ApplyFanMode(m, "manual", modeOk)
             n == ApplyCurrentControlState(manual, ok)
  <1>1. "manual" \in FanMode
    BY DEF FanMode
  <1>2. manual \in Machine /\ manual.fan = m.fan
    BY <1>1, ApplyFanModeType, ApplyFanModeFans
  <1>3. CoolBoostOff(m, modeOk, ok) = IF FanModeApplied(modeOk) THEN n ELSE manual
    BY DEF CoolBoostOff
  <1>4. Cools(manual, n)
    BY <1>2, ApplyCurrentCools
  <1> HIDE DEF manual, n
  <1>5. Cools(m, n) /\ Cools(m, manual)
    BY <1>2, <1>4, CoolsOf, CoolsSame
  <1>6. QED
    BY <1>3, <1>5

LEMMA PreparedCools ==
    ASSUME Safety.critical_full_speed, TypeOK, NEW offMode \in Io, NEW off \in Io,
           NEW toManual \in Io
    PROVE  /\ Prepared(offMode, off, toManual) \in Machine
           /\ Cools(Now, Prepared(offMode, off, toManual))
  <1> DEFINE calm == IF coolboost THEN CoolBoostOff(Now, offMode, off) ELSE Now
  <1>1. calm \in Machine /\ Cools(Now, calm)
    BY NowType, CoolBoostOffType, CoolBoostOffCools, CoolsSame
  <1>2. Prepared(offMode, off, toManual) = ApplyFanMode(calm, "manual", toManual)
    BY DEF Prepared
  <1> HIDE DEF calm
  <1>3. ApplyFanMode(calm, "manual", toManual).fan = calm.fan
    BY <1>1, ApplyFanModeFans
  <1>4. Cools(Now, Prepared(offMode, off, toManual))
    BY <1>1, <1>2, <1>3, CoolsOf
  <1>5. QED
    BY <1>4, PreparedType

-----------------------------------------------------------------------------
\* The poll

\* The fan is at critical speed if it could be written, and stays there.
Cooled(f) ==
    /\ fan'[f].write_failures = 0 => fan'[f].percent >= Critical(f)
    /\ fan[f].percent >= Critical(f) => fan'[f].percent >= Critical(f)

\* What makes a poll cool a fan: a condition it counts as global, or the fan's
\* own failing writes.
Heated(fans, f) == PolledCondition(fans) \/ WritesFailing(fans[f])

\* A poll's write of a forced fan, over what it made of the samples.
LEMMA ForcedPoll ==
    ASSUME Safety.critical_full_speed, NEW base \in Machine, NEW S \in SUBSET Fan,
           NEW requested \in [Fan -> Int], NEW forced \in Reason, NEW ok \in Io,
           NEW f \in Fan, forced # "" \/ WritesFailing(base.fan[f]),
           f \notin S => base.fan[f].percent = Critical(f),
           f \in S => base.fan[f].percent = fan[f].percent,
           Commit(SetFans(base, S, requested, forced, ok))
    PROVE  Cooled(f)
  <1> DEFINE n == SetFans(base, S, requested, forced, ok)
  <1>1. fan' = n.fan
    BY DEF Commit
  <1>2. ForcedFan(f, base, S, n)
    BY SetFansForced
  <1> HIDE DEF n
  <1>3. Critical(f) >= Critical(f)
    BY CriticalIsPercent, AtLeastItself
  <1>4. CASE f \in S
    BY <1>1, <1>2, <1>3, <1>4 DEF ForcedFan, Cooled
  <1>5. CASE f \notin S
    BY <1>1, <1>2, <1>3, <1>5 DEF ForcedFan, Cooled
  <1>6. QED
    BY <1>4, <1>5

LEMMA FirmwarePollCritical ==
    ASSUME Safety.critical_full_speed, TypeOK, NEW seen \in [Fan -> FanState],
           \A f \in Fan : seen[f].percent = fan[f].percent,
           NEW first \in Io, NEW second \in Io, NEW ok \in Io,
           PollFirmwareAuto(seen, ForcedReason(seen), first, second, ok)
    PROVE  /\ SameCounters(seen, fan')
           /\ \A f \in Fan : Heated(seen, f) => Cooled(f)
  <1> DEFINE forced == ForcedReason(seen)
             target == [f \in Fan |-> Target(seen[f])]
             override == {f \in Fan : SafetyAdjust(f, seen[f], target[f], forced).reason # ""}
             tracked == [f \in Fan |->
                      [seen[f] EXCEPT !.percent = Clamp(target[f], 1, 100),
                                      !.requested = Clamp(target[f], 1, 100),
                                      !.reason = ""]]
             fans == [f \in Fan |-> IF f \in override THEN seen[f] ELSE tracked[f]]
             base == [Now EXCEPT !.fan = fans]
             switched == IF override # {} THEN ApplyFanMode(base, "manual", first) ELSE base
             retried == IF override = Fan /\ ~DaemonControlApplied(first)
                        THEN ApplyFanMode(switched, "manual", second) ELSE switched
             restored == IF ShouldRestore(override)
                         THEN ApplyFanMode(retried, "auto", second) ELSE retried
             m == SetFans(restored, override, target, forced, ok)
  <1>1. Commit(m)
    BY DEF PollFirmwareAuto
  <1>2. override \in SUBSET Fan /\ forced \in Reason
    BY ForcedReasonType
  <1>3. \A f \in Fan : target[f] \in Int
    BY TargetRange DEF Percent
  <1>4. target \in [Fan -> Int]
    BY <1>3
  <1>5. ASSUME NEW f \in Fan, Heated(seen, f)
        PROVE  f \in override /\ (forced # "" \/ WritesFailing(seen[f]))
    <2>1. forced # "" \/ WritesFailing(seen[f])
      BY <1>5, ConditionForces DEF Heated
    <2> HIDE DEF forced, target
    <2>2. SafetyAdjust(f, seen[f], target[f], forced).reason # ""
      BY <2>1, ForcedIsCritical
    <2>3. QED
      BY <2>1, <2>2
  <1> HIDE DEF target, override, forced
  <1>6. ASSUME NEW f \in Fan
        PROVE  /\ tracked[f] \in FanState
               /\ tracked[f].read_failures = seen[f].read_failures
               /\ tracked[f].critical = seen[f].critical
    <2> DEFINE q == Clamp(target[f], 1, 100)
    <2>1. seen[f] \in FanState /\ q \in Percent /\ "" \in Reason
      BY <1>3, RequestRange DEF Reason
    <2>2. tracked[f] = [seen[f] EXCEPT !.percent = q, !.requested = q, !.reason = ""]
      OBVIOUS
    <2> HIDE DEF q, tracked
    <2>3. QED
      BY <2>1, <2>2, ZenonT(30) DEF FanState
  <1> HIDE DEF tracked
  <1>7. /\ fans \in [Fan -> FanState] /\ SameCounters(seen, fans)
        /\ \A f \in override : fans[f] = seen[f]
    BY <1>2, <1>6 DEF SameCounters
  <1> HIDE DEF fans
  <1>8. base \in Machine /\ base.fan = fans
    BY <1>7, NowType DEF Machine
  <1> HIDE DEF base
  <1>9. "manual" \in FanMode /\ "auto" \in FanMode
    BY DEF FanMode
  <1>10. \A n \in Machine, new \in FanMode, okay \in Io :
            ApplyFanMode(n, new, okay) \in Machine /\ ApplyFanMode(n, new, okay).fan = n.fan
    BY ApplyFanModeType DEF ApplyFanMode, Machine
  <1>11. switched \in Machine /\ switched.fan = fans
    BY <1>8, <1>9, <1>10
  <1> HIDE DEF switched
  <1>12. retried \in Machine /\ retried.fan = fans
    BY <1>9, <1>10, <1>11
  <1> HIDE DEF retried
  <1>13. restored \in Machine /\ restored.fan = fans
    BY <1>9, <1>10, <1>12
  <1> HIDE DEF restored
  <1>14. SameCounters(fans, m.fan)
    BY <1>2, <1>4, <1>13, SetFansCounters
  <1>15. SameCounters(seen, m.fan)
    BY <1>7, <1>14, Zenon DEF SameCounters
  <1>16. ASSUME NEW f \in Fan, Heated(seen, f) PROVE Cooled(f)
    <2>1. f \in override /\ (forced # "" \/ WritesFailing(seen[f]))
      BY <1>5, <1>16
    <2>2. restored.fan[f] = seen[f]
      BY <1>7, <1>13, <2>1
    <2>3. QED
      BY <1>1, <1>2, <1>4, <1>13, <2>1, <2>2, ForcedPoll
  <1>17. SameCounters(seen, fan')
    BY <1>1, <1>15 DEF Commit
  <1>18. QED
    BY <1>16, <1>17

LEMMA DaemonPollCritical ==
    ASSUME Safety.critical_full_speed, TypeOK, NEW seen \in [Fan -> FanState],
           \A f \in Fan : seen[f].percent = fan[f].percent, NEW ok \in Io,
           PollDaemonControl(seen, ForcedReason(seen), ok)
    PROVE  /\ SameCounters(seen, fan')
           /\ \A f \in Fan : Heated(seen, f) => Cooled(f)
  <1> DEFINE forced == ForcedReason(seen)
             target == [f \in Fan |-> IF auto THEN AutoPercent(f, seen[f], forced)
                                              ELSE Target(seen[f])]
             changed == {f \in Fan : NeedsWrite(f, seen[f], target[f], forced)}
             fans == [f \in Fan |->
                    IF f \in changed THEN seen[f]
                    ELSE [seen[f] EXCEPT !.reason =
                             SafetyAdjust(f, seen[f], target[f], forced).reason]]
             base == [Now EXCEPT !.fan = fans]
             m == SetFans(base, changed, target, forced, ok)
  <1>1. Commit(m)
    BY DEF PollDaemonControl
  <1>2. forced \in Reason
    BY ForcedReasonType
  <1>3. \A f \in Fan : target[f] \in Percent
    BY <1>2, TargetRange, AutoPercentRange
  <1>4. target \in [Fan -> Int]
    <2>1. \A f \in Fan : target[f] \in Int
      BY <1>3, PercentFacts
    <2>2. QED
      BY <2>1
  <1>5. /\ changed \in SUBSET Fan
        /\ \A f \in Fan \ changed :
              SafetyAdjust(f, seen[f], target[f], forced).percent = seen[f].percent
    BY DEF NeedsWrite
  <1>6. ASSUME NEW f \in Fan, Heated(seen, f) PROVE forced # "" \/ WritesFailing(seen[f])
    BY <1>6, ConditionForces DEF Heated
  <1> HIDE DEF target, changed, forced
  <1>7. ASSUME NEW f \in Fan
        PROVE  /\ fans[f] \in FanState /\ fans[f].percent = seen[f].percent
               /\ fans[f].read_failures = seen[f].read_failures
               /\ fans[f].critical = seen[f].critical
               /\ fans[f].write_failures = seen[f].write_failures
    <2> DEFINE r == SafetyAdjust(f, seen[f], target[f], forced).reason
    <2>1. r \in Reason /\ seen[f] \in FanState
      BY <1>2, <1>4, AdjustType DEF Adjusted
    <2>2. fans[f] = IF f \in changed THEN seen[f] ELSE [seen[f] EXCEPT !.reason = r]
      OBVIOUS
    <2> HIDE DEF r, fans
    <2>3. QED
      BY <2>1, <2>2 DEF FanState
  <1>8. fans \in [Fan -> FanState] /\ SameCounters(seen, fans)
    BY <1>7 DEF SameCounters
  <1> HIDE DEF fans
  <1>9. base \in Machine /\ base.fan = fans
    BY <1>8, NowType DEF Machine
  <1> HIDE DEF base
  <1>10. SameCounters(fans, m.fan)
    BY <1>2, <1>4, <1>5, <1>9, SetFansCounters
  <1>11. SameCounters(seen, fan')
    BY <1>1, <1>8, <1>10, Zenon DEF SameCounters, Commit
  <1>12. ASSUME NEW f \in Fan, Heated(seen, f) PROVE Cooled(f)
    <2>1. forced # "" \/ WritesFailing(seen[f])
      BY <1>6, <1>12
    <2>2. /\ base.fan[f].percent = seen[f].percent
          /\ base.fan[f].write_failures = seen[f].write_failures
      BY <1>7, <1>9
    <2>3. forced # "" \/ WritesFailing(base.fan[f])
      BY <2>1, <2>2 DEF WritesFailing
    <2>4. f \notin changed => base.fan[f].percent = Critical(f)
      <3>1. SafetyAdjust(f, seen[f], target[f], forced).percent = Critical(f)
        BY <2>1, ForcedIsCritical
      <3>2. QED
        BY <1>5, <2>2, <3>1
    <2>5. base.fan[f].percent = fan[f].percent
      BY <2>2
    <2>6. QED
      BY <1>1, <1>2, <1>4, <1>5, <1>9, <2>3, <2>4, <2>5, ForcedPoll
  <1>13. QED
    BY <1>11, <1>12

LEMMA PollCritical ==
    ASSUME Safety.critical_full_speed, TypeOK, Poll, NEW f \in Fan,
           PolledCondition(fan') \/ WritesFailing(fan[f])
    PROVE  Cooled(f)
  <1>1. PICK sample \in Observations, reads \in Reads, ok \in Writes,
             first \in Outcomes(FirmwareAuto, ModeWrites),
             second \in Outcomes(FirmwareAuto, ModeWrites) :
             PollWith(sample, reads, first, second, ok)
    BY DEF Poll
  <1>2. ok \in Io /\ first \in Io /\ second \in Io
    BY IoType, OutcomesType
  <1> DEFINE seen == [g \in Fan |-> Observe(fan[g], reads[g], sample[g])]
  <1>3. \/ FirmwareAuto /\ PollFirmwareAuto(seen, ForcedReason(seen), first, second, ok)
        \/ ~FirmwareAuto /\ PollDaemonControl(seen, ForcedReason(seen), ok)
    BY <1>1 DEF PollWith
  <1>4. seen \in [Fan -> FanState] /\ \A g \in Fan : seen[g].percent = fan[g].percent
    BY SeenType
  <1>5. seen[f].write_failures = fan[f].write_failures
    <2>1. fan[f] \in FanState /\ reads[f] \in BOOLEAN /\ sample[f] \in Int
      BY IoType, FanControlAssumption DEF TypeOK, Io
    <2>2. QED
      BY <2>1, ObserveType
  <1> HIDE DEF seen
  <1>6. SameCounters(seen, fan') /\ \A g \in Fan : Heated(seen, g) => Cooled(g)
    BY <1>2, <1>3, <1>4, FirmwarePollCritical, DaemonPollCritical
  <1>7. Heated(seen, f)
    BY <1>5, <1>6, ConditionKept DEF Heated, WritesFailing
  <1>8. QED
    BY <1>6, <1>7

-----------------------------------------------------------------------------
\* The commands, in the order of Next

\* A handler moves fans to critical speed only, while there is something to heed.
CommandCools == Heeded(fan, fan') => OnlyCools(fan, fan')

\* A handler with one round of writes.
LEMMA CommitCools ==
    ASSUME NEW m, Commit(m), Cools(Now, m)
    PROVE  CommandCools
  <1>1. Now.fan = fan /\ fan' = m.fan
    BY DEF Now, Commit
  <1>2. QED
    BY <1>1, Zenon DEF Cools, CommandCools

\* A handler that first switches turbo off, which is a round of its own.
LEMMA CommitCoolsTwice ==
    ASSUME TypeOK, NEW ready \in Machine, NEW m \in Machine, Commit(ready) \/ Commit(m),
           Cools(Now, ready), Cools(ready, m)
    PROVE  CommandCools
  <1>1. CASE Commit(ready)
    BY <1>1, CommitCools
  <1>2. CASE Commit(m)
    <2>1. Now.fan = fan /\ fan' = m.fan
      BY <1>2 DEF Now, Commit
    <2>2. Heeded(Now.fan, m.fan) => OnlyCools(Now.fan, m.fan)
      BY NowType, CoolsTwice
    <2>3. QED
      BY <2>1, <2>2 DEF CommandCools
  <1>3. QED
    BY <1>1, <1>2

LEMMA SetCools ==
    ASSUME Safety.critical_full_speed, TypeOK, NEW S \in SetScopes,
           NEW percent \in SetPercents, Set(S, percent)
    PROVE  CommandCools
  <1>1. PICK offMode \in Outcomes(coolboost, ModeWrites), off \in Outcomes(coolboost, Writes),
             toManual \in ModeWrites, ok \in Writes, save \in Saves :
          LET ready == Prepared(offMode, off, toManual)
              m == SetFans(ready, S, [f \in Fan |-> percent], GlobalReason(ready.fan), ok)
          IN  \/ ~DaemonControlApplied(toManual) /\ Refused(ready)
              \/ /\ DaemonControlApplied(toManual)
                 /\ Commit(m)
                 /\ SetControlMode(FALSE, "manual")
                 /\ Save(m, FALSE, "manual", save /\ \E f \in S : ok[f])
    BY DEF Set
  <1>2. offMode \in Io /\ off \in Io /\ toManual \in Io /\ ok \in Io
    BY IoType, OutcomesType
  <1> DEFINE ready == Prepared(offMode, off, toManual)
             m == SetFans(ready, S, [f \in Fan |-> percent], GlobalReason(ready.fan), ok)
  <1>3. Commit(ready) \/ Commit(m)
    BY <1>1 DEF Refused
  <1>4. ready \in Machine /\ Cools(Now, ready)
    BY <1>2, PreparedCools
  <1> HIDE DEF ready
  <1>5. m \in Machine /\ Cools(ready, m)
    <2>1. S \in SUBSET Fan /\ [f \in Fan |-> percent] \in [Fan -> Int]
      BY FanControlAssumption
    <2>2. QED
      BY <1>2, <1>4, <2>1, GlobalReasonType, SetFansType, SetFansCools
  <1> HIDE DEF m
  <1>6. QED
    BY <1>3, <1>4, <1>5, CommitCoolsTwice

LEMMA PresetCools ==
    ASSUME Safety.critical_full_speed, TypeOK, NEW id \in DOMAIN Presets, ApplyPreset(id)
    PROVE  CommandCools
  <1>1. PICK offMode \in Outcomes(coolboost, ModeWrites), off \in Outcomes(coolboost, Writes),
             toManual \in ModeWrites, ok \in Writes, save \in Saves :
          LET ready == Prepared(offMode, off, toManual)
              m == SetInTurn(ready, Presets[id], ok)
          IN  \/ ~DaemonControlApplied(toManual) /\ Refused(ready)
              \/ /\ DaemonControlApplied(toManual)
                 /\ Commit(m)
                 /\ SetControlMode(FALSE, id)
                 /\ Save(m, FALSE, id, save)
    BY DEF ApplyPreset
  <1>2. offMode \in Io /\ off \in Io /\ toManual \in Io /\ ok \in Io
    BY IoType, OutcomesType
  <1> DEFINE ready == Prepared(offMode, off, toManual)
             m == SetInTurn(ready, Presets[id], ok)
  <1>3. Commit(ready) \/ Commit(m)
    BY <1>1 DEF Refused
  <1>4. ready \in Machine /\ Cools(Now, ready)
    BY <1>2, PreparedCools
  <1> HIDE DEF ready
  <1>5. m \in Machine /\ Cools(ready, m)
    <2>1. Presets[id] \in [Fan -> Int]
      BY FanControlAssumption
    <2>2. QED
      BY <1>2, <1>4, <2>1, SetInTurnCools
  <1> HIDE DEF m
  <1>6. QED
    BY <1>3, <1>4, <1>5, CommitCoolsTwice

LEMMA AutoCools ==
    ASSUME Safety.critical_full_speed, TypeOK, AutoMode
    PROVE  CommandCools
  <1>1. PICK offMode \in Outcomes(coolboost, ModeWrites), off \in Outcomes(coolboost, Writes),
             toManual \in ModeWrites, ok \in Writes, save \in Saves :
          LET ready == Prepared(offMode, off, toManual)
              m == SetInTurn(ready, [f \in Fan |-> FanConfig[f].reset_speed], ok)
          IN  \/ ~DaemonControlApplied(toManual) /\ Refused(ready)
              \/ /\ DaemonControlApplied(toManual)
                 /\ Commit(m)
                 /\ SetControlMode(TRUE, "auto")
                 /\ Save(m, TRUE, "auto", save)
    BY DEF AutoMode
  <1>2. offMode \in Io /\ off \in Io /\ toManual \in Io /\ ok \in Io
    BY IoType, OutcomesType
  <1> DEFINE ready == Prepared(offMode, off, toManual)
             m == SetInTurn(ready, [f \in Fan |-> FanConfig[f].reset_speed], ok)
  <1>3. Commit(ready) \/ Commit(m)
    BY <1>1 DEF Refused
  <1>4. ready \in Machine /\ Cools(Now, ready)
    BY <1>2, PreparedCools
  <1> HIDE DEF ready
  <1>5. m \in Machine /\ Cools(ready, m)
    <2>1. \A f \in Fan : FanConfig[f].reset_speed \in Percent
      BY WriteRange
    <2>2. \A p \in Percent : p \in Int
      BY DEF Percent
    <2>3. [f \in Fan |-> FanConfig[f].reset_speed] \in [Fan -> Int]
      BY <2>1, <2>2
    <2>4. QED
      BY <1>2, <1>4, <2>3, SetInTurnCools
  <1> HIDE DEF m
  <1>6. QED
    BY <1>3, <1>4, <1>5, CommitCoolsTwice

\* The commands that switch the fan mode.
LEMMA ModeCommandsCool ==
    ASSUME Safety.critical_full_speed, TypeOK,
           FirmwareAutoMode \/ CoolBoostOn
    PROVE  CommandCools
  <1>1. PICK new \in FanMode, ok \in ModeWrites : Commit(ApplyFanMode(Now, new, ok))
    <2>1. "auto" \in FanMode /\ "turbo" \in FanMode
      BY DEF FanMode
    <2>2. CASE FirmwareAutoMode
      <3>1. \E ok \in ModeWrites : Commit(ApplyFanMode(Now, "auto", ok))
        BY <2>2 DEF FirmwareAutoMode, Refused
      <3>2. QED
        BY <2>1, <3>1
    <2>3. CASE CoolBoostOn
      <3>1. \E ok \in ModeWrites : Commit(ApplyFanMode(Now, "turbo", ok))
        BY <2>3 DEF CoolBoostOn, Refused
      <3>2. QED
        BY <2>1, <3>1
    <2>4. QED
      BY <2>2, <2>3
  <1>2. QED
    BY <1>1, NowType, ApplyFanModeFans, CoolsSame, CommitCools

LEMMA FanModeManualCools ==
    ASSUME Safety.critical_full_speed, TypeOK, FanModeManual
    PROVE  CommandCools
  <1>1. PICK toManual \in ModeWrites, ok \in Writes, save \in Saves :
          LET switched == ApplyFanMode(Now, "manual", toManual)
              m == ApplyCurrentControlState(switched, ok)
          IN  \/ ~BothWritten(toManual) /\ Refused(switched) /\ UNCHANGED coolboost
              \/ /\ BothWritten(toManual)
                 /\ Commit(m)
                 /\ SetControlMode(FALSE, "manual")
                 /\ coolboost' = FALSE
                 /\ Save(m, FALSE, "manual", save)
    BY DEF FanModeManual
  <1>2. toManual \in Io /\ ok \in Io /\ "manual" \in FanMode
    BY IoType DEF FanMode
  <1> DEFINE switched == ApplyFanMode(Now, "manual", toManual)
             m == ApplyCurrentControlState(switched, ok)
  <1>3. Commit(switched) \/ Commit(m)
    BY <1>1 DEF Refused
  <1>4. switched \in Machine /\ Cools(Now, switched)
    BY <1>2, NowType, ApplyFanModeType, ApplyFanModeFans, CoolsSame
  <1> HIDE DEF switched
  <1>5. m \in Machine /\ Cools(switched, m)
    BY <1>2, <1>4, ApplyCurrentCools
  <1> HIDE DEF m
  <1>6. QED
    BY <1>3, <1>4, <1>5, CommitCoolsTwice

LEMMA CoolBoostOffCommandCools ==
    ASSUME Safety.critical_full_speed, TypeOK, CoolBoostOffCommand
    PROVE  CommandCools
  <1>1. PICK back \in ModeWrites, ok \in Writes, save \in Saves :
          LET m == IF FirmwareAuto THEN ApplyFanMode(Now, "auto", back)
                                   ELSE CoolBoostOff(Now, back, ok)
          IN  \/ ~BothWritten(back) /\ Refused(m) /\ UNCHANGED coolboost
              \/ /\ BothWritten(back)
                 /\ Commit(m)
                 /\ coolboost' = FALSE
                 /\ Save(m, auto, preset, save)
                 /\ UNCHANGED <<auto, preset>>
    BY DEF CoolBoostOffCommand
  <1> DEFINE m == IF FirmwareAuto THEN ApplyFanMode(Now, "auto", back)
                                  ELSE CoolBoostOff(Now, back, ok)
  <1>2. Commit(m)
    BY <1>1 DEF Refused
  <1>3. Cools(Now, m)
    BY IoType, NowType, ApplyFanModeFans, CoolsSame, CoolBoostOffCools
  <1> HIDE DEF m
  <1>4. QED
    BY <1>2, <1>3, CommitCools

\* Waking up.
LEMMA ResumeCools ==
    ASSUME Safety.critical_full_speed, TypeOK, Resume
    PROVE  CommandCools
  <1>1. PICK init \in ModeWrites, back \in ModeWrites, ok \in Writes :
          LET m == ApplyInitWrites(Now, init)
          IN  \/ FirmwareAuto /\ Commit(ApplyFanMode(m, "auto", back))
              \/ ~FirmwareAuto /\ Commit(ApplyCurrentControlState(m, ok))
    BY DEF Resume
  <1> DEFINE m == ApplyInitWrites(Now, init)
             a == ApplyFanMode(m, "auto", back)
             c == ApplyCurrentControlState(m, ok)
  <1>2. Commit(a) \/ Commit(c)
    BY <1>1
  <1>3. m \in Machine /\ m.fan = Now.fan
    <2>1. init \in Io
      BY IoType
    <2>2. m \in Machine
      BY <2>1, NowType, ApplyInitWritesType
    <2>3. m.fan = Now.fan
      BY NowType DEF ApplyInitWrites, Machine
    <2>4. QED
      BY <2>2, <2>3
  <1> HIDE DEF m
  <1>4. a.fan = m.fan /\ Cools(m, c)
    BY <1>3, IoType, ApplyFanModeFans, ApplyCurrentCools
  <1>5. Cools(Now, a) /\ Cools(Now, c)
    <2>1. Now.fan = m.fan
      BY <1>3
    <2> HIDE DEF m, a, c
    <2>2. Cools(Now, c)
      BY <1>4, <2>1, CoolsOf
    <2>3. Cools(Now, a)
      BY <1>4, <2>1, NowType, CoolsSame
    <2>4. QED
      BY <2>2, <2>3
  <1> HIDE DEF a, c
  <1>6. QED
    BY <1>2, <1>5, CommitCools

\* Every step of a running daemon.
LEMMA StepCools ==
    ASSUME Safety.critical_full_speed, TypeOK, Next, running, running'
    PROVE  CommandCools \/ Poll
  <1>1. CASE \E S \in SetScopes, p \in SetPercents : Set(S, p)
    BY <1>1, SetCools
  <1>2. CASE \E id \in DOMAIN Presets : ApplyPreset(id)
    BY <1>2, PresetCools
  <1>3. CASE AutoMode
    BY <1>3, AutoCools
  <1>4. CASE FirmwareAutoMode \/ CoolBoostOn
    BY <1>4, ModeCommandsCool
  <1>5. CASE FanModeManual
    BY <1>5, FanModeManualCools
  <1>6. CASE CoolBoostOffCommand
    BY <1>6, CoolBoostOffCommandCools
  <1>7. CASE SaveWithOtherSetting \/ Suspend
    <2>1. fan' = fan
      BY <1>7 DEF SaveWithOtherSetting, Suspend
    <2>2. QED
      BY <2>1, Zenon DEF CommandCools, OnlyCools
  <1>8. CASE Resume
    BY <1>8, ResumeCools
  <1>9. CASE Stop \/ Crash \/ Start
    BY <1>9 DEF Stop, Crash, Start, MemoryLost
  <1>10. QED
    BY <1>1, <1>2, <1>3, <1>4, <1>5, <1>6, <1>7, <1>8, <1>9 DEF Next

-----------------------------------------------------------------------------

\* A poll that sees a failing EC read or a latched critical temperature on either
\* fan leaves both at critical speed, and one before which a fan's own writes
\* failed leaves that fan there, in every mode and with every pattern of failing
\* writes, provided the fan could be written (refresh_fan_observations,
\* update_fan_states).  Failing writes of the other fan are not claimed: the poll
\* does not look at them.
THEOREM BothFansCooled ==
    ASSUME Safety.critical_full_speed
    PROVE  Spec => PolledConditionsCoolBothFans
  <1> DEFINE Step ==
        running /\ (PolledCondition(fan') \/ \E f \in Fan : WritesFailing(fan[f])) /\ Poll =>
        \A f \in Fan :
            ( /\ PolledCondition(fan') \/ WritesFailing(fan[f])
              /\ fan'[f].write_failures = 0 )
            => AtCriticalSpeed(f, fan'[f])
  <1>1. TypeOK /\ [Next]_vars => [Step]_vars
    <2>1. ASSUME TypeOK, Next PROVE Step
      BY <2>1, PollCritical DEF Cooled, Critical, AtCriticalSpeed
    <2>2. QED
      BY <2>1
  <1> HIDE DEF Step
  <1>2. Spec => [][Step]_vars
    BY <1>1, TypeCorrect, PTL DEF Spec
  <1>3. QED
    BY <1>2 DEF Step, PolledConditionsCoolBothFans

\* Fans that only move to critical speed do not leave it.
LEMMA CoolingKeepsCritical ==
    ASSUME OnlyCools(fan, fan'), NEW f \in Fan, AtCriticalSpeed(f, fan[f])
    PROVE  AtCriticalSpeed(f, fan'[f])
  <1>1. Critical(f) >= Critical(f)
    BY CriticalIsPercent, AtLeastItself
  <1>2. QED
    BY <1>1 DEF OnlyCools, AtCriticalSpeed, Critical

\* No command, poll, suspend or resume slows a fan from critical speed while
\* failing EC reads or a latched critical temperature last (set_one's forced
\* reason and the handlers).
THEOREM CriticalHeld ==
    ASSUME Safety.critical_full_speed
    PROVE  Spec => CriticalSpeedHeld
  <1> DEFINE Step == running /\ running' /\ PolledCondition(fan) /\ PolledCondition(fan') =>
        \A f \in Fan : AtCriticalSpeed(f, fan[f]) => AtCriticalSpeed(f, fan'[f])
  <1>1. TypeOK /\ [Next]_vars => [Step]_vars
    <2>1. ASSUME TypeOK, Next, running, running', PolledCondition(fan), PolledCondition(fan'),
                 NEW f \in Fan, AtCriticalSpeed(f, fan[f])
          PROVE  AtCriticalSpeed(f, fan'[f])
      <3>1. CASE CommandCools
        <4>1. OnlyCools(fan, fan')
          BY <2>1, <3>1 DEF CommandCools, Heeded
        <4>2. QED
          BY <2>1, <4>1, CoolingKeepsCritical
      <3>2. CASE Poll
        BY <2>1, <3>2, PollCritical DEF Cooled, Critical, AtCriticalSpeed
      <3>3. QED
        BY <2>1, <3>1, <3>2, StepCools
    <2>2. QED
      BY <2>1
  <1> HIDE DEF Step
  <1>2. Spec => [][Step]_vars
    BY <1>1, TypeCorrect, PTL DEF Spec
  <1>3. QED
    BY <1>2 DEF Step, CriticalSpeedHeld

\* While a fan's reads or writes fail or its critical temperature is latched, a
\* command moves every fan to critical speed or not at all, where it takes more
\* than one failed write to make a failing fan (set_one and
\* apply_current_control_state by global_safety_reason).
THEOREM CommandsHeed ==
    ASSUME Safety.critical_full_speed, Safety.max_write_failures > 1
    PROVE  Spec => CommandsHeedGlobalConditions
  <1> DEFINE Step ==
        /\ running /\ running'
        /\ \/ PolledCondition(fan)
           \/ \E g \in Fan : WritesFailing(fan[g]) /\ WritesFailing(fan'[g])
        => \/ \A f \in Fan : \/ fan'[f].percent = fan[f].percent
                             \/ AtCriticalSpeed(f, fan'[f])
           \/ Poll
  <1>1. TypeOK /\ [Next]_vars => [Step]_vars
    <2>1. ASSUME TypeOK, Next PROVE Step
      <3>1. ASSUME CommandCools, Heeded(fan, fan')
            PROVE  \A f \in Fan : \/ fan'[f].percent = fan[f].percent
                                  \/ AtCriticalSpeed(f, fan'[f])
        <4>1. \A f \in Fan : Critical(f) >= Critical(f)
          BY CriticalIsPercent, AtLeastItself
        <4>2. QED
          BY <3>1, <4>1 DEF CommandCools, OnlyCools, AtCriticalSpeed, Critical
      <3>2. (\/ PolledCondition(fan)
             \/ \E g \in Fan : WritesFailing(fan[g]) /\ WritesFailing(fan'[g]))
               => Heeded(fan, fan')
        BY DEF Heeded, WritesKeepFailing
      <3>3. QED
        BY <2>1, <3>1, <3>2, StepCools
    <2>2. QED
      BY <2>1
  <1> HIDE DEF Step
  <1>2. Spec => [][Step]_vars
    BY <1>1, TypeCorrect, PTL DEF Spec
  <1>3. QED
    BY <1>2 DEF Step, CommandsHeedGlobalConditions
=============================================================================
