--------------------------- MODULE LifecycleProofs ---------------------------
(***************************************************************************)
(* The daemon's life: a configuration that loads is in range, whatever the *)
(* file is made of; main keeps its types and gives back what it took on    *)
(* every way out; sections are read by their own keys; and every step is a *)
(* step of the function that replaces the state file, of the kernel or of  *)
(* the machine, or leaves that file alone.                                 *)
(***************************************************************************)
EXTENDS Lifecycle, StateFileProofs, WellFoundedInduction, SequenceTheorems,
        FiniteSetTheorems, TLAPS

-----------------------------------------------------------------------------
\* The least-number principle and the texts of model files

\* The least-number principle
LEMMA LeastOf == ASSUME NEW A \in SUBSET Nat, A # {} PROVE \E n \in A : \A m \in A : n <= m
  <1>1. PICK x \in A : \A y \in A : ~ (<<y, x>> \in OpToRel(<, Nat))
    BY NatLessThanWellFounded, WFMin
  <1>2. \A y \in Nat : y < x => <<y, x>> \in OpToRel(<, Nat)
    BY DEF OpToRel
  <1>3. \A y \in A : ~(y < x)
    BY <1>1, <1>2
  <1>4. QED
    BY <1>3

\* What the community modules' Min and Max choose.
LEMMA MinOf ==
    ASSUME NEW A \in SUBSET Nat, A # {}
    PROVE  Min(A) \in A /\ \A m \in A : Min(A) <= m
BY LeastOf DEF Min

LEMMA MaxOf ==
    ASSUME NEW A \in SUBSET Nat, A # {}, NEW b \in Nat, \A m \in A : m <= b
    PROVE  Max(A) \in A /\ \A m \in A : Max(A) >= m
  <1> DEFINE mirror == {b - m : m \in A}
  <1>1. mirror \in SUBSET Nat /\ mirror # {}
    <2>1. \A m \in A : b - m \in Nat
      OBVIOUS
    <2>2. QED
      BY <2>1
  <1>2. PICK n \in mirror : \A k \in mirror : n <= k
    BY <1>1, LeastOf
  <1>3. PICK m \in A : n = b - m
    BY <1>2
  <1>4. \A k \in A : m >= k
    BY <1>2, <1>3
  <1>5. QED
    BY <1>4 DEF Max

\* The k-th smallest of a finite set of numbers.
LEMMA RankOf ==
    ASSUME NEW n \in Nat, NEW W \in SUBSET (1..n), NEW k \in 1..Cardinality(W)
    PROVE  \E i \in W : Cardinality({j \in W : j <= i}) = k
  <1> DEFINE Below(m) == {j \in W : j <= m}
             A == {m \in Nat : Cardinality(Below(m)) >= k}
  <1>1. \A j \in W : j \in Nat /\ 1 <= j /\ j <= n
    OBVIOUS
  <1>2. IsFiniteSet(W)
    <2>1. IsFiniteSet(1..n)
      BY FS_Interval
    <2>2. QED
      BY <2>1, FS_Subset
  <1>3. Cardinality(W) \in Nat
    BY <1>2, FS_CardinalityType
  <1>4. ASSUME NEW m PROVE IsFiniteSet(Below(m)) /\ Cardinality(Below(m)) \in Nat
    <2>1. Below(m) \in SUBSET W
      OBVIOUS
    <2>2. IsFiniteSet(Below(m))
      BY <1>2, <2>1, FS_Subset
    <2>3. QED
      BY <2>2, FS_CardinalityType
  <1>5. Below(n) = W
    BY <1>1
  <1>6. Below(0) = {}
    <2>1. \A j \in W : ~(j <= 0)
      BY <1>1
    <2>2. QED
      BY <2>1
  <1>7. ASSUME NEW m \in Nat \ {0}, m \notin W PROVE Below(m) = Below(m - 1)
    <2>1. \A j \in W : j <= m <=> j <= m - 1
      BY <1>1, <1>7
    <2>2. QED
      BY <2>1
  <1>8. ASSUME NEW m \in Nat \ {0}, m \in W
        PROVE  Below(m) = Below(m - 1) \cup {m} /\ m \notin Below(m - 1)
    <2>1. \A j \in W : j <= m <=> j <= m - 1 \/ j = m
      BY <1>1
    <2>2. ~(m <= m - 1) /\ m <= m
      OBVIOUS
    <2>3. QED
      BY <1>8, <2>1, <2>2
  <1>9. Cardinality(Below(0)) = 0
    BY <1>6, FS_EmptySet
  <1> HIDE DEF Below
  <1>10. n \in A /\ 0 \notin A
    BY <1>3, <1>5, <1>9
  <1>11. PICK m \in A : \A l \in A : m <= l
    BY <1>10, LeastOf
  <1>12. m \in Nat \ {0}
    BY <1>10, <1>11
  <1>13. m - 1 \in Nat /\ m - 1 \notin A
    BY <1>11, <1>12
  <1>14. Cardinality(Below(m - 1)) < k /\ Cardinality(Below(m)) >= k
    BY <1>4, <1>11, <1>13
  <1>15. m \in W
    BY <1>4, <1>7, <1>12, <1>14
  <1>16. Cardinality(Below(m)) = Cardinality(Below(m - 1)) + 1
    BY <1>4, <1>8, <1>12, <1>15, FS_AddElement
  <1>17. Cardinality(Below(m)) = k
    BY <1>4, <1>14, <1>16
  <1>18. QED
    BY <1>15, <1>17 DEF Below


\* Where a token stands in a text.
LEMMA PositionsIn ==
    ASSUME NEW text \in Seq(Token), NEW token
    PROVE  Positions(text, token) \in SUBSET (1..Len(text))
BY DEF Positions

\* Parts of texts are texts.
LEMMA SliceIsText ==
    ASSUME NEW text \in Seq(Token), NEW m \in Int, NEW n \in Int, m >= 1, n <= Len(text)
    PROVE  SubSeq(text, m, n) \in Seq(Token)
BY SubSeqProperties

LEMMA FromIsText ==
    ASSUME NEW text \in Seq(Token), NEW key, Present(text, key)
    PROVE  From(text, key) \in Seq(Token)
  <1>1. Min(Positions(text, S(key))) \in 1..Len(text)
    BY PositionsIn, MinOf DEF Present
  <1>2. QED
    BY <1>1, SliceIsText DEF From

LEMMA ColonIsText ==
    ASSUME NEW text \in Seq(Token)
    PROVE  AfterColon(text) \in Seq(Token)
  <1> DEFINE colons == Positions(text, Mark(":"))
  <1>1. CASE colons = {}
    BY <1>1 DEF AfterColon
  <1>2. CASE colons # {}
    <2>1. Min(colons) \in 1..Len(text)
      BY <1>2, PositionsIn, MinOf
    <2>2. QED
      BY <1>2, <2>1, SliceIsText DEF AfterColon
  <1>3. QED
    BY <1>1, <1>2

LEMMA ValueIsText ==
    ASSUME NEW text \in Seq(Token), NEW key
    PROVE  ValueOf(text, key) \in Seq(Token)
BY FromIsText, ColonIsText DEF ValueOf

\* json_int_key_checked returns numbers only.
LEMMA IntKeyIsInt == ASSUME NEW text \in Seq(Token), NEW key PROVE IntKey(text, key) \subseteq Int
  <1> DEFINE rest == ValueOf(text, key)
  <1>1. rest \in Seq(Token)
    BY ValueIsText
  <1>2. ASSUME rest # <<>>, rest[1][1] = "n" PROVE rest[1][2] \in Int
    <2>1. rest[1] \in Token
      BY <1>1, <1>2
    <2>2. QED
      BY <1>2, <2>1 DEF Token
  <1>3. QED
    BY <1>2 DEF IntKey, KeyOfKind

\* An optional number is one, too (config_optional_int_key).
LEMMA OptIntIsInt ==
    ASSUME NEW text \in Seq(Token), NEW key, NEW default \in Int
    PROVE  OptInt(text, key, default) \subseteq Int
BY IntKeyIsInt DEF OptInt

\* config_optional_clamped_int_key keeps the bounds, for whatever the file says.
LEMMA ClampedInBounds ==
    ASSUME NEW text \in Seq(Token), NEW key, NEW default \in Int, NEW lo \in Int, NEW hi \in Int,
           lo <= hi
    PROVE  Clamped(text, key, default, lo, hi) \subseteq lo..hi
  <1>1. \A v \in Int : ClampTo(v, lo, hi) \in lo..hi
    BY DEF ClampTo
  <1>2. QED
    BY <1>1, OptIntIsInt DEF Clamped

\* Where brackets close.
LEMMA ClosedIn ==
    ASSUME NEW text \in Seq(Token), NEW open, NEW close
    PROVE  Closed(text, open, close) \in SUBSET (1..Len(text))
BY DEF Closed

\* json_find_array: what stands between the brackets is a text.
LEMMA ArrayIsText ==
    ASSUME NEW text \in Seq(Token), NEW key
    PROVE  ArrayKey(text, key) \subseteq Seq(Token)
  <1> DEFINE rest == ValueOf(text, key)
             ends == Closed(rest, "[", "]")
  <1>1. rest \in Seq(Token)
    BY ValueIsText
  <1>2. ends # {} => Min(ends) \in 1..Len(rest)
    BY <1>1, ClosedIn, MinOf
  <1>3. ends # {} => SubSeq(rest, 2, Min(ends) - 1) \in Seq(Token)
    BY <1>1, <1>2, SliceIsText
  <1>4. QED
    BY <1>3 DEF ArrayKey

\* json_next_object: so is every object of it.
LEMMA ObjectsAreTexts ==
    ASSUME NEW text \in Seq(Token)
    PROVE  Objects(text) \in Seq(Seq(Token))
  <1> DEFINE ends == Closed(text, "{", "}")
             starts == {i \in DOMAIN text : text[i] = Mark("{") /\ Depth(text, "{", "}", i) = 1}
             whole == {i \in starts : \E n \in ends : n > i}
             start(k) == CHOOSE i \in whole : Cardinality({j \in whole : j <= i}) = k
             object(i) == SubSeq(text, i, Min({n \in ends : n > i}))
  <1>1. ends \in SUBSET (1..Len(text))
    BY ClosedIn
  <1>2. whole \in SUBSET (1..Len(text))
    <2>1. whole \in SUBSET DOMAIN text
      OBVIOUS
    <2>2. DOMAIN text = 1..Len(text)
      OBVIOUS
    <2>3. QED
      BY <2>1, <2>2
  <1>3. Len(text) \in Nat
    OBVIOUS
  <1>4. \A m \in ends : m \in Nat
    <2> HIDE DEF ends
    <2>1. QED
      BY <1>1, <1>3
  <1>5. ASSUME NEW i \in whole PROVE object(i) \in Seq(Token)
    <2> DEFINE behind == {n \in ends : n > i}
    <2>1. behind # {}
      OBVIOUS
    <2>2. behind \in SUBSET ends
      OBVIOUS
    <2>3. behind \in SUBSET Nat
      <3> HIDE DEF behind, ends
      <3>1. QED
        BY <1>4, <2>2
    <2>4. Min(behind) \in behind
      <3> HIDE DEF behind
      <3>1. QED
        BY <2>1, <2>3, MinOf
    <2>5. Min(behind) \in 1..Len(text) /\ i \in 1..Len(text)
      <3> HIDE DEF behind, whole, ends
      <3>1. QED
        BY <1>1, <1>2, <1>5, <2>2, <2>4
    <2>6. QED
      <3> HIDE DEF behind, ends, whole, starts
      <3>1. SubSeq(text, i, Min(behind)) \in Seq(Token)
        BY <2>5, SliceIsText
      <3>2. object(i) = SubSeq(text, i, Min(behind))
        BY DEF behind
      <3>3. QED
        BY <3>1, <3>2
  <1>6. Objects(text) = [k \in 1..Cardinality(whole) |-> object(start(k))]
    BY DEF Objects
  <1> HIDE DEF whole, object, ends, starts
  <1>7. Cardinality(whole) \in Nat
    <2>1. IsFiniteSet(1..Len(text))
      BY <1>3, FS_Interval
    <2>2. IsFiniteSet(whole)
      BY <1>2, <2>1, FS_Subset
    <2>3. QED
      BY <2>2, FS_CardinalityType
  <1>8. \A k \in 1..Cardinality(whole) : start(k) \in whole
    BY <1>2, <1>3, RankOf
  <1> HIDE DEF start
  <1>9. QED
    BY <1>5, <1>6, <1>7, <1>8

\* The objects the loaders take, no more than their limit.
LEMMA ItemsAreTexts ==
    ASSUME NEW text \in Seq(Token), NEW key, NEW max \in Nat
    PROVE  /\ Items(text, key, max) \in Seq(Seq(Token))
           /\ Len(Items(text, key, max)) <= max
  <1>1. CASE ArrayKey(text, key) = {}
    BY <1>1 DEF Items
  <1>2. CASE ArrayKey(text, key) # {}
    <2> DEFINE objects == Objects(CHOOSE a \in ArrayKey(text, key) : TRUE)
               n == Min({Len(objects), max})
    <2>1. objects \in Seq(Seq(Token))
      BY <1>2, ArrayIsText, ObjectsAreTexts
    <2>2. Len(objects) \in Nat
      BY <2>1
    <2>3. n \in {Len(objects), max} /\ n <= max /\ n <= Len(objects)
      BY <2>2, MinOf
    <2>4. Items(text, key, max) = SubSeq(objects, 1, n)
      BY <1>2 DEF Items
    <2> HIDE DEF objects, n
    <2>5. \A i \in 1..n : objects[i] \in Seq(Token)
      BY <2>1, <2>2, <2>3
    <2>6. n \in Nat
      BY <2>2, <2>3
    <2>7. QED
      BY <2>3, <2>4, <2>5, <2>6, SubSeqProperties
  <1>3. QED
    BY <1>1, <1>2

-----------------------------------------------------------------------------
\* What config_load finds: records, timing and the safety section

\* A value a loader accepts.
LEMMA InFound ==
    ASSUME NEW range, NEW found, NEW v \in In(range, found) PROVE v \in range /\ v \in found
BY DEF In

LEMMA ByteFound == ASSUME NEW found, NEW v \in Byte(found) PROVE v \in 0..255 /\ v \in found
BY DEF Byte, In

\* What AllOf makes of the values found, at once, uniquely and field by field.
LEMMA AllOfFound ==
    ASSUME NEW found, NEW r \in AllOf(found)
    PROVE  DOMAIN r = DOMAIN found /\ \A k \in DOMAIN found : r[k] \in found[k]
BY DEF AllOf

LEMMA AllOfOne == ASSUME NEW found, NEW r \in AllOf(found), NEW s \in AllOf(found) PROVE r = s
BY DEF AllOf

LEMMA FieldFound ==
    ASSUME NEW found, NEW r \in AllOf(found), NEW k \in DOMAIN found
    PROVE  r[k] \in found[k]
BY DEF AllOf

\* Two records in one, each with its own values.
LEMMA JoinedFound ==
    ASSUME NEW f, NEW g, NEW r \in AllOf(Joined(f, g))
    PROVE  /\ DOMAIN r = DOMAIN f \cup DOMAIN g
           /\ \A k \in DOMAIN f : r[k] \in f[k]
           /\ \A k \in DOMAIN g \ DOMAIN f : r[k] \in g[k]
  <1> DEFINE joined == Joined(f, g)
  <1>1. DOMAIN joined = DOMAIN f \cup DOMAIN g
    BY DEF Joined
  <1>2. \A k \in DOMAIN joined : r[k] \in joined[k]
    <2> HIDE DEF joined
    <2>1. r \in AllOf(joined)
      BY DEF joined
    <2>2. QED
      BY <2>1, FieldFound
  <1>3. ASSUME NEW k \in DOMAIN f PROVE r[k] \in f[k]
    BY <1>1, <1>2 DEF Joined
  <1>4. ASSUME NEW k \in DOMAIN g \ DOMAIN f PROVE r[k] \in g[k]
    BY <1>1, <1>2 DEF Joined
  <1>5. DOMAIN r = DOMAIN joined
    <2> HIDE DEF joined
    <2>1. QED
      BY AllOfFound DEF joined
  <1>6. QED
    BY <1>1, <1>3, <1>4, <1>5

\* A list of values found.
LEMMA ListFound ==
    ASSUME NEW n \in Nat, NEW found, DOMAIN found = 1..n, NEW r \in AllOf(found)
    PROVE  Len(r) = n /\ DOMAIN r = 1..n /\ \A i \in 1..n : r[i] \in found[i]
BY DEF AllOf

\* What is found for the poll interval, by name: the provers are slow with it.
PollInterval(text) == In(100..60000, OptInt(text, "poll_interval_ms", 3000))

\* Where the timing comes from.
LEMMA TimingRead ==
    ASSUME NEW text
    PROVE  Timing(text) = AllOf([poll_interval_ms |-> PollInterval(text),
               critical_temperature_c |-> In(1..130, OptInt(text, "critical_temperature_c", 90)),
               read_words |-> OptBool(text, "read_words", TRUE)])
BY DEF Timing, PollInterval

\* The critical temperature that is accepted (config_parse_timing).
LEMMA TimingInRange ==
    ASSUME NEW text \in Seq(Token), NEW timing \in Timing(text)
    PROVE  timing.critical_temperature_c \in 1..130
  <1> DEFINE found == [poll_interval_ms |-> PollInterval(text),
           critical_temperature_c |-> In(1..130, OptInt(text, "critical_temperature_c", 90)),
           read_words |-> OptBool(text, "read_words", TRUE)]
  <1>1. timing \in AllOf(found)
    BY TimingRead
  <1>2. "critical_temperature_c" \in DOMAIN found
    OBVIOUS
  <1>3. found["critical_temperature_c"] \subseteq 1..130
    BY DEF In
  <1> HIDE DEF found
  <1>4. timing["critical_temperature_c"] \in 1..130
    BY <1>1, <1>2, <1>3, AllOfFound
  <1>5. QED
    BY <1>4

\* Bounds that depend on the critical temperature, in those of the policy.
LEMMA WiderRanges ==
    ASSUME NEW critical \in 1..130
    PROVE  /\ \A v \in 1..critical : v \in -4..critical
           /\ \A v \in 0..critical : v \in 0..130
  <1>1. critical \in Int /\ critical <= 130
    OBVIOUS
  <1>2. ASSUME NEW v \in 1..critical PROVE v \in -4..critical
    BY <1>1, <1>2
  <1>3. ASSUME NEW v \in 0..critical PROVE v \in 0..130
    BY <1>1, <1>3
  <1>4. QED
    BY <1>2, <1>3

\* Where each number of the safety section comes from (config_parse_safety).
LEMMA SafetyNumbersRead ==
    ASSUME NEW text, NEW critical, NEW s \in SafetySection(text, critical),
           NEW k \in DOMAIN SafetyNumbers(critical)
    PROVE  LET number == SafetyNumbers(critical)[k]
           IN  IF Present(text, "safety")
               THEN s[k] \in Clamped(Section(text, "safety"), k, number[3], number[1], number[2])
               ELSE s[k] = number[3]
  <1> DEFINE numbers == SafetyNumbers(critical)
             safety == Section(text, "safety")
             full == [critical_full_speed |-> OptBool(safety, "critical_full_speed", TRUE)]
             found == [n \in DOMAIN numbers |->
                          Clamped(safety, n, numbers[n][3], numbers[n][1], numbers[n][2])]
             chosen == [n \in DOMAIN numbers |-> numbers[n][3]]
  <1>1. k \in DOMAIN numbers /\ k # "critical_full_speed"
    BY DEF SafetyNumbers
  <1>2. CASE Present(text, "safety")
    <2>1. s \in AllOf(Joined(full, found))
      BY <1>2 DEF SafetySection
    <2>2. DOMAIN full = {"critical_full_speed"} /\ DOMAIN found = DOMAIN numbers
      OBVIOUS
    <2>3. found[k] = Clamped(safety, k, numbers[k][3], numbers[k][1], numbers[k][2])
      BY <1>1
    <2> HIDE DEF full, found, numbers
    <2>4. \A n \in DOMAIN found \ DOMAIN full : s[n] \in found[n]
      BY <2>1, JoinedFound
    <2>5. s[k] \in found[k]
      BY <1>1, <2>2, <2>4
    <2>6. QED
      BY <1>2, <2>3, <2>5 DEF numbers
  <1>3. CASE ~Present(text, "safety")
    <2>1. s = Joined([critical_full_speed |-> TRUE], chosen)
      BY <1>3 DEF SafetySection
    <2>2. DOMAIN [critical_full_speed |-> TRUE] = {"critical_full_speed"}
      OBVIOUS
    <2>3. k \in DOMAIN chosen /\ chosen[k] = numbers[k][3]
      BY <1>1
    <2> HIDE DEF numbers, chosen
    <2>4. s[k] = chosen[k]
      BY <1>1, <2>1, <2>2, <2>3 DEF Joined
    <2>5. QED
      BY <1>3, <2>3, <2>4 DEF numbers
  <1>4. QED
    BY <1>2, <1>3

\* The section is in the ranges the fan policy assumes.
LEMMA SafetySectionInRange ==
    ASSUME NEW text \in Seq(Token), NEW critical \in 1..130, NEW s \in SafetySection(text, critical)
    PROVE  SafetyInRange(s, critical)
  <1> DEFINE numbers == SafetyNumbers(critical)
             safety == Section(text, "safety")
  <1>1. /\ \A v \in 1..critical : v \in -4..critical
        /\ \A v \in 0..critical : v \in 0..130
    BY WiderRanges
  <1>2. ASSUME Present(text, "safety") PROVE SafetyInRange(s, critical)
    <2>1. \A k \in DOMAIN numbers :
             s[k] \in Clamped(safety, k, numbers[k][3], numbers[k][1], numbers[k][2])
      BY <1>2, SafetyNumbersRead
    <2>2. safety \in Seq(Token)
      BY <1>2, FromIsText DEF Section
    <2>3. \A k \in DOMAIN numbers : /\ numbers[k][1] <= numbers[k][2] /\ numbers[k][1] \in Int
              /\ numbers[k][2] \in Int /\ numbers[k][3] \in Int
      BY DEF SafetyNumbers
    <2>4. \A k \in DOMAIN numbers : s[k] \in numbers[k][1] .. numbers[k][2]
      <3> HIDE DEF numbers
      <3>1. QED
        BY <2>1, <2>2, <2>3, ClampedInBounds
    <2>5. \A k \in {"min_speed_percent", "critical_speed_percent", "critical_step_percent",
                    "missing_temperature_speed_percent", "max_ec_read_failures",
                    "max_ec_write_failures"} :
             k \in DOMAIN numbers /\ numbers[k][1] = 1 /\ numbers[k][2] = 100
      BY DEF SafetyNumbers
    <2>6. /\ {"min_speed_temperature_c", "critical_consecutive_samples",
              "critical_release_temperature_c", "auto_ramp_up_percent",
              "auto_ramp_bypass_temperature_c"} \subseteq DOMAIN numbers
          /\ numbers["min_speed_temperature_c"][1] = 1
          /\ numbers["min_speed_temperature_c"][2] = 130
          /\ numbers["critical_consecutive_samples"][1] = 1
          /\ numbers["critical_consecutive_samples"][2] = 10
          /\ numbers["critical_release_temperature_c"][1] = 1
          /\ numbers["critical_release_temperature_c"][2] = critical
          /\ numbers["auto_ramp_up_percent"][1] = 0
          /\ numbers["auto_ramp_up_percent"][2] = 100
          /\ numbers["auto_ramp_bypass_temperature_c"][1] = 0
          /\ numbers["auto_ramp_bypass_temperature_c"][2] = critical
      BY DEF SafetyNumbers
    <2> HIDE DEF numbers
    <2>7. \A k \in {"min_speed_percent", "critical_speed_percent", "critical_step_percent",
                    "missing_temperature_speed_percent", "max_ec_read_failures",
                    "max_ec_write_failures"} : s[k] \in 1..100
      BY <2>4, <2>5, ZenonT(30)
    <2>8. s["min_speed_temperature_c"] \in 1..130
      BY <2>4, <2>6
    <2>9. s["critical_consecutive_samples"] \in 1..10
      BY <2>4, <2>6
    <2>10. s["critical_release_temperature_c"] \in 1..critical
      BY <2>4, <2>6
    <2>11. s["auto_ramp_up_percent"] \in 0..100
      BY <2>4, <2>6
    <2>12. s["auto_ramp_bypass_temperature_c"] \in 0..critical
      BY <2>4, <2>6
    <2>13. /\ s.critical_release_temperature_c \in -4..critical
          /\ s.auto_ramp_bypass_temperature_c \in 0..130
      BY <1>1, <2>10, <2>12
    <2>14. QED
      BY <2>7, <2>13, <2>8, <2>9, <2>11 DEF SafetyInRange
  <1>3. ASSUME ~Present(text, "safety") PROVE SafetyInRange(s, critical)
    <2>1. \A k \in DOMAIN numbers : s[k] = numbers[k][3]
      BY <1>3, SafetyNumbersRead
    <2>2. QED
      BY <2>1 DEF SafetyNumbers, SafetyInRange
  <1>4. QED
    BY <1>2, <1>3

-----------------------------------------------------------------------------
\* The other sections, init writes and presets

\* Where each value of the fan modes comes from (config_parse_fan_modes).
LEMMA FanModesRead ==
    ASSUME NEW text, NEW modes \in FanModes(text)
    PROVE  LET section == Section(text, "fan_modes")
           IN  \/ modes = <<>>
               \/ /\ Present(text, "fan_modes")
                  /\ DOMAIN modes = {"cpu_register", "gpu_register"} \cup DOMAIN FanModeDefaults
                  /\ \A k \in {"cpu_register", "gpu_register"} :
                        modes[k] \in Byte(IntKey(section, k))
                  /\ \A k \in DOMAIN FanModeDefaults :
                        modes[k] \in Byte(OptInt(section, k, FanModeDefaults[k]))
  <1> DEFINE section == Section(text, "fan_modes")
             registers == [k \in {"cpu_register", "gpu_register"} |-> Byte(IntKey(section, k))]
             values == [k \in DOMAIN FanModeDefaults |->
                           Byte(OptInt(section, k, FanModeDefaults[k]))]
  <1>1. modes = <<>> \/ (Present(text, "fan_modes") /\ modes \in AllOf(Joined(registers, values)))
    BY DEF FanModes
  <1>2. /\ DOMAIN registers = {"cpu_register", "gpu_register"}
        /\ DOMAIN values = DOMAIN FanModeDefaults
        /\ \A k \in DOMAIN registers : registers[k] = Byte(IntKey(section, k))
        /\ \A k \in DOMAIN values : values[k] = Byte(OptInt(section, k, FanModeDefaults[k]))
    OBVIOUS
  <1>3. DOMAIN values \ DOMAIN registers = DOMAIN values
    BY DEF FanModeDefaults
  <1> HIDE DEF registers, values
  <1>4. modes \in AllOf(Joined(registers, values)) =>
           /\ DOMAIN modes = DOMAIN registers \cup DOMAIN values
           /\ \A k \in DOMAIN registers : modes[k] \in registers[k]
           /\ \A k \in DOMAIN values : modes[k] \in values[k]
    BY <1>3, JoinedFound
  <1>5. QED
    BY <1>1, <1>2, <1>4

\* Every value and register of them is a byte.
LEMMA FanModesInRange ==
    ASSUME NEW text \in Seq(Token), NEW modes \in FanModes(text), modes # <<>>
    PROVE  /\ modes.cpu_auto_value \in 0..255 /\ modes.cpu_manual_value \in 0..255
           /\ modes.gpu_auto_value \in 0..255 /\ modes.gpu_manual_value \in 0..255
           /\ modes.cpu_register \in 0..255 /\ modes.gpu_register \in 0..255
  <1>1. /\ \A k \in {"cpu_register", "gpu_register"} : modes[k] \in 0..255
        /\ \A k \in DOMAIN FanModeDefaults : modes[k] \in 0..255
    BY FanModesRead DEF Byte, In
  <1>2. {"cpu_auto_value", "cpu_manual_value", "gpu_auto_value", "gpu_manual_value"}
            \subseteq DOMAIN FanModeDefaults
    BY DEF FanModeDefaults
  <1>3. QED
    BY <1>1, <1>2

\* The range of the keyboard's timeout, by name, too.
Seconds == 5..3600

LEMMA SecondsArePositive == \A t \in Seconds : t > 0
BY DEF Seconds

\* Where each value of the keyboard section comes from.
LEMMA KeyboardRead ==
    ASSUME NEW text, NEW light \in Keyboard(text), light # <<>>
    PROVE  LET section == Section(text, "keyboard_backlight")
           IN  /\ Present(text, "keyboard_backlight")
               /\ light.min_value < light.max_value
               /\ DOMAIN light = {"register", "max_value"} \cup DOMAIN KeyboardDefaults
               /\ light["register"] \in Byte(IntKey(section, "register"))
               /\ light["max_value"] \in Byte(IntKey(section, "max_value"))
               /\ light["min_value"] \in
                     Byte(OptInt(section, "min_value", KeyboardDefaults.min_value))
               /\ light["timeout_supported"] \in OptBool(section, "timeout_supported", FALSE)
               /\ light["timeout_default_enabled"] \in
                     OptBool(section, "timeout_default_enabled", FALSE)
               /\ light["timeout_seconds"] \in In(Seconds, OptInt(section, "timeout_seconds",
                                                         KeyboardDefaults.timeout_seconds))
  <1> DEFINE section == Section(text, "keyboard_backlight")
             found == [register |-> Byte(IntKey(section, "register")),
                       max_value |-> Byte(IntKey(section, "max_value")),
                       min_value |-> Byte(OptInt(section, "min_value", KeyboardDefaults.min_value)),
                       timeout_supported |-> OptBool(section, "timeout_supported", FALSE),
                       timeout_default_enabled |->
                           OptBool(section, "timeout_default_enabled", FALSE),
                       timeout_seconds |-> In(Seconds, OptInt(section, "timeout_seconds",
                                                    KeyboardDefaults.timeout_seconds))]
  <1>1. Keyboard(text) = IF ~Present(text, "keyboard_backlight") THEN {<<>>}
                         ELSE {k \in AllOf(found) : k.min_value < k.max_value}
    BY Zenon DEF Keyboard, Seconds
  <1>2. /\ DOMAIN found = {"register", "max_value"} \cup DOMAIN KeyboardDefaults
        /\ found["register"] = Byte(IntKey(section, "register"))
        /\ found["max_value"] = Byte(IntKey(section, "max_value"))
        /\ found["min_value"] = Byte(OptInt(section, "min_value", KeyboardDefaults.min_value))
        /\ found["timeout_supported"] = OptBool(section, "timeout_supported", FALSE)
        /\ found["timeout_default_enabled"] = OptBool(section, "timeout_default_enabled", FALSE)
        /\ found["timeout_seconds"] = In(Seconds, OptInt(section, "timeout_seconds",
                                                KeyboardDefaults.timeout_seconds))
    BY DEF KeyboardDefaults
  <1>3. {"register", "max_value", "min_value", "timeout_supported", "timeout_default_enabled",
         "timeout_seconds"} \subseteq DOMAIN found
    OBVIOUS
  <1> HIDE DEF found
  <1>4. /\ Present(text, "keyboard_backlight")
        /\ light \in AllOf(found) /\ light.min_value < light.max_value
    BY <1>1
  <1>5. DOMAIN light = DOMAIN found /\ \A k \in DOMAIN found : light[k] \in found[k]
    BY <1>4, AllOfFound
  <1> HIDE DEF section
  <1>6. QED
    BY <1>2, <1>3, <1>4, <1>5, Zenon DEF section

\* The levels are bytes in order, and the timeout lasts.
LEMMA KeyboardInRange ==
    ASSUME NEW text \in Seq(Token), NEW light \in Keyboard(text)
    PROVE  \/ light = <<>>
           \/ /\ light.min_value \in 0..255 /\ light.max_value \in 0..255
              /\ light.min_value < light.max_value
              /\ light.timeout_seconds > 0
  <1> DEFINE section == Section(text, "keyboard_backlight")
  <1>1. SUFFICES ASSUME light # <<>>
                 PROVE  /\ light["min_value"] \in 0..255 /\ light["max_value"] \in 0..255
                        /\ light.min_value < light.max_value
                        /\ light["timeout_seconds"] > 0
    OBVIOUS
  <1>2. /\ light.min_value < light.max_value
        /\ light["max_value"] \in Byte(IntKey(section, "max_value"))
        /\ light["min_value"] \in Byte(OptInt(section, "min_value", KeyboardDefaults.min_value))
        /\ light["timeout_seconds"] \in In(Seconds, OptInt(section, "timeout_seconds",
                                                  KeyboardDefaults.timeout_seconds))
    BY <1>1, KeyboardRead, Zenon
  <1>3. light["timeout_seconds"] \in Seconds
    BY <1>2, InFound
  <1>4. light["min_value"] \in 0..255 /\ light["max_value"] \in 0..255
    BY <1>2, ByteFound
  <1>5. QED
    BY <1>2, <1>3, <1>4, SecondsArePositive

\* A power source names a profile the file has.
LEMMA PowerSourcesKnown ==
    ASSUME NEW text \in Seq(Token), NEW profiles, NEW sources \in PowerSources(text, profiles),
           sources # <<>>
    PROVE  sources.ac \in Known(profiles) /\ sources.battery \in Known(profiles)
  <1> DEFINE section == Section(text, "power_source_profiles")
             found == [ac |-> In(Known(profiles), StringKey(section, "ac")),
                       battery |-> In(Known(profiles), StringKey(section, "battery")),
                       auto_apply |-> OptBool(section, "auto_apply", FALSE)]
  <1>1. sources \in AllOf(found)
    BY DEF PowerSources
  <1>2. /\ {"ac", "battery"} \subseteq DOMAIN found
        /\ found["ac"] \subseteq Known(profiles) /\ found["battery"] \subseteq Known(profiles)
    BY DEF In
  <1> HIDE DEF found
  <1>3. \A k \in DOMAIN found : sources[k] \in found[k]
    BY <1>1, FieldFound
  <1>4. QED
    BY <1>2, <1>3

\* A write of the start is made of bytes.
LEMMA InitWriteInRange ==
    ASSUME NEW text \in Seq(Token), NEW write \in InitWrite(text)
    PROVE  /\ write.register \in 0..255
           /\ write.value \in 0..255 /\ write.reset_value \in 0..255
  <1> DEFINE found == [register |-> Byte(IntKey(text, "register")),
                       value |-> Byte(IntKey(text, "value")),
                       reset_value |-> Byte(IntKey(text, "reset_value"))]
  <1>1. write \in AllOf(found)
    BY DEF InitWrite
  <1>2. /\ {"register", "value", "reset_value"} \subseteq DOMAIN found
        /\ found["register"] \subseteq 0..255
        /\ found["value"] \subseteq 0..255 /\ found["reset_value"] \subseteq 0..255
    BY DEF Byte, In
  <1> HIDE DEF found
  <1>3. \A k \in DOMAIN found : write[k] \in found[k]
    BY <1>1, FieldFound
  <1>4. QED
    BY <1>2, <1>3

\* The same for the list of them.
LEMMA InitWritesInRange ==
    ASSUME NEW text \in Seq(Token), NEW writes \in InitWriteList(text)
    PROVE  /\ Len(writes) \in Nat /\ DOMAIN writes = 1..Len(writes)
           /\ \A i \in DOMAIN writes :
                 /\ writes[i].register \in 0..255
                 /\ writes[i].value \in 0..255 /\ writes[i].reset_value \in 0..255
  <1> DEFINE items == Items(text, "init_writes", MaxWrites)
  <1>1. items \in Seq(Seq(Token))
    BY ItemsAreTexts DEF MaxWrites
  <1>2. Len(items) \in Nat /\ DOMAIN items = 1..Len(items)
        /\ \A i \in 1..Len(items) : items[i] \in Seq(Token)
    BY <1>1
  <1>3. writes \in AllOf([i \in DOMAIN items |-> InitWrite(items[i])])
    BY DEF InitWriteList
  <1> HIDE DEF items
  <1> DEFINE found == [i \in DOMAIN items |-> InitWrite(items[i])]
  <1>4. /\ Len(writes) = Len(items) /\ DOMAIN writes = 1..Len(items)
        /\ \A i \in 1..Len(items) : writes[i] \in InitWrite(items[i])
    <2>1. DOMAIN found = 1..Len(items) /\ \A i \in 1..Len(items) : found[i] = InitWrite(items[i])
      BY <1>2
    <2> HIDE DEF found
    <2>2. writes \in AllOf(found)
      BY <1>3 DEF found
    <2>3. QED
      BY <1>2, <2>1, <2>2, ListFound
  <1>5. QED
    BY <1>2, <1>4, InitWriteInRange

\* The speeds of a preset.
LEMMA PresetInRange ==
    ASSUME NEW text \in Seq(Token), NEW preset \in Preset(text)
    PROVE  preset.cpu \in 1..100 /\ preset.gpu \in 1..100
  <1> DEFINE found == [id |-> NonEmpty(StringKey(text, "id")),
                       cpu |-> In(1..100, IntKey(text, "cpu")),
                       gpu |-> In(1..100, IntKey(text, "gpu"))]
  <1>1. preset \in AllOf(found)
    BY DEF Preset
  <1>2. /\ {"cpu", "gpu"} \subseteq DOMAIN found
        /\ found["cpu"] \subseteq 1..100 /\ found["gpu"] \subseteq 1..100
    BY DEF In
  <1> HIDE DEF found
  <1>3. \A k \in DOMAIN found : preset[k] \in found[k]
    BY <1>1, FieldFound
  <1>4. QED
    BY <1>2, <1>3

\* The same for the list of them.
LEMMA PresetsInRange ==
    ASSUME NEW text \in Seq(Token), NEW presets \in PresetList(text)
    PROVE  \A i \in DOMAIN presets : presets[i].cpu \in 1..100 /\ presets[i].gpu \in 1..100
  <1> DEFINE items == Items(text, "presets", MaxPresets)
  <1>1. items \in Seq(Seq(Token))
    BY ItemsAreTexts DEF MaxPresets
  <1>2. Len(items) \in Nat /\ DOMAIN items = 1..Len(items)
        /\ \A i \in 1..Len(items) : items[i] \in Seq(Token)
    BY <1>1
  <1>3. presets \in AllOf([i \in DOMAIN items |-> Preset(items[i])])
    BY DEF PresetList
  <1> HIDE DEF items
  <1> DEFINE found == [i \in DOMAIN items |-> Preset(items[i])]
  <1>4. /\ Len(presets) = Len(items) /\ DOMAIN presets = 1..Len(items)
        /\ \A i \in 1..Len(items) : presets[i] \in Preset(items[i])
    <2>1. DOMAIN found = 1..Len(items) /\ \A i \in 1..Len(items) : found[i] = Preset(items[i])
      BY <1>2
    <2> HIDE DEF found
    <2>2. presets \in AllOf(found)
      BY <1>3 DEF found
    <2>3. QED
      BY <1>2, <2>1, <2>2, ListFound
  <1>5. QED
    BY <1>2, <1>4, PresetInRange

-----------------------------------------------------------------------------
\* Fans, and the whole file

Byte255 == 0..255

\* Every field outside D is one of those found for it.
LEMMA JoinedFields ==
    ASSUME NEW f, NEW g, NEW r, NEW D,
           \A k \in DOMAIN Joined(f, g) \ D : r[k] \in Joined(f, g)[k]
    PROVE  /\ \A k \in DOMAIN f \ D : r[k] \in f[k]
           /\ \A k \in DOMAIN g \ (D \cup DOMAIN f) : r[k] \in g[k]
  <1>1. DOMAIN Joined(f, g) = DOMAIN f \cup DOMAIN g
    BY DEF Joined
  <1>2. ASSUME NEW k \in DOMAIN f \ D PROVE r[k] \in f[k]
    <2>1. Joined(f, g)[k] = f[k]
      BY DEF Joined
    <2>2. QED
      BY <1>1, <2>1
  <1>3. ASSUME NEW k \in DOMAIN g \ (D \cup DOMAIN f) PROVE r[k] \in g[k]
    <2>1. Joined(f, g)[k] = g[k]
      BY DEF Joined
    <2>2. QED
      BY <1>1, <2>1
  <1>4. QED
    BY <1>2, <1>3

\* Where the fields of a fan come from (config_parse_fans).
LEMMA FanFields ==
    ASSUME NEW text \in Seq(Token), NEW fan \in FanEntry(text)
    PROVE  /\ \A k \in DOMAIN FanNumbers(text) : fan[k] \in FanNumbers(text)[k]
           /\ fan.sensor_power_control \in FanSensors(text).sensor_power_control
           /\ fan.curve \in Curve(text) /\ fan.write_register \in 0..255
           /\ RangesValid(fan)
  <1> DEFINE a == FanIdentity(text)
             b == FanSensors(text)
             c == FanRegisters(text)
             d == FanTemperatureRegisters(text)
             e == FanNumbers(text)
             g == [curve |-> Curve(text)]
  <1>1. fan \in AllOf(Joined(a, Joined(b, Joined(c, Joined(d, Joined(e, g)))))) /\ RangesValid(fan)
    BY DEF FanEntry
  <1>2. /\ DOMAIN a = {"id", "name", "sensor_group"}
        /\ DOMAIN b = {"keep_awake", "control_sensor_group", "sensor_power_control"}
        /\ DOMAIN c = {"read_register", "write_register"}
        /\ DOMAIN d = {"temperature_register", "control_temperature_register"}
        /\ DOMAIN e = {"read_min", "read_max", "write_min", "write_max", "reset_speed",
                       "missing_temperature_speed_percent"}
        /\ DOMAIN g = {"curve"} /\ g["curve"] = Curve(text)
        /\ c["write_register"] \subseteq 0..255
    BY DEF FanIdentity, FanSensors, FanRegisters, FanTemperatureRegisters, FanNumbers, Byte, In
  <1> HIDE DEF a, b, c, d, e, g
  <1> DEFINE j4 == Joined(e, g)
             j3 == Joined(d, j4)
             j2 == Joined(c, j3)
             j1 == Joined(b, j2)
             D1 == {} \cup DOMAIN a
             D2 == D1 \cup DOMAIN b
             D3 == D2 \cup DOMAIN c
             D4 == D3 \cup DOMAIN d
             D5 == D4 \cup DOMAIN e
  <1>3. \A k \in DOMAIN Joined(a, j1) \ {} : fan[k] \in Joined(a, j1)[k]
    <2> DEFINE j0 == Joined(a, j1)
    <2>1. fan \in AllOf(j0)
      BY <1>1
    <2> HIDE DEF j0
    <2>2. \A k \in DOMAIN j0 : fan[k] \in j0[k]
      BY <2>1, FieldFound
    <2>3. QED
      BY <2>2 DEF j0
  <1>4. \A k \in DOMAIN j1 \ D1 : fan[k] \in j1[k]
    <2> HIDE DEF j1
    <2>1. QED
      BY <1>3, JoinedFields
  <1>5. (\A k \in DOMAIN b \ D1 : fan[k] \in b[k]) /\ \A k \in DOMAIN j2 \ D2 : fan[k] \in j2[k]
    <2> HIDE DEF j2, D1
    <2>1. QED
      BY <1>4, JoinedFields
  <1>6. (\A k \in DOMAIN c \ D2 : fan[k] \in c[k]) /\ \A k \in DOMAIN j3 \ D3 : fan[k] \in j3[k]
    <2> HIDE DEF j3, D2
    <2>1. QED
      BY <1>5, JoinedFields
  <1>7. \A k \in DOMAIN j4 \ D4 : fan[k] \in j4[k]
    <2> HIDE DEF j4, D3
    <2>1. QED
      BY <1>6, JoinedFields
  <1>8. (\A k \in DOMAIN e \ D4 : fan[k] \in e[k]) /\ \A k \in DOMAIN g \ D5 : fan[k] \in g[k]
    <2> HIDE DEF D4
    <2>1. QED
      BY <1>7, JoinedFields
  <1>9. "sensor_power_control" \in DOMAIN b \ D1 /\ DOMAIN e \cap D4 = {} /\ "curve" \in DOMAIN g \ D5
        /\ "write_register" \in DOMAIN c \ D2
    BY <1>2
  <1> HIDE DEF D1, D2, D4, D5
  <1>10. fan["sensor_power_control"] \in b["sensor_power_control"]
    BY <1>5, <1>9
  <1>11. \A k \in DOMAIN e : fan[k] \in e[k]
    BY <1>8, <1>9
  <1>12. fan["curve"] \in Curve(text)
    BY <1>2, <1>8, <1>9
  <1>13. fan["write_register"] \in 0..255
    BY <1>2, <1>6, <1>9
  <1>14. QED
    BY <1>1, <1>10, <1>11, <1>12, <1>13 DEF b, e

\* A fan that is accepted (validate_fan_numeric_ranges).
LEMMA FanInRange ==
    ASSUME NEW text \in Seq(Token), NEW fan \in FanEntry(text)
    PROVE  /\ RangesValid(fan) /\ fan.curve # <<>>
           /\ fan.missing_temperature_speed_percent \in 0..100
           /\ fan.write_register \in Byte255
           /\ fan.write_max \in Byte255 /\ fan.reset_speed \in Byte255
           /\ fan.sensor_power_control \in {"on", "auto", ""}
  <1> DEFINE numbers == FanNumbers(text)
  <1>1. /\ {"missing_temperature_speed_percent", "write_min", "write_max", "reset_speed"}
                \subseteq DOMAIN numbers
        /\ numbers["missing_temperature_speed_percent"] \subseteq 0..100
        /\ numbers["write_min"] \subseteq Int /\ numbers["write_max"] \subseteq Int
        /\ numbers["reset_speed"] \subseteq Int
    <2>1. /\ OptInt(text, "write_min", 0) \subseteq Int
          /\ OptInt(text, "write_max", 100) \subseteq Int
          /\ OptInt(text, "reset_speed", 50) \subseteq Int
      BY OptIntIsInt
    <2>2. Clamped(text, "missing_temperature_speed_percent", 0, 0, 100) \subseteq 0..100
      <3>1. 0 \in Int /\ 100 \in Int /\ 0 <= 0 /\ 0 <= 100
        OBVIOUS
      <3>2. QED
        BY <3>1, ClampedInBounds, Zenon
    <2>3. QED
      BY <2>1, <2>2 DEF FanNumbers
  <1>2. \A k \in DOMAIN numbers : fan[k] \in numbers[k]
    BY FanFields
  <1> HIDE DEF numbers
  <1>3. fan.missing_temperature_speed_percent \in 0..100
    BY <1>1, <1>2
  <1>4. fan.write_min \in Int /\ fan.write_max \in Int /\ fan.reset_speed \in Int
    BY <1>1, <1>2
  <1>5. fan.curve # <<>>
    BY FanFields DEF Curve
  <1>6. fan.sensor_power_control \in {"on", "auto", ""}
    BY FanFields DEF FanSensors
  <1>7. RangesValid(fan)
    BY FanFields
  <1>8. fan.write_max \in Byte255 /\ fan.reset_speed \in Byte255
    <2>1. \A min \in Int, max \in Int, reset \in Int :
            0 <= min /\ min < max /\ max <= 100 /\ min <= reset /\ reset <= max
            => max \in Byte255 /\ reset \in Byte255
      BY DEF Byte255
    <2>2. /\ 0 <= fan.write_min /\ fan.write_min < fan.write_max /\ fan.write_max <= 100
          /\ fan.write_min <= fan.reset_speed /\ fan.reset_speed <= fan.write_max
      BY <1>7 DEF RangesValid
    <2>3. QED
      BY <1>4, <2>1, <2>2
  <1>9. fan.write_register \in Byte255
    BY FanFields DEF Byte255
  <1>10. QED
    BY <1>3, <1>5, <1>6, <1>7, <1>8, <1>9

\* A list of fans, each from an object of the file.
LEMMA FansFound ==
    ASSUME NEW text \in Seq(Token), NEW fans \in Fans(text)
    PROVE  /\ Len(fans) \in 1..MaxFans /\ DOMAIN fans = 1..Len(fans)
           /\ \A i \in DOMAIN fans : \E item \in Seq(Token) : fans[i] \in FanEntry(item)
  <1> DEFINE items == Items(text, "fans", MaxFans)
  <1>1. items \in Seq(Seq(Token)) /\ Len(items) <= MaxFans /\ MaxFans \in Nat
    BY ItemsAreTexts DEF MaxFans
  <1>2. Len(items) \in Nat /\ DOMAIN items = 1..Len(items)
        /\ \A i \in 1..Len(items) : items[i] \in Seq(Token)
    BY <1>1
  <1>3. fans \in AllOf([i \in DOMAIN items |-> FanEntry(items[i])]) /\ fans # <<>>
    BY DEF Fans
  <1> HIDE DEF items
  <1> DEFINE found == [i \in DOMAIN items |-> FanEntry(items[i])]
  <1>4. /\ Len(fans) = Len(items) /\ DOMAIN fans = 1..Len(items)
        /\ \A i \in 1..Len(items) : fans[i] \in FanEntry(items[i])
    <2>1. DOMAIN found = 1..Len(items) /\ \A i \in 1..Len(items) : found[i] = FanEntry(items[i])
      BY <1>2
    <2> HIDE DEF found
    <2>2. fans \in AllOf(found)
      BY <1>3 DEF found
    <2>3. QED
      BY <1>2, <2>1, <2>2, ListFound
  <1>5. Len(items) # 0
    BY <1>3, <1>4 DEF AllOf
  <1>6. Len(fans) \in 1..MaxFans
    BY <1>1, <1>2, <1>4, <1>5
  <1>7. QED
    BY <1>2, <1>4, <1>6

\* Each section of a configuration is its loader's.
LEMMA ConfigSections ==
    ASSUME NEW text, NEW cfg \in Load(text)
    PROVE  /\ cfg.timing \in Timing(text)
           /\ cfg.safety \in SafetySection(text, cfg.timing.critical_temperature_c)
           /\ cfg.fan_modes \in FanModes(text)
           /\ cfg.platform_profiles \in PlatformProfiles(text)
           /\ cfg.power_source_profiles \in PowerSources(text, cfg.platform_profiles)
           /\ cfg.keyboard_backlight \in Keyboard(text)
           /\ cfg.init_writes \in InitWriteList(text)
           /\ cfg.fans \in Fans(text) /\ cfg.presets \in PresetList(text)
  <1>1. PICK timing \in Timing(text) : cfg \in WithTiming(text, timing)
    BY DEF Load
  <1> DEFINE found(profiles) ==
                [identity |-> Identity(text), timing |-> {timing},
                  safety |-> SafetySection(text, timing.critical_temperature_c),
                  fan_modes |-> FanModes(text), platform_profiles |-> {profiles},
                  power_source_profiles |-> PowerSources(text, profiles),
                  keyboard_backlight |-> Keyboard(text), allowed_dmi |-> {AllowedDmi(text)},
                  init_writes |-> InitWriteList(text),
                  fans |-> Fans(text), presets |-> PresetList(text)]
  <1>2. PICK profiles \in PlatformProfiles(text) : cfg \in AllOf(found(profiles))
    BY <1>1 DEF WithTiming
  <1>3. \A k \in DOMAIN found(profiles) : cfg[k] \in found(profiles)[k]
    <2> HIDE DEF found
    <2>1. QED
      BY <1>2, FieldFound
  <1>4. cfg.timing = timing /\ cfg.platform_profiles = profiles
    BY <1>3
  <1>5. /\ cfg.safety \in SafetySection(text, timing.critical_temperature_c)
        /\ cfg.fan_modes \in FanModes(text)
        /\ cfg.power_source_profiles \in PowerSources(text, profiles)
        /\ cfg.keyboard_backlight \in Keyboard(text)
        /\ cfg.init_writes \in InitWriteList(text)
        /\ cfg.fans \in Fans(text) /\ cfg.presets \in PresetList(text)
    BY <1>3
  <1>6. QED
    BY <1>1, <1>4, <1>5

\* Whatever tokens a model file is made of, a configuration config_load accepts is
\* in the ranges the fan policy, the keyboard and the power profiles assume
\* (config_parse_*, config_optional_clamped_int_key, validate_fan_numeric_ranges).
THEOREM LoadedInRange ==
    ASSUME NEW text \in Seq(Token), NEW cfg \in Load(text)
    PROVE  InRange(cfg)
  <1>1. cfg.timing.critical_temperature_c \in 1..130
    BY ConfigSections, TimingInRange
  <1>2. SafetyInRange(cfg.safety, cfg.timing.critical_temperature_c)
    BY <1>1, ConfigSections, SafetySectionInRange
  <1>3. cfg.keyboard_backlight # <<>> =>
          /\ {cfg.keyboard_backlight.min_value, cfg.keyboard_backlight.max_value} \subseteq 0..255
          /\ cfg.keyboard_backlight.min_value < cfg.keyboard_backlight.max_value
          /\ cfg.keyboard_backlight.timeout_seconds > 0
    BY ConfigSections, KeyboardInRange
  <1>4. cfg.power_source_profiles # <<>> =>
          {cfg.power_source_profiles.ac, cfg.power_source_profiles.battery}
              \subseteq Known(cfg.platform_profiles)
    BY ConfigSections, PowerSourcesKnown
  <1>5. /\ Len(cfg.fans) \in 1..MaxFans
        /\ \A i \in DOMAIN cfg.fans :
              /\ RangesValid(cfg.fans[i]) /\ cfg.fans[i].curve # <<>>
              /\ cfg.fans[i].missing_temperature_speed_percent \in 0..100
    <2>1. cfg.fans \in Fans(text)
      BY ConfigSections
    <2>2. /\ Len(cfg.fans) \in 1..MaxFans
          /\ \A i \in DOMAIN cfg.fans : \E item \in Seq(Token) : cfg.fans[i] \in FanEntry(item)
      BY <2>1, FansFound
    <2>3. QED
      BY <2>2, FanInRange
  <1>6. \A i \in DOMAIN cfg.presets : {cfg.presets[i].cpu, cfg.presets[i].gpu} \subseteq 1..100
    BY ConfigSections, PresetsInRange
  <1>7. QED
    BY <1>1, <1>2, <1>3, <1>4, <1>5, <1>6 DEF InRange

-----------------------------------------------------------------------------
\* The registers main writes and what it asks of the sensors

\* Lists of <<register, value>>
WriteLists == Seq(Byte255 \X Byte255)

\* A list of byte writes leaves bytes in the registers.
LEMMA WrittenKeepsBytes ==
    ASSUME regs \in [Registers -> 0..255], NEW list \in WriteLists, NEW F
    PROVE  Written(list, F) \in [Registers -> 0..255]
  <1> SUFFICES ASSUME NEW r \in DOMAIN regs, r \notin F, {i \in DOMAIN list : list[i][1] = r} # {}
               PROVE  list[Max({i \in DOMAIN list : list[i][1] = r})][2] \in 0..255
    BY DEF Written
  <1> DEFINE writes == {i \in DOMAIN list : list[i][1] = r}
  <1>1. Len(list) \in Nat /\ DOMAIN list = 1..Len(list)
    BY DEF WriteLists
  <1>2. writes \in SUBSET Nat /\ \A i \in writes : i <= Len(list)
    BY <1>1
  <1>3. Max(writes) \in writes
    <2> HIDE DEF writes
    <2>1. writes # {}
      BY DEF writes
    <2>2. QED
      BY <1>1, <1>2, <2>1, MaxOf
  <1>4. list[Max(writes)] \in Byte255 \X Byte255
    <2> HIDE DEF writes
    <2>1. Max(writes) \in DOMAIN list
      BY <1>3 DEF writes
    <2>2. QED
      BY <2>1 DEF WriteLists
  <1>5. QED
    BY <1>4 DEF Byte255

\* Lists stay lists in reverse and one behind the other.
LEMMA ReverseIsList == ASSUME NEW list \in WriteLists PROVE Reverse(list) \in WriteLists
  <1>1. Len(list) \in Nat /\ \A i \in 1..Len(list) : list[i] \in Byte255 \X Byte255
    BY DEF WriteLists
  <1>2. \A i \in 1..Len(list) : Len(list) - i + 1 \in 1..Len(list)
    BY <1>1
  <1>3. \A i \in 1..Len(list) : list[Len(list) - i + 1] \in Byte255 \X Byte255
    BY <1>1, <1>2
  <1>4. QED
    BY <1>1, <1>3 DEF Reverse, WriteLists

\* What a model file that loads is made of, as main uses it.
LEMMA LoadedWrites ==
    ASSUME NEW d \in Documents, NEW cfg \in Configs[d]
    PROVE  /\ Len(cfg.init_writes) \in Nat /\ DOMAIN cfg.init_writes = 1..Len(cfg.init_writes)
           /\ \A i \in DOMAIN cfg.init_writes :
                 /\ cfg.init_writes[i].register \in Byte255
                 /\ cfg.init_writes[i].value \in Byte255
                 /\ cfg.init_writes[i].reset_value \in Byte255
           /\ Len(cfg.fans) \in Nat /\ DOMAIN cfg.fans = 1..Len(cfg.fans)
           /\ \A i \in DOMAIN cfg.fans :
                 /\ cfg.fans[i].write_register \in Byte255
                 /\ cfg.fans[i].write_max \in Byte255 /\ cfg.fans[i].reset_speed \in Byte255
                 /\ cfg.fans[i].sensor_power_control \in {"on", "auto", ""}
           /\ cfg.fan_modes # <<>> =>
                 /\ cfg.fan_modes.cpu_register \in Byte255
                 /\ cfg.fan_modes.gpu_register \in Byte255
                 /\ cfg.fan_modes.cpu_auto_value \in Byte255
                 /\ cfg.fan_modes.cpu_manual_value \in Byte255
                 /\ cfg.fan_modes.gpu_auto_value \in Byte255
                 /\ cfg.fan_modes.gpu_manual_value \in Byte255
  <1>1. Text[d] \in Seq(Token) /\ cfg \in Load(Text[d])
    BY LifecycleAssumption DEF Configs
  <1> DEFINE writes == cfg.init_writes
             fans == cfg.fans
             modes == cfg.fan_modes
             text == Text[d]
  <1>2. text \in Seq(Token) /\ writes \in InitWriteList(text) /\ fans \in Fans(text) /\ modes \in FanModes(text)
    BY <1>1, ConfigSections
  <1> HIDE DEF writes, fans, modes, text
  <1>3. /\ Len(writes) \in Nat /\ DOMAIN writes = 1..Len(writes)
        /\ \A i \in DOMAIN writes :
              /\ writes[i].register \in 0..255
              /\ writes[i].value \in 0..255 /\ writes[i].reset_value \in 0..255
    BY <1>2, InitWritesInRange
  <1>4. /\ Len(fans) \in 1..MaxFans /\ DOMAIN fans = 1..Len(fans)
        /\ \A i \in DOMAIN fans : \E item \in Seq(Token) : fans[i] \in FanEntry(item)
    BY <1>2, FansFound
  <1>5. Len(fans) \in Nat
    <2>1. \A n \in 1..MaxFans : n \in Nat
      BY DEF MaxFans
    <2>2. Len(fans) \in 1..MaxFans
      BY <1>4
    <2>3. QED
      BY <2>1, <2>2
  <1>6. modes # <<>> =>
           /\ modes.cpu_auto_value \in 0..255 /\ modes.cpu_manual_value \in 0..255
           /\ modes.gpu_auto_value \in 0..255 /\ modes.gpu_manual_value \in 0..255
           /\ modes.cpu_register \in 0..255 /\ modes.gpu_register \in 0..255
    BY <1>2, FanModesInRange
  <1>7. /\ \A i \in DOMAIN writes :
              /\ writes[i].register \in Byte255
              /\ writes[i].value \in Byte255 /\ writes[i].reset_value \in Byte255
    BY <1>3 DEF Byte255
  <1>8. /\ \A i \in DOMAIN fans :
              /\ fans[i].write_register \in Byte255
              /\ fans[i].write_max \in Byte255 /\ fans[i].reset_speed \in Byte255
              /\ fans[i].sensor_power_control \in {"on", "auto", ""}
    BY <1>4, FanInRange
  <1>9. QED
    BY <1>3, <1>4, <1>5, <1>6, <1>7, <1>8 DEF writes, fans, modes, Byte255

\* What main writes, list by list.
LEMMA InitWritesAreList ==
    ASSUME NEW d \in Documents, NEW cfg \in Configs[d] PROVE InitWrites(cfg) \in WriteLists
  <1> DEFINE writes == cfg.init_writes
  <1>1. /\ Len(writes) \in Nat /\ DOMAIN writes = 1..Len(writes)
        /\ \A i \in DOMAIN writes : <<writes[i].register, writes[i].value>> \in Byte255 \X Byte255
    BY LoadedWrites
  <1> HIDE DEF writes
  <1>2. [i \in DOMAIN writes |-> <<writes[i].register, writes[i].value>>] \in WriteLists
    BY <1>1 DEF WriteLists
  <1>3. QED
    BY <1>2 DEF InitWrites, writes

LEMMA SpeedWritesAreList ==
    ASSUME NEW d \in Documents, NEW cfg \in Configs[d] PROVE SpeedWrites(cfg) \in WriteLists
  <1> DEFINE fans == cfg.fans
  <1>1. /\ Len(fans) \in Nat /\ DOMAIN fans = 1..Len(fans)
        /\ \A i \in DOMAIN fans : <<fans[i].write_register, fans[i].write_max>> \in Byte255 \X Byte255
    BY LoadedWrites
  <1> HIDE DEF fans
  <1>2. [i \in DOMAIN fans |-> <<fans[i].write_register, fans[i].write_max>>] \in WriteLists
    BY <1>1 DEF WriteLists
  <1>3. QED
    BY <1>2 DEF SpeedWrites, fans

LEMMA ModeWritesAreList ==
    ASSUME NEW d \in Documents, NEW cfg \in Configs[d], NEW mode
    PROVE  ModeWrites(cfg, mode) \in WriteLists
  <1>1. CASE cfg.fan_modes = <<>>
    BY <1>1 DEF ModeWrites, WriteLists
  <1>2. CASE cfg.fan_modes # <<>>
    <2>1. \A a, b, v, w \in Byte255 : <<<<a, v>>, <<b, w>>>> \in WriteLists
      BY DEF WriteLists
    <2>2. /\ cfg.fan_modes.cpu_register \in Byte255 /\ cfg.fan_modes.gpu_register \in Byte255
          /\ cfg.fan_modes.cpu_auto_value \in Byte255 /\ cfg.fan_modes.cpu_manual_value \in Byte255
          /\ cfg.fan_modes.gpu_auto_value \in Byte255 /\ cfg.fan_modes.gpu_manual_value \in Byte255
      BY <1>2, LoadedWrites
    <2>3. QED
      BY <1>2, <2>1, <2>2, Zenon DEF ModeWrites
  <1>3. QED
    BY <1>1, <1>2

LEMMA ResetWritesAreList ==
    ASSUME NEW d \in Documents, NEW cfg \in Configs[d] PROVE ResetWrites(cfg) \in WriteLists
  <1> DEFINE writes == cfg.init_writes
             fans == cfg.fans
             speeds == [i \in DOMAIN fans |-> <<fans[i].write_register, fans[i].reset_speed>>]
             values == [i \in DOMAIN writes |-> <<writes[i].register, writes[i].reset_value>>]
  <1>1. /\ Len(writes) \in Nat /\ DOMAIN writes = 1..Len(writes)
        /\ \A i \in DOMAIN writes : <<writes[i].register, writes[i].reset_value>> \in Byte255 \X Byte255
    BY LoadedWrites
  <1>2. /\ Len(fans) \in Nat /\ DOMAIN fans = 1..Len(fans)
        /\ \A i \in DOMAIN fans : <<fans[i].write_register, fans[i].reset_speed>> \in Byte255 \X Byte255
    BY LoadedWrites
  <1> HIDE DEF fans, writes
  <1>3. speeds \in WriteLists
    BY <1>2 DEF WriteLists
  <1>4. values \in WriteLists
    BY <1>1 DEF WriteLists
  <1>5. ResetWrites(cfg) = Reverse(speeds) \o Reverse(values)
    BY DEF ResetWrites, fans, writes
  <1> HIDE DEF speeds, values
  <1>6. Reverse(speeds) \in WriteLists /\ Reverse(values) \in WriteLists
    BY <1>3, <1>4, ReverseIsList
  <1>7. QED
    BY <1>5, <1>6 DEF WriteLists

LEMMA JoinedLists ==
    ASSUME NEW l \in WriteLists, NEW m \in WriteLists PROVE l \o m \in WriteLists
BY DEF WriteLists

\* apply_sensor_power_control leaves on or auto behind.
LEMMA PowerSetKeepsControls ==
    ASSUME power \in [{"cpu", "gpu"} -> {"auto", "on"}], NEW d \in Documents, NEW cfg \in Configs[d],
           NEW control \in {"auto", "on"}, NEW G
    PROVE  PowerSet(cfg, control, G) \in [{"cpu", "gpu"} -> {"auto", "on"}]
  <1> DEFINE fansOf(g) == {i \in DOMAIN cfg.fans : /\ g \in Devices(cfg.fans[i].sensor_group)
                                             /\ PowerWanted(cfg.fans[i], control) # ""}
  <1> SUFFICES ASSUME NEW g \in {"cpu", "gpu"}, fansOf(g) # {}
               PROVE  PowerWanted(cfg.fans[Max(fansOf(g))], control) \in {"auto", "on"}
    BY DEF PowerSet
  <1>1. Len(cfg.fans) \in Nat /\ DOMAIN cfg.fans = 1..Len(cfg.fans)
    BY LoadedWrites
  <1>2. fansOf(g) \in SUBSET Nat /\ \A i \in fansOf(g) : i <= Len(cfg.fans)
    <2>1. fansOf(g) \subseteq DOMAIN cfg.fans
      OBVIOUS
    <2> HIDE DEF fansOf
    <2>2. QED
      BY <1>1, <2>1
  <1>3. Max(fansOf(g)) \in fansOf(g)
    <2> HIDE DEF fansOf
    <2>1. QED
      BY <1>1, <1>2, MaxOf
  <1>4. cfg.fans[Max(fansOf(g))].sensor_power_control \in {"on", "auto", ""}
    BY <1>3, LoadedWrites
  <1>5. PowerWanted(cfg.fans[Max(fansOf(g))], control) # ""
    BY <1>3
  <1> HIDE DEF fansOf
  <1>6. QED
    BY <1>4, <1>5 DEF PowerWanted

-----------------------------------------------------------------------------
\* The state file

LEMMA NextIsFileStep == Next => [FileNext]_fileVars
  <1> SUFFICES ASSUME Next PROVE FileNext \/ UNCHANGED fileVars
    OBVIOUS
  <1>1. CASE Start \/ Misused \/ Refuse \/ Configure \/ Look \/ MakeDirectories \/ OpenEc
    BY <1>1 DEF Start, Misused, Refuse, Configure, Look, MakeDirectories, OpenEc, Keep
  <1>2. CASE Bind \/ Listen \/ ApplyInitWrites \/ SensorsOn \/ Restore
    BY <1>2 DEF Bind, Listen, ApplyInitWrites, SensorsOn, Restore
  <1>3. CASE EnterDefault
    <2>1. PICK cfg, F : (\E c \in Default(cfg, F).saved : BeginSave(c)) \/ UNCHANGED fileVars
      BY <1>3 DEF EnterDefault
    <2>2. Default(cfg, F).saved \subseteq Texts
      BY LifecycleAssumption DEF Default, Owners
    <2>3. QED
      BY <2>1, <2>2 DEF FileNext
  <1>4. CASE Choose
    BY <1>4, LifecycleAssumption DEF Choose, FileNext
  <1>5. CASE Save
    BY <1>5 DEF Save, FileNext
  <1>6. CASE Stop \/ LeaveLoop \/ Reset \/ SensorsAuto \/ CloseSocket \/ UnlinkSocket
    BY <1>6 DEF Stop, LeaveLoop, Reset, SensorsAuto, CloseSocket, UnlinkSocket
  <1>7. CASE Crash \/ PowerLoss \/ Kernel
    BY <1>7 DEF Crash, PowerLoss, Kernel, FileNext
  <1>8. QED
    BY <1>1, <1>2, <1>3, <1>4, <1>5, <1>6, <1>7 DEF Next

LEMMA LifeOfFile == Spec => FileSpec
  <1>1. Init => FileInit
    BY DEF Init
  <1>2. [Next]_vars => [FileNext]_fileVars
    BY NextIsFileStep DEF vars, fileVars
  <1>3. QED
    BY <1>1, <1>2, PTL DEF Spec, FileSpec

\* The state file is replaced atomically through every start, command, crash,
\* power loss and restart of the daemon, for every model file, argument vector
\* and machine (main, write_control_state, write_text_file_atomic).
THEOREM LifeKeepsStateFile == Spec => ImplementsAtomicFile
BY LifeOfFile, StateFileIsAtomic

-----------------------------------------------------------------------------
\* Type correctness

\* TypeOK but for the state file's part, which StateFileProofs has.
LifeTypes ==
    /\ phase \in Phases
    /\ args.path \in Paths /\ args.options \subseteq Options
    /\ loaded \in Documents \cup {"none"}
    /\ (loaded = "none") = (phase \in {"off", "load"})
    /\ running \in BOOLEAN
    /\ socket \in {"none", "dead", "live"}
    /\ regs \in [Registers -> 0..255]
    /\ power \in [{"cpu", "gpu"} -> {"auto", "on"}]

\* args_parse: every option is one it knows.
LEMMA ParseTypes ==
    ASSUME NEW line \in Lines
    PROVE  Parse(line).path \in Paths /\ Parse(line).options \subseteq Options
  <1>1. Parse(line).options \subseteq Options
    BY DEF Parse
  <1>2. line \in Seq(STRING) /\ \A i \in Operands(line) : line[i] \in Paths
    BY LifecycleAssumption
  <1>3. Len(line) \in Nat /\ Operands(line) \in SUBSET Nat /\ \A i \in Operands(line) : i <= Len(line)
    BY <1>2 DEF Operands
  <1>4. Operands(line) # {} => Max(Operands(line)) \in Operands(line)
    BY <1>3, MaxOf
  <1>5. Parse(line).path \in Paths
    BY <1>2, <1>4 DEF Parse, Paths
  <1>6. QED
    BY <1>1, <1>5

LEMMA InitTypes == Init => LifeTypes
  <1> SUFFICES ASSUME Init PROVE LifeTypes
    OBVIOUS
  <1>1. phase \in Phases /\ args.path \in Paths /\ args.options \subseteq Options
    BY DEF Init, NoArgs, Phases, Paths
  <1>2. regs \in [Registers -> 0..255] /\ power \in [{"cpu", "gpu"} -> {"auto", "on"}]
    BY LifecycleAssumption DEF Init, AtBoot
  <1>3. loaded = "none" /\ phase = "off" /\ running \in BOOLEAN /\ socket = "none"
    BY DEF Init
  <1>4. QED
    BY <1>1, <1>2, <1>3 DEF LifeTypes

\* Steps that leave main.
LEMMA ExitTypes ==
    ASSUME LifeTypes, NEW how, Exit(how), socket' \in {"none", "dead", "live"},
           regs' \in [Registers -> 0..255], power' \in [{"cpu", "gpu"} -> {"auto", "on"}]
    PROVE  LifeTypes'
BY DEF LifeTypes, Exit, NoArgs, Phases, Paths

\* A step that stays where the configuration is loaded, or not.
LEMMA GoOnTypes ==
    ASSUME LifeTypes, phase \notin {"off", "load"}, phase' \in Phases \ {"off", "load"},
           args' = args, loaded' = loaded, running' \in BOOLEAN,
           socket' \in {"none", "dead", "live"},
           regs' \in [Registers -> 0..255], power' \in [{"cpu", "gpu"} -> {"auto", "on"}]
    PROVE  LifeTypes'
BY DEF LifeTypes

\* Whoever has left config_load has a file.
LEMMA LoadedIsDocument ==
    ASSUME LifeTypes, phase \notin {"off", "load"} PROVE loaded \in Documents
BY DEF LifeTypes

\* The fans' registers after each way of taking them.
LEMMA TakenBytes ==
    ASSUME LifeTypes, NEW d \in Documents, NEW cfg \in Configs[d], NEW mode, NEW F
    PROVE  /\ Taken(cfg, mode, F) \in [Registers -> 0..255]
           /\ ModeTaken(cfg, mode, F) \in [Registers -> 0..255]
  <1>1. regs \in [Registers -> 0..255]
    BY DEF LifeTypes
  <1>2. ModeWrites(cfg, mode) \in WriteLists /\ SpeedWrites(cfg) \in WriteLists /\ <<>> \in WriteLists
    BY ModeWritesAreList, SpeedWritesAreList DEF WriteLists
  <1>3. ModeTaken(cfg, mode, F) \in [Registers -> 0..255]
    BY <1>1, <1>2, WrittenKeepsBytes DEF ModeTaken
  <1> DEFINE list == ModeWrites(cfg, mode) \o (IF mode = "auto" THEN <<>> ELSE SpeedWrites(cfg))
  <1>4. list \in WriteLists
    BY <1>2, JoinedLists
  <1> HIDE DEF list
  <1>5. Written(list, F \cup ModeFaults(cfg, mode, F)) \in [Registers -> 0..255]
    BY <1>1, <1>4, WrittenKeepsBytes
  <1>6. QED
    BY <1>3, <1>5 DEF Taken, list

LEMMA RestoredBytes ==
    ASSUME LifeTypes, NEW d \in Documents, NEW cfg \in Configs[d], NEW c, NEW F
    PROVE  Restored(cfg, c, F) \in [Registers -> 0..255]
  <1>1. Taken(cfg, FanModeOf(c), F) \in [Registers -> 0..255]
    BY TakenBytes
  <1> DEFINE list == ModeWrites(cfg, "auto") \o ModeWrites(cfg, "manual")
  <1>2. list \in WriteLists
    BY ModeWritesAreList, JoinedLists
  <1>3. regs \in [Registers -> 0..255]
    BY DEF LifeTypes
  <1> HIDE DEF list
  <1>4. Written(list, ModeFaults(cfg, "auto", F)) \in [Registers -> 0..255]
    BY <1>2, <1>3, WrittenKeepsBytes
  <1>5. QED
    BY <1>1, <1>4 DEF Restored, list

LEMMA DefaultBytes ==
    ASSUME LifeTypes, NEW d \in Documents, NEW cfg \in Configs[d], NEW F
    PROVE  Default(cfg, F).regs \in [Registers -> 0..255]
  <1>1. regs \in [Registers -> 0..255]
    BY DEF LifeTypes
  <1>2. Written(SpeedWrites(cfg), F) \in [Registers -> 0..255]
    BY <1>1, SpeedWritesAreList, WrittenKeepsBytes
  <1>3. /\ ModeTaken(cfg, "manual", F) \in [Registers -> 0..255]
        /\ ModeTaken(cfg, "auto", F) \in [Registers -> 0..255]
    BY TakenBytes
  <1>4. Default(cfg, F).regs \in {ModeTaken(cfg, "manual", F), ModeTaken(cfg, "auto", F),
                                  Written(SpeedWrites(cfg), F), regs}
    BY DEF Default
  <1>5. QED
    BY <1>1, <1>2, <1>3, <1>4

\* config_load never returns a missing file.
LEMMA UsableIsDocument ==
    ASSUME NEW files, NEW d \in Usable(files) PROVE d \in Documents /\ d # "none"
BY LifecycleAssumption DEF Usable, Loads

\* Every step keeps the types.
LEMMA NextTypes == LifeTypes /\ [Next]_vars => LifeTypes'
  <1> SUFFICES ASSUME LifeTypes, [Next]_vars PROVE LifeTypes'
    OBVIOUS
  <1>1. /\ socket \in {"none", "dead", "live"} /\ regs \in [Registers -> 0..255]
        /\ power \in [{"cpu", "gpu"} -> {"auto", "on"}] /\ running \in BOOLEAN /\ phase \in Phases
    BY DEF LifeTypes
  <1>2. CASE Start
    <2>1. PICK line \in Lines : args' = Parse(line)
      BY <1>2 DEF Start
    <2>2. args'.path \in Paths /\ args'.options \subseteq Options
      BY <2>1, ParseTypes
    <2>3. phase = "off" /\ phase' = "load" /\ UNCHANGED <<loaded, running, socket, regs, power>>
      BY <1>2 DEF Start, machineVars
    <2>4. QED
      BY <2>2, <2>3 DEF LifeTypes, Phases
  <1>3. CASE Misused \/ Refuse \/ Look
    <2>1. Exit("early") /\ UNCHANGED <<socket, regs, power>>
      BY <1>3 DEF Misused, Refuse, Look, Keep
    <2>2. QED
      BY <1>1, <2>1, ExitTypes
  <1>4. CASE Configure
    <2>1. UNCHANGED <<socket, regs, power>>
      BY <1>4 DEF Configure, Keep
    <2>2. CASE Exit("early")
      BY <1>1, <2>1, <2>2, ExitTypes
    <2>3. CASE ~Exit("early")
      <3>1. PICK files \in Installed : \E d \in Usable(files) :
               /\ phase' \in {"tools", "directories"}
               /\ loaded' = d /\ running' = TRUE /\ args' = NoArgs
        BY <1>4, <2>3 DEF Configure, Enter
      <3>2. PICK d \in Usable(files) : /\ phase' \in {"tools", "directories"}
                                       /\ loaded' = d /\ running' = TRUE /\ args' = NoArgs
        BY <3>1
      <3>3. d \in Documents /\ d # "none"
        BY UsableIsDocument
      <3>4. QED
        BY <1>1, <2>1, <3>2, <3>3 DEF LifeTypes, NoArgs, Paths, Phases
    <2>4. QED
      BY <2>2, <2>3
  <1>5. CASE MakeDirectories \/ OpenEc
    <2>1. UNCHANGED <<socket, regs, power>>
      BY <1>5 DEF MakeDirectories, OpenEc, Keep
    <2>2. CASE Exit("early")
      BY <1>1, <2>1, <2>2, ExitTypes
    <2>3. CASE ~Exit("early")
      <3>1. /\ phase \notin {"off", "load"} /\ phase' \in Phases \ {"off", "load"}
            /\ UNCHANGED <<args, loaded, running>>
        BY <1>5, <2>3 DEF MakeDirectories, OpenEc, Enter, processVars, Phases
      <3>2. QED
        BY <1>1, <2>1, <3>1, GoOnTypes
    <2>4. QED
      BY <2>2, <2>3
  <1>6. CASE Bind \/ Listen
    <2>1. UNCHANGED <<regs, power>> /\ socket' \in {"none", "dead", "live"}
      BY <1>1, <1>6 DEF Bind, Listen
    <2>2. CASE Exit("early")
      BY <1>1, <2>1, <2>2, ExitTypes
    <2>3. CASE ~Exit("early")
      <3>1. /\ phase \notin {"off", "load"} /\ phase' \in Phases \ {"off", "load"}
            /\ UNCHANGED <<args, loaded, running>>
        BY <1>6, <2>3 DEF Bind, Listen, Enter, processVars, Phases
      <3>2. QED
        BY <1>1, <2>1, <3>1, GoOnTypes
    <2>4. QED
      BY <2>2, <2>3
  <1>7. CASE ApplyInitWrites
    <2>1. /\ phase \notin {"off", "load"} /\ phase' \in Phases \ {"off", "load"}
          /\ UNCHANGED <<args, loaded, running, socket, power>>
      BY <1>7 DEF ApplyInitWrites, Enter, processVars, Phases
    <2>2. loaded \in Documents
      BY <2>1, LoadedIsDocument
    <2>3. regs' \in [Registers -> 0..255]
      BY <1>1, <1>7, <2>2, InitWritesAreList, WrittenKeepsBytes DEF ApplyInitWrites
    <2>4. QED
      BY <1>1, <2>1, <2>3, GoOnTypes
  <1>8. CASE Restore
    <2>1. /\ phase \notin {"off", "load"} /\ phase' \in Phases \ {"off", "load"}
          /\ UNCHANGED <<args, loaded, running, socket, power>>
      BY <1>8 DEF Restore, Enter, processVars, Phases
    <2>2. loaded \in Documents
      BY <2>1, LoadedIsDocument
    <2>3. regs' \in [Registers -> 0..255]
      BY <1>8, <2>2, RestoredBytes DEF Restore
    <2>4. QED
      BY <1>1, <2>1, <2>3, GoOnTypes
  <1>9. CASE EnterDefault
    <2>1. /\ phase \notin {"off", "load"} /\ phase' \in Phases \ {"off", "load"}
          /\ UNCHANGED <<args, loaded, running, socket, power>>
      BY <1>9 DEF EnterDefault, Enter, processVars, Phases
    <2>2. loaded \in Documents
      BY <2>1, LoadedIsDocument
    <2>3. regs' \in [Registers -> 0..255]
      BY <1>9, <2>2, DefaultBytes DEF EnterDefault
    <2>4. QED
      BY <1>1, <2>1, <2>3, GoOnTypes
  <1>10. CASE Choose
    <2>1. /\ phase \notin {"off", "load"} /\ phase' \in Phases \ {"off", "load"}
          /\ UNCHANGED <<args, loaded, running, socket, power>>
      BY <1>10 DEF Choose, Settled, processVars, Phases
    <2>2. loaded \in Documents
      BY <2>1, LoadedIsDocument
    <2>3. regs' \in [Registers -> 0..255]
      <3>1. PICK cfg \in Configs[loaded], c \in Owners, F \in WriteFaults :
               regs' = Taken(cfg, FanModeOf(c), F) \/ regs' = ModeTaken(cfg, FanModeOf(c), F)
        BY <1>10 DEF Choose
      <3>2. QED
        BY <2>2, <3>1, TakenBytes
    <2>4. QED
      BY <1>1, <2>1, <2>3, GoOnTypes
  <1>11. CASE Reset
    <2>1. /\ phase \notin {"off", "load"} /\ phase' \in Phases \ {"off", "load"}
          /\ UNCHANGED <<args, loaded, running, socket, power>>
      BY <1>11 DEF Reset, Enter, processVars, Phases
    <2>2. loaded \in Documents
      BY <2>1, LoadedIsDocument
    <2>3. regs' \in [Registers -> 0..255]
      BY <1>1, <1>11, <2>2, ResetWritesAreList, WrittenKeepsBytes DEF Reset
    <2>4. QED
      BY <1>1, <2>1, <2>3, GoOnTypes
  <1>12. CASE SensorsOn \/ SensorsAuto
    <2>1. /\ phase \notin {"off", "load"} /\ phase' \in Phases \ {"off", "load"}
          /\ UNCHANGED <<args, loaded, running, socket, regs>>
      BY <1>12 DEF SensorsOn, SensorsAuto, Enter, processVars, Phases
    <2>2. loaded \in Documents
      BY <2>1, LoadedIsDocument
    <2>3. power' \in [{"cpu", "gpu"} -> {"auto", "on"}]
      BY <1>1, <1>12, <2>2, PowerSetKeepsControls DEF SensorsOn, SensorsAuto
    <2>4. QED
      BY <1>1, <2>1, <2>3, GoOnTypes
  <1>13. CASE Save \/ Stop \/ LeaveLoop \/ CloseSocket
    <2>1. /\ phase \notin {"off", "load"} /\ phase' \in Phases \ {"off", "load"}
          /\ UNCHANGED <<args, loaded, regs, power>>
      BY <1>13 DEF Save, Stop, LeaveLoop, CloseSocket, Settled, Enter, processVars, machineVars,
                   Phases
    <2>2. running' \in BOOLEAN /\ socket' \in {"none", "dead", "live"}
      BY <1>1, <1>13 DEF Save, Stop, LeaveLoop, CloseSocket, processVars, machineVars
    <2>3. QED
      BY <1>1, <2>1, <2>2, GoOnTypes
  <1>14. CASE UnlinkSocket
    <2>1. Exit("done") /\ socket' = "none" /\ UNCHANGED <<regs, power>>
      BY <1>14 DEF UnlinkSocket
    <2>2. QED
      BY <1>1, <2>1, ExitTypes
  <1>15. CASE Crash
    <2>1. Exit("crash") /\ socket' \in {"none", "dead", "live"} /\ UNCHANGED <<regs, power>>
      BY <1>1, <1>15 DEF Crash
    <2>2. QED
      BY <1>1, <2>1, ExitTypes
  <1>16. CASE PowerLoss
    <2>1. Exit("crash") /\ socket' = "none" /\ regs' = AtBoot.regs /\ power' = AtBoot.power
      BY <1>16 DEF PowerLoss
    <2>2. AtBoot.regs \in [Registers -> 0..255] /\ AtBoot.power \in [{"cpu", "gpu"} -> {"auto", "on"}]
      BY LifecycleAssumption DEF AtBoot
    <2>3. QED
      BY <2>1, <2>2, ExitTypes
  <1>17. CASE Kernel \/ UNCHANGED vars
    BY <1>17 DEF Kernel, vars, processVars, machineVars, LifeTypes
  <1>18. QED
    BY <1>2, <1>3, <1>4, <1>5, <1>6, <1>7, <1>8, <1>9, <1>10, <1>11, <1>12, <1>13, <1>14, <1>15,
       <1>16, <1>17 DEF Next

\* What loads is in range: nothing is taken on trust in TypeOK.
LEMMA EveryDocumentRanged == Ranged = Documents
BY LifecycleAssumption, LoadedInRange DEF Ranged, Configs

\* main's state keeps its types through every start, command, signal, crash and
\* power loss, every register stays a byte, and what is loaded is in range, for every
\* set of model files, argument vector and machine (main, config_load).
THEOREM LifeTypeCorrect == Spec => []TypeOK
  <1>1. Init => LifeTypes
    BY InitTypes
  <1>2. LifeTypes /\ [Next]_vars => LifeTypes'
    BY NextTypes
  <1>3. LifeTypes /\ FileInv => TypeOK
    BY EveryDocumentRanged DEF LifeTypes, FileInv, TypeOK
  <1>4. QED
    BY <1>1, <1>2, <1>3, LifeOfFile, FileSafe, PTL DEF Spec

-----------------------------------------------------------------------------
\* What the closing writes give back

\* A file loads as one configuration at most.
LEMMA LoadsOnce ==
    ASSUME NEW text, NEW cfg \in Load(text), NEW other \in Load(text) PROVE cfg = other
  <1>1. \A s, t \in Timing(text) : s = t
    <2> DEFINE found == [poll_interval_ms |-> PollInterval(text),
                         critical_temperature_c |->
                             In(1..130, OptInt(text, "critical_temperature_c", 90)),
                         read_words |-> OptBool(text, "read_words", TRUE)]
    <2>1. Timing(text) = AllOf(found)
      BY TimingRead
    <2> HIDE DEF found
    <2>2. QED
      BY <2>1, AllOfOne
  <1>2. \A p, q \in PlatformProfiles(text) : p = q
    BY AllOfOne DEF PlatformProfiles
  <1>3. ASSUME NEW timing, NEW a \in WithTiming(text, timing), NEW b \in WithTiming(text, timing)
        PROVE  a = b
    <2> DEFINE found(p) ==
                 [identity |-> Identity(text), timing |-> {timing},
                  safety |-> SafetySection(text, timing.critical_temperature_c),
                  fan_modes |-> FanModes(text), platform_profiles |-> {p},
                  power_source_profiles |-> PowerSources(text, p),
                  keyboard_backlight |-> Keyboard(text), allowed_dmi |-> {AllowedDmi(text)},
                  init_writes |-> InitWriteList(text),
                  fans |-> Fans(text), presets |-> PresetList(text)]
    <2>1. WithTiming(text, timing) = UNION {AllOf(found(p)) : p \in PlatformProfiles(text)}
      BY DEF WithTiming
    <2> HIDE DEF found
    <2>2. PICK p \in PlatformProfiles(text) : a \in AllOf(found(p)) /\ b \in AllOf(found(p))
      BY <1>2, <1>3, <2>1
    <2>3. QED
      BY <2>2, AllOfOne
  <1>4. QED
    BY <1>1, <1>3 DEF Load

\* The greatest of a set is the one no other exceeds.
LEMMA MaxIs ==
    ASSUME NEW A \in SUBSET Nat, NEW p \in A, \A q \in A : q <= p PROVE Max(A) = p
  <1>1. p \in Nat
    OBVIOUS
  <1>2. Max(A) \in A /\ Max(A) >= p
    BY <1>1, MaxOf
  <1>3. Max(A) \in Nat /\ Max(A) <= p
    BY <1>2
  <1>4. QED
    BY <1>1, <1>2, <1>3

\* A part of an interval is a set of numbers.
LEMMA PartOfInterval ==
    ASSUME NEW n \in Nat, NEW A, A \subseteq 1..n PROVE A \in SUBSET Nat /\ \A k \in A : k <= n
OBVIOUS

\* apply_reset_writes leaves every register it writes at its reset value: the first
\* init write of a register wins, because they are undone in reverse.
LEMMA ResetGivesBack ==
    ASSUME regs \in [Registers -> 0..255], NEW d \in Documents, NEW cfg \in Configs[d],
           NEW r \in Registers, ResetValue(cfg, r) # {}
    PROVE  Written(ResetWrites(cfg), {})[r] \in ResetValue(cfg, r)
  <1> DEFINE writes == cfg.init_writes
             fans == cfg.fans
             n == Len(fans)
             m == Len(writes)
             list == ResetWrites(cfg)
             P == {i \in DOMAIN list : list[i][1] = r}
             W == {i \in DOMAIN writes : writes[i].register = r}
             V == {i \in DOMAIN fans : fans[i].write_register = r}
  <1>1. /\ m \in Nat /\ DOMAIN writes = 1..m /\ n \in Nat /\ DOMAIN fans = 1..n
    BY LoadedWrites
  <1>2. list \in WriteLists
    BY ResetWritesAreList
  <1>3. /\ DOMAIN list = 1..(n + m)
        /\ \A i \in 1..n : list[i] = <<fans[n - i + 1].write_register, fans[n - i + 1].reset_speed>>
        /\ \A i \in 1..m : list[n + i] = <<writes[m - i + 1].register, writes[m - i + 1].reset_value>>
    <2> DEFINE speeds == [i \in DOMAIN fans |-> <<fans[i].write_register, fans[i].reset_speed>>]
               values == [i \in DOMAIN writes |-> <<writes[i].register, writes[i].reset_value>>]
    <2>1. list = Reverse(speeds) \o Reverse(values)
      BY DEF ResetWrites
    <2> HIDE DEF fans, writes, list
    <2>2. speeds \in WriteLists /\ Len(speeds) = n
      <3>1. \A i \in 1..n : fans[i].write_register \in Byte255 /\ fans[i].reset_speed \in Byte255
        BY <1>1, LoadedWrites DEF fans
      <3>2. QED
        BY <1>1, <3>1 DEF WriteLists
    <2>3. values \in WriteLists /\ Len(values) = m
      <3>1. \A i \in 1..m : writes[i].register \in Byte255 /\ writes[i].reset_value \in Byte255
        BY <1>1, LoadedWrites DEF writes
      <3>2. QED
        BY <1>1, <3>1 DEF WriteLists
    <2>4. /\ Len(Reverse(speeds)) = n
          /\ \A i \in 1..n : Reverse(speeds)[i] = speeds[n - i + 1]
      BY <1>1, <2>2 DEF Reverse
    <2>5. /\ Len(Reverse(values)) = m
          /\ \A i \in 1..m : Reverse(values)[i] = values[m - i + 1]
      BY <1>1, <2>3 DEF Reverse
    <2>6. \A i \in 1..n : n - i + 1 \in 1..n
      BY <1>1
    <2>7. \A i \in 1..m : m - i + 1 \in 1..m
      BY <1>1
    <2>8. /\ \A i \in 1..n : speeds[i] = <<fans[i].write_register, fans[i].reset_speed>>
          /\ \A i \in 1..m : values[i] = <<writes[i].register, writes[i].reset_value>>
      BY <1>1
    <2>9. Reverse(speeds) \in WriteLists /\ Reverse(values) \in WriteLists
      BY <2>2, <2>3, ReverseIsList
    <2> HIDE DEF speeds, values, n, m
    <2>10. /\ Len(list) = n + m /\ DOMAIN list = 1..(n + m)
          /\ \A i \in 1..(n + m) : list[i] = IF i <= n THEN Reverse(speeds)[i]
                                             ELSE Reverse(values)[i - n]
      BY <1>1, <1>2, <2>1, <2>4, <2>5, <2>9, ConcatProperties DEF WriteLists
    <2>11. \A i \in 1..n : list[i] = Reverse(speeds)[i]
      BY <1>1, <2>10
    <2>12. ASSUME NEW i \in 1..m PROVE list[n + i] = Reverse(values)[i]
      <3>1. n + i \in 1..(n + m) /\ ~(n + i <= n) /\ (n + i) - n = i
        BY <1>1
      <3>2. QED
        BY <2>10, <3>1
    <2>13. \A i \in 1..n : list[i] = <<fans[n - i + 1].write_register, fans[n - i + 1].reset_speed>>
      <3> TAKE i \in 1..n
      <3>1. n - i + 1 \in 1..n /\ list[i] = speeds[n - i + 1]
        BY <2>4, <2>6, <2>11
      <3>2. QED
        BY <2>8, <3>1
    <2>14. \A i \in 1..m : list[n + i] = <<writes[m - i + 1].register, writes[m - i + 1].reset_value>>
      <3> TAKE i \in 1..m
      <3>1. m - i + 1 \in 1..m /\ list[n + i] = values[m - i + 1]
        BY <2>5, <2>7, <2>12
      <3>2. QED
        BY <2>8, <3>1
    <2>15. QED
      BY <2>10, <2>13, <2>14
  <1>4. P \in SUBSET Nat
    <2>1. P \subseteq DOMAIN list
      OBVIOUS
    <2> HIDE DEF P, n, m
    <2>2. QED
      BY <1>1, <1>3, <2>1
  <1>5. W \in SUBSET (1..m) /\ V \in SUBSET (1..n)
    BY <1>1
  <1>6. P # {} => Written(list, {})[r] = list[Max(P)][2]
    BY DEF Written
  <1>7. ResetValue(cfg, r) = IF W # {} THEN {writes[Min(W)].reset_value}
                             ELSE {fans[i].reset_speed : i \in V}
    BY DEF ResetValue
  <1>8. CASE W # {}
    <2> DEFINE w == Min(W)
               p == n + (m - w + 1)
    <2>1. w \in W /\ \A i \in W : w <= i
      <3> HIDE DEF W
      <3>1. QED
        BY <1>1, <1>5, <1>8, MinOf
    <2>2. w \in 1..m /\ writes[w].register = r
      BY <1>1, <2>1
    <2> HIDE DEF w
    <2>3. /\ m - w + 1 \in 1..m /\ m - (m - w + 1) + 1 = w /\ p \in 1..(n + m)
      <3> HIDE DEF n, m
      <3>1. QED
        BY <1>1, <2>2
    <2>4. list[p] = <<r, writes[w].reset_value>>
      <3> HIDE DEF n, m, list, writes, fans
      <3>1. QED
        BY <1>3, <2>2, <2>3
    <2>5. p \in P
      <3> HIDE DEF n, m, list, p
      <3>1. QED
        BY <1>3, <2>3, <2>4
    <2>6. ASSUME NEW q \in P PROVE q <= p
      <3>1. q \in 1..(n + m) /\ list[q][1] = r
        BY <1>3
      <3> HIDE DEF list, writes, fans, n, m, P, W
      <3>2. CASE q <= n
        BY <1>1, <2>3, <3>1, <3>2
      <3>3. CASE q > n
        <4>1. /\ q - n \in 1..m /\ n + (q - n) = q /\ m - (q - n) + 1 \in 1..m
          BY <1>1, <3>1, <3>3
        <4>2. list[q] = <<writes[m - (q - n) + 1].register, writes[m - (q - n) + 1].reset_value>>
          BY <1>3, <4>1
        <4>3. m - (q - n) + 1 \in W
          BY <1>1, <3>1, <4>1, <4>2 DEF W
        <4>4. w <= m - (q - n) + 1
          BY <2>1, <4>3
        <4>5. QED
          BY <1>1, <2>2, <3>1, <4>4
      <3>4. QED
        BY <1>1, <3>1, <3>2, <3>3
    <2>7. Max(P) = p
      <3> HIDE DEF P, p
      <3>1. QED
        BY <1>4, <2>5, <2>6, MaxIs
    <2>8. Written(list, {})[r] = writes[w].reset_value
      <3> HIDE DEF list, P, p
      <3>1. QED
        BY <1>6, <2>4, <2>5, <2>7
    <2>9. QED
      <3> HIDE DEF list, writes, W
      <3>1. QED
        BY <1>7, <1>8, <2>8 DEF w, list
  <1>9. CASE W = {}
    <2> HIDE DEF list, writes, fans, n, m, P, W, V
    <2>1. PICK j \in V : TRUE
      BY <1>7, <1>9
    <2>2. j \in 1..n /\ fans[j].write_register = r
      BY <1>5, <2>1 DEF V
    <2>3. n - j + 1 \in 1..n /\ n - (n - j + 1) + 1 = j /\ n - j + 1 \in 1..(n + m)
      BY <1>1, <2>2
    <2>4. n - j + 1 \in P
      BY <1>3, <2>2, <2>3 DEF P
    <2>5. ASSUME NEW q \in P PROVE q \in 1..n
      <3>1. q \in 1..(n + m) /\ list[q][1] = r
        BY <1>3 DEF P
      <3>2. CASE q > n
        <4>1. /\ q - n \in 1..m /\ n + (q - n) = q /\ m - (q - n) + 1 \in 1..m
          BY <1>1, <3>1, <3>2
        <4>2. list[q] = <<writes[m - (q - n) + 1].register, writes[m - (q - n) + 1].reset_value>>
          BY <1>3, <4>1
        <4>3. m - (q - n) + 1 \in W
          BY <1>1, <3>1, <4>1, <4>2 DEF W
        <4>4. QED
          BY <1>9, <4>3
      <3>3. QED
        BY <1>1, <3>1, <3>2
    <2>6. Max(P) \in P
      <3>1. \A q \in P : q <= n
        BY <1>1, <2>5
      <3>2. QED
        BY <1>1, <1>4, <2>4, <3>1, MaxOf
    <2> DEFINE k == n - Max(P) + 1
    <2>7. Max(P) \in 1..n /\ k \in 1..n
      BY <1>1, <2>5, <2>6
    <2>8. list[Max(P)] = <<fans[k].write_register, fans[k].reset_speed>> /\ list[Max(P)][1] = r
      BY <1>3, <2>6, <2>7 DEF P
    <2> HIDE DEF k
    <2>9. k \in V
      BY <1>1, <2>7, <2>8 DEF V
    <2>10. Written(list, {})[r] = fans[k].reset_speed
      BY <1>6, <2>4, <2>8
    <2>11. QED
      BY <1>7, <1>9, <2>9, <2>10 DEF list
  <1>10. QED
    BY <1>8, <1>9

\* apply_sensor_power_control with "auto" frees every device a fan held.
LEMMA PowerGivenBack ==
    ASSUME power \in [{"cpu", "gpu"} -> {"auto", "on"}], NEW d \in Documents, NEW cfg \in Configs[d],
           NEW fan \in Range(cfg.fans), fan.keep_awake \/ fan.sensor_power_control # "",
           NEW g \in Devices(fan.sensor_group)
    PROVE  PowerSet(cfg, "auto", {})[g] = "auto"
  <1> DEFINE fans == {i \in DOMAIN cfg.fans : /\ g \in Devices(cfg.fans[i].sensor_group)
                                             /\ PowerWanted(cfg.fans[i], "auto") # ""}
  <1>1. g \in DOMAIN power
    BY DEF Devices
  <1>2. \A f : PowerWanted(f, "auto") # "" => PowerWanted(f, "auto") = "auto"
    BY DEF PowerWanted
  <1>3. PowerWanted(fan, "auto") # ""
    BY DEF PowerWanted
  <1>4. PICK i \in DOMAIN cfg.fans : cfg.fans[i] = fan
    BY DEF Range
  <1>5. i \in fans
    BY <1>3, <1>4
  <1>6. Len(cfg.fans) \in Nat /\ DOMAIN cfg.fans = 1..Len(cfg.fans)
    BY LoadedWrites
  <1>7. fans \in SUBSET Nat /\ \A k \in fans : k <= Len(cfg.fans)
    <2>1. fans \subseteq DOMAIN cfg.fans
      OBVIOUS
    <2> HIDE DEF fans
    <2>2. fans \subseteq 1..Len(cfg.fans)
      BY <1>6, <2>1
    <2>3. QED
      BY <1>6, <2>2, PartOfInterval
  <1>8. Max(fans) \in fans
    <2> HIDE DEF fans
    <2>1. QED
      BY <1>5, <1>6, <1>7, MaxOf
  <1>9. PowerWanted(cfg.fans[Max(fans)], "auto") = "auto"
    BY <1>2, <1>8
  <1>10. PowerSet(cfg, "auto", {})[g] = IF fans = {} THEN power[g]
                                        ELSE PowerWanted(cfg.fans[Max(fans)], "auto")
    BY <1>1 DEF PowerSet
  <1> HIDE DEF fans
  <1>11. QED
    BY <1>5, <1>9, <1>10

\* What an ordinary end owes the machine.
RegistersGivenBack(d) ==
    \A cfg \in Configs[d] : \A r \in Registers :
        ResetValue(cfg, r) # {} => regs[r] \in ResetValue(cfg, r)

PowerAutomatic(d) ==
    \A cfg \in Configs[d] : \A fan \in Range(cfg.fans) :
        fan.keep_awake \/ fan.sensor_power_control # ""
        => \A g \in Devices(fan.sensor_group) : power[g] = "auto"

\* Until main writes the machine is as it found it, the socket is live only
\* while somebody listens, and each closing step leaves behind what it owes.
LifeInv ==
    /\ LifeTypes
    /\ phase \in {"load", "tools", "directories", "ec", "bind", "listen", "init"}
       => regs = before.regs /\ power = before.power
    /\ phase \in {"off", "load", "tools", "directories", "ec", "bind", "listen", "unlink"}
       => socket # "live"
    /\ phase \in {"release", "close", "unlink"} /\ ~faulty => RegistersGivenBack(loaded)
    /\ phase \in {"close", "unlink"} /\ ~faulty => PowerAutomatic(loaded)

\* The body of ExitUndoesStart.
Undone == phase # "off" /\ phase' = "off" /\ end' # "crash" =>
        /\ end' = "early" => regs' = before.regs /\ power' = before.power
        /\ socket' # "live" /\ (socket' = "dead" => socket = "dead" /\ end' # "done")
        /\ end' = "done" /\ ~faulty' =>
              \A cfg \in Configs[loaded] :
                  /\ \A r \in Registers :
                        ResetValue(cfg, r) # {} => regs'[r] \in ResetValue(cfg, r)
                  /\ \A fan \in Range(cfg.fans) :
                        fan.keep_awake \/ fan.sensor_power_control # ""
                        => \A g \in Devices(fan.sensor_group) : power'[g] = "auto"

\* The two closing steps, as the code makes them.
LEMMA ResetGives ==
    ASSUME LifeTypes, Reset PROVE ~faulty' => RegistersGivenBack(loaded)'
  <1>1. loaded \in Documents /\ loaded' = loaded
    BY LoadedIsDocument DEF Reset, processVars
  <1>2. PICK cfg \in Configs[loaded], F \in WriteFaults :
           regs' = Written(ResetWrites(cfg), F) /\ faulty' = (F # {})
    BY DEF Reset
  <1>3. regs \in [Registers -> 0..255]
    BY DEF LifeTypes
  <1>4. ASSUME NEW other \in Configs[loaded] PROVE other = cfg
    BY <1>1, LoadsOnce DEF Configs
  <1>5. ASSUME ~faulty', NEW r \in Registers, ResetValue(cfg, r) # {}
        PROVE  regs'[r] \in ResetValue(cfg, r)
    <2>1. F = {}
      BY <1>2, <1>5
    <2>2. QED
      BY <1>1, <1>2, <1>3, <1>5, <2>1, ResetGivesBack
  <1>6. QED
    BY <1>1, <1>4, <1>5 DEF RegistersGivenBack

LEMMA SensorsGive ==
    ASSUME LifeTypes, SensorsAuto PROVE ~faulty' => ~faulty /\ PowerAutomatic(loaded)'
  <1>1. loaded \in Documents /\ loaded' = loaded
    BY LoadedIsDocument DEF SensorsAuto, processVars
  <1>2. PICK cfg \in Configs[loaded], G \in SUBSET DOMAIN power :
           power' = PowerSet(cfg, "auto", G) /\ faulty' = (faulty \/ G # {})
    BY DEF SensorsAuto
  <1>3. power \in [{"cpu", "gpu"} -> {"auto", "on"}]
    BY DEF LifeTypes
  <1>4. ASSUME NEW other \in Configs[loaded] PROVE other = cfg
    BY <1>1, LoadsOnce DEF Configs
  <1>5. ASSUME ~faulty', NEW fan \in Range(cfg.fans),
               fan.keep_awake \/ fan.sensor_power_control # "",
               NEW g \in Devices(fan.sensor_group)
        PROVE  power'[g] = "auto"
    <2>1. G = {}
      BY <1>2, <1>5
    <2>2. QED
      BY <1>1, <1>2, <1>3, <1>5, <2>1, PowerGivenBack
  <1>6. QED
    BY <1>1, <1>2, <1>4, <1>5 DEF PowerAutomatic

-----------------------------------------------------------------------------
\* Every exit

\* The phases before main writes a register.
Early == {"load", "tools", "directories", "ec", "bind", "listen"}

\* LifeInv holds at the start, and through every step.
LEMMA StartUndone == Init => LifeInv
  <1> SUFFICES ASSUME Init PROVE LifeInv
    OBVIOUS
  <1>1. phase = "off" /\ socket = "none"
    BY DEF Init
  <1>2. QED
    BY <1>1, InitTypes DEF LifeInv

LEMMA ExitKeepsInv ==
    ASSUME LifeTypes', NEW how, Exit(how), socket' # "live" PROVE LifeInv'
BY DEF LifeInv, Exit

LEMMA StepKeepsInv == LifeInv /\ [Next]_vars => LifeInv'
  <1> SUFFICES ASSUME LifeInv, [Next]_vars PROVE LifeInv'
    OBVIOUS
  <1>1. LifeTypes /\ LifeTypes'
    BY NextTypes DEF LifeInv
  <1>2. CASE Start
    BY <1>1, <1>2 DEF LifeInv, Start, machineVars
  <1>3. CASE Misused \/ Refuse \/ Look
    <2>1. Exit("early") /\ socket' # "live"
      BY <1>3 DEF LifeInv, Misused, Refuse, Look, Keep
    <2>2. QED
      BY <1>1, <2>1, ExitKeepsInv
  <1>4. CASE Configure \/ MakeDirectories \/ OpenEc \/ Bind \/ Listen
    <2>1. CASE Exit("early")
      <3>1. socket' # "live"
        BY <1>4, <2>1 DEF LifeInv, Configure, MakeDirectories, OpenEc, Bind, Listen, Keep, Enter, Exit
      <3>2. QED
        BY <1>1, <2>1, <3>1, ExitKeepsInv
    <2>2. CASE ~Exit("early")
      <3>1. /\ phase' \in {"tools", "directories", "ec", "bind", "listen"} => socket' # "live"
            /\ phase' \in {"tools", "directories", "ec", "bind", "listen", "init"}
            /\ phase \in Early
            /\ UNCHANGED <<regs, power, before>>
        BY <1>4, <2>2 DEF LifeInv, Configure, MakeDirectories, OpenEc, Bind, Listen, Keep, Enter, Early
      <3>2. QED
        BY <1>1, <3>1 DEF LifeInv, Early
    <2>3. QED
      BY <2>1, <2>2
  <1>5. CASE ApplyInitWrites \/ SensorsOn \/ Restore \/ EnterDefault \/ LeaveLoop
    <2>1. phase' \in {"sensors", "restore", "loop", "reset"}
      BY <1>5 DEF ApplyInitWrites, SensorsOn, Restore, EnterDefault, LeaveLoop, Enter
    <2>2. QED
      BY <1>1, <2>1 DEF LifeInv
  <1>6. CASE Choose \/ Save
    <2>1. phase' = "loop"
      BY <1>6 DEF Choose, Save, Settled
    <2>2. QED
      BY <1>1, <2>1 DEF LifeInv
  <1>7. CASE Reset
    <2>1. phase' = "release" /\ (~faulty' => RegistersGivenBack(loaded)')
      BY <1>1, <1>7, ResetGives DEF Reset, Enter
    <2>2. QED
      BY <1>1, <2>1 DEF LifeInv
  <1>8. CASE SensorsAuto
    <2>1. phase = "release" /\ phase' = "close" /\ UNCHANGED <<regs, loaded>>
      BY <1>8 DEF SensorsAuto, Enter, processVars
    <2>2. ~faulty' => ~faulty /\ PowerAutomatic(loaded)'
      BY <1>1, <1>8, SensorsGive
    <2>3. RegistersGivenBack(loaded)' = RegistersGivenBack(loaded)
      BY <2>1 DEF RegistersGivenBack
    <2>4. QED
      BY <1>1, <2>1, <2>2, <2>3 DEF LifeInv
  <1>9. CASE CloseSocket
    <2>1. phase = "close" /\ phase' = "unlink" /\ socket' = "dead"
          /\ UNCHANGED <<regs, power, faulty, loaded>>
      BY <1>9 DEF CloseSocket, Enter, processVars
    <2>2. /\ RegistersGivenBack(loaded)' = RegistersGivenBack(loaded)
          /\ PowerAutomatic(loaded)' = PowerAutomatic(loaded)
      BY <2>1 DEF RegistersGivenBack, PowerAutomatic
    <2>3. QED
      BY <1>1, <2>1, <2>2 DEF LifeInv
  <1>10. CASE UnlinkSocket
    <2>1. Exit("done") /\ socket' # "live"
      BY <1>10 DEF UnlinkSocket
    <2>2. QED
      BY <1>1, <2>1, ExitKeepsInv
  <1>11. CASE Crash \/ PowerLoss
    <2>1. Exit("crash") /\ socket' # "live"
      BY <1>11 DEF Crash, PowerLoss
    <2>2. QED
      BY <1>1, <2>1, ExitKeepsInv
  <1>12. CASE Stop \/ Kernel \/ UNCHANGED vars
    <2>1. UNCHANGED <<phase, loaded, socket, regs, power, faulty, before>>
      BY <1>12 DEF Stop, Kernel, vars, processVars, machineVars, historyVars
    <2>2. /\ RegistersGivenBack(loaded)' = RegistersGivenBack(loaded)
          /\ PowerAutomatic(loaded)' = PowerAutomatic(loaded)
      BY <2>1 DEF RegistersGivenBack, PowerAutomatic
    <2>3. QED
      BY <1>1, <2>1, <2>2 DEF LifeInv
  <1>13. QED
    BY <1>2, <1>3, <1>4, <1>5, <1>6, <1>7, <1>8, <1>9, <1>10, <1>11, <1>12 DEF Next

\* Every way out of main, from a state in which LifeInv holds.
LEMMA EndUndoes == LifeInv /\ [Next]_vars => Undone
  <1> SUFFICES ASSUME LifeInv, Next, phase # "off", phase' = "off", end' # "crash"
               PROVE  /\ end' = "early" => regs' = before.regs /\ power' = before.power
                      /\ socket' # "live" /\ (socket' = "dead" => socket = "dead" /\ end' # "done")
                      /\ end' = "done" /\ ~faulty' =>
                            \A cfg \in Configs[loaded] :
                                /\ \A r \in Registers :
                                      ResetValue(cfg, r) # {} => regs'[r] \in ResetValue(cfg, r)
                                /\ \A fan \in Range(cfg.fans) :
                                      fan.keep_awake \/ fan.sensor_power_control # ""
                                      => \A g \in Devices(fan.sensor_group) : power'[g] = "auto"
    BY DEF Undone, vars
  <1>1. CASE UnlinkSocket
    <2>1. phase = "unlink" /\ end' = "done" /\ socket' = "none" /\ UNCHANGED <<regs, power, faulty>>
      BY <1>1 DEF UnlinkSocket, Exit
    <2>2. ~faulty => RegistersGivenBack(loaded) /\ PowerAutomatic(loaded)
      BY <2>1 DEF LifeInv
    <2>3. QED
      BY <2>1, <2>2 DEF RegistersGivenBack, PowerAutomatic
  <1>2. CASE Refuse \/ Configure \/ Look \/ MakeDirectories \/ OpenEc \/ Bind \/ Listen
    <2>1. phase \in Early /\ end' = "early" /\ UNCHANGED <<regs, power>> /\ socket' \in {socket, "none"}
      BY <1>2 DEF Refuse, Configure, Look, MakeDirectories, OpenEc, Bind, Listen, Keep, Enter, Exit,
                  Early
    <2>2. regs = before.regs /\ power = before.power /\ socket # "live"
      BY <2>1 DEF LifeInv, Early
    <2>3. QED
      BY <2>1, <2>2
  <1>3. ~(Start \/ Misused)
    BY DEF Start, Misused
  <1>4. ~(ApplyInitWrites \/ SensorsOn \/ Restore \/ EnterDefault \/ LeaveLoop \/ Reset
          \/ SensorsAuto \/ CloseSocket)
    BY DEF ApplyInitWrites, SensorsOn, Restore, EnterDefault, LeaveLoop, Reset, SensorsAuto,
           CloseSocket, Enter
  <1>5. ~(Choose \/ Save \/ Stop \/ Kernel)
    BY DEF Choose, Save, Stop, Kernel
  <1>6. ~(Crash \/ PowerLoss)
    BY DEF Crash, PowerLoss, Exit
  <1>7. QED
    BY <1>1, <1>2, <1>3, <1>4, <1>5, <1>6 DEF Next

\* A daemon that ends in order gives back what it took, and a start that is refused
\* has changed nothing, for every model file, every set of failing registers and every
\* machine (main, make_socket, apply_reset_writes, apply_sensor_power_control).
THEOREM LifeUndoesStart == Spec => ExitUndoesStart
  <1>1. LifeInv /\ [Next]_vars => [Undone]_vars
    BY EndUndoes
  <1>2. Spec => []LifeInv
    BY StartUndone, StepKeepsInv, PTL DEF Spec
  <1>3. QED
    BY <1>1, <1>2, PTL DEF Spec, ExitUndoesStart, Undone

-----------------------------------------------------------------------------
\* A key that stands in its own section

\* The tokens of a rest and of a start of a text.
LEMMA TailAt ==
    ASSUME NEW text \in Seq(Token), NEW c \in 1..Len(text)
    PROVE  LET tail == SubSeq(text, c + 1, Len(text))
           IN  Len(tail) = Len(text) - c /\ \A i \in 1..(Len(text) - c) : tail[i] = text[c + i]
OBVIOUS

LEMMA HeadAt ==
    ASSUME NEW text \in Seq(Token), NEW e \in 1..Len(text)
    PROVE  LET head == SubSeq(text, 1, e)
           IN  Len(head) = e /\ DOMAIN head = 1..e /\ \A i \in 1..e : head[i] = text[i]
OBVIOUS

\* Behind a key stands its colon, and behind that its value.
LEMMA FirstColon ==
    ASSUME NEW text \in Seq(Token), NEW key, Len(text) >= 3, text[1] = S(key), text[2] = Mark(":")
    PROVE  AfterColon(text) # <<>> /\ AfterColon(text)[1] = text[3]
  <1> DEFINE colons == Positions(text, Mark(":"))
  <1>1. Len(text) \in Nat /\ DOMAIN text = 1..Len(text)
    OBVIOUS
  <1>2. S(key) # Mark(":")
    BY DEF S, Mark
  <1>3. 1 \notin colons /\ 2 \in colons
    BY <1>1, <1>2 DEF Positions
  <1>4. colons \in SUBSET (1..Len(text))
    BY PositionsIn
  <1>5. \A i \in colons : i \in Nat /\ i # 0
    <2> HIDE DEF colons
    <2>1. QED
      BY <1>1, <1>4
  <1>6. Min(colons) \in colons /\ Min(colons) <= 2
    <2> HIDE DEF colons
    <2>1. colons \in SUBSET Nat
      BY <1>5
    <2>2. QED
      BY <1>3, <2>1, MinOf
  <1>7. Min(colons) = 2
    <2> HIDE DEF colons
    <2>1. QED
      BY <1>3, <1>5, <1>6
  <1>8. AfterColon(text) = SubSeq(text, 3, Len(text))
    BY <1>3, <1>7 DEF AfterColon
  <1>9. /\ Len(SubSeq(text, 3, Len(text))) = Len(text) - 2
        /\ SubSeq(text, 3, Len(text))[1] = text[3]
    BY <1>1
  <1>10. SubSeq(text, 3, Len(text)) # <<>>
    <2> DEFINE tail == SubSeq(text, 3, Len(text))
    <2>1. tail \in Seq(Token)
      BY <1>1, SliceIsText
    <2>2. Len(tail) # 0
      BY <1>1, <1>9
    <2> HIDE DEF tail
    <2>3. tail # <<>>
      BY <2>1, <2>2
    <2>4. QED
      BY <2>3 DEF tail
  <1>11. QED
    BY <1>8, <1>9, <1>10

\* What a section's loader reads of a key the section's object holds itself.
LEMMA OwnIsRead ==
    ASSUME NEW text \in Seq(Token), NEW section, NEW key, NEW kind, Present(text, section),
           OwnPlaces(SectionOf(text, section), key) # {}, OwnComesFirst(text, section, key)
    PROVE  /\ Present(From(text, section), key)
           /\ KeyOfKind(From(text, section), key, kind) \subseteq Own(SectionOf(text, section), key)
  <1> DEFINE rest == From(text, section)
             object == SectionOf(text, section)
             places == OwnPlaces(object, key)
             colons == Positions(rest, Mark(":"))
             c == Min(colons)
             value == AfterColon(rest)
             e == Min(Closed(value, "{", "}"))
             q == Min(Positions(rest, S(key)))
             j == q - c
  <1>1. rest \in Seq(Token) /\ Len(rest) \in Nat /\ DOMAIN rest = 1..Len(rest)
    BY FromIsText
  <1>2. j \in places
    BY DEF OwnComesFirst
  <1>3. object # <<>>
    <2> HIDE DEF object
    <2>1. DOMAIN object # {}
      BY <1>2 DEF OwnPlaces
    <2>2. QED
      BY <2>1
  <1>4. value \in Seq(Token)
    BY <1>1, ColonIsText
  <1>5. object = SubSeq(value, 1, e) /\ Closed(value, "{", "}") # {} /\ value # <<>>
    BY <1>3 DEF SectionOf, ValueOf
  <1>6. colons # {} /\ value = SubSeq(rest, c + 1, Len(rest))
    BY <1>5 DEF AfterColon
  <1>7. c \in 1..Len(rest)
    BY <1>1, <1>6, PositionsIn, MinOf
  <1>8. e \in 1..Len(value) /\ Len(value) \in Nat
    <2> DEFINE ends == Closed(value, "{", "}")
    <2> HIDE DEF value
    <2>1. ends \subseteq 1..Len(value) /\ Len(value) \in Nat
      <3>1. Len(value) \in Nat
        BY <1>4
      <3>2. ends \in SUBSET (1..Len(value))
        BY <1>4, ClosedIn
      <3>3. QED
        BY <3>1, <3>2
    <2> HIDE DEF ends
    <2>2. ends \in SUBSET Nat
      BY <2>1, PartOfInterval
    <2>3. ends # {}
      BY <1>5 DEF ends
    <2>4. Min(ends) \in ends
      BY <2>2, <2>3, MinOf
    <2>5. QED
      BY <2>1, <2>4 DEF ends
  <1>9. Len(value) = Len(rest) - c /\ \A i \in 1..Len(value) : value[i] = rest[c + i]
    <2> HIDE DEF c, rest, value
    <2>1. QED
      <3>1. /\ Len(SubSeq(rest, c + 1, Len(rest))) = Len(rest) - c
            /\ \A i \in 1..(Len(rest) - c) : SubSeq(rest, c + 1, Len(rest))[i] = rest[c + i]
        BY <1>1, <1>7, TailAt
      <3>2. QED
        BY <1>6, <3>1, Zenon
  <1>10. Len(object) = e /\ DOMAIN object = 1..e /\ \A i \in 1..e : object[i] = value[i]
    <2> HIDE DEF e, object, value
    <2>1. QED
      <3>1. /\ Len(SubSeq(value, 1, e)) = e /\ DOMAIN SubSeq(value, 1, e) = 1..e
            /\ \A i \in 1..e : SubSeq(value, 1, e)[i] = value[i]
        BY <1>4, <1>8, HeadAt
      <3>2. QED
        BY <1>5, <3>1, Zenon
  <1> HIDE DEF object, value, e, c, colons, rest
  <1>11. /\ j \in 1..e /\ j + 2 \in 1..e
         /\ object[j] = S(key) /\ object[j + 1] = Mark(":")
    BY <1>2, <1>10 DEF OwnPlaces
  <1> HIDE DEF j, q
  <1>12. \A i \in 1..e : c + i \in 1..Len(rest) /\ object[i] = rest[c + i]
    <2> TAKE i \in 1..e
    <2>1. i \in 1..Len(value) /\ c + i \in 1..Len(rest)
      BY <1>1, <1>7, <1>8, <1>9
    <2>2. QED
      BY <1>9, <1>10, <2>1
  <1>13. q = c + j
    <2>1. rest[c + j] = S(key) /\ c + j \in DOMAIN rest
      BY <1>1, <1>11, <1>12
    <2>2. Positions(rest, S(key)) # {}
      BY <2>1 DEF Positions
    <2>3. q \in 1..Len(rest)
      BY <1>1, <2>2, PositionsIn, MinOf DEF q
    <2>4. QED
      BY <1>1, <1>7, <2>3 DEF j
  <1>14. Present(rest, key)
    BY <1>1, <1>11, <1>12 DEF Present, Positions
  <1> DEFINE found == From(rest, key)
  <1>15. /\ q \in 1..Len(rest) /\ q + 2 \in 1..Len(rest)
         /\ rest[q] = S(key) /\ rest[q + 1] = Mark(":") /\ rest[q + 2] = object[j + 2]
    <2>1. j + 1 \in 1..e /\ c + (j + 1) = q + 1 /\ c + (j + 2) = q + 2
      BY <1>7, <1>8, <1>11, <1>13
    <2>2. QED
      BY <1>11, <1>12, <1>13, <2>1
  <1>16. /\ found \in Seq(Token) /\ Len(found) >= 3
         /\ found[1] = rest[q] /\ found[2] = rest[q + 1] /\ found[3] = rest[q + 2]
    <2>1. found = SubSeq(rest, q, Len(rest))
      BY DEF From, q
    <2> HIDE DEF found
    <2>2. QED
      BY <1>1, <1>15, <2>1, SubSeqProperties
  <1> HIDE DEF found
  <1>17. AfterColon(found) # <<>> /\ AfterColon(found)[1] = object[j + 2]
    BY <1>15, <1>16, FirstColon
  <1>18. ValueOf(rest, key) = AfterColon(found)
    BY <1>14 DEF ValueOf, found
  <1>19. KeyOfKind(rest, key, kind) \subseteq {object[j + 2][2]}
    BY <1>17, <1>18 DEF KeyOfKind
  <1>20. QED
    BY <1>2, <1>14, <1>19 DEF Own, rest, object

\* Keys and sections that are not there.
LEMMA MissingIsNotRead ==
    ASSUME NEW text, NEW key, NEW kind, ~Present(text, key) PROVE KeyOfKind(text, key, kind) = {}
BY DEF KeyOfKind, ValueOf

LEMMA OwnNeedsSection ==
    ASSUME NEW text, NEW section, NEW key, ~Present(text, section)
    PROVE  Own(SectionOf(text, section), key) = {}
BY DEF ValueOf, SectionOf, Own, OwnPlaces

\* What an optional key comes to, read from where its section starts.
LEMMA OptionalKept ==
    ASSUME NEW text \in Seq(Token), NEW section, NEW key, NEW kind, NEW default, NEW v,
           Present(text, section), OwnComesFirst(text, section, key),
           v \in IF Present(From(text, section), key)
                 THEN KeyOfKind(From(text, section), key, kind) ELSE {default}
    PROVE  LET own == Own(SectionOf(text, section), key)
           IN  /\ own # {} => v \in own
               /\ own = {} /\ ~ReadsElsewhere(text, section, key) => v = default
  <1>1. CASE OwnPlaces(SectionOf(text, section), key) # {}
    BY <1>1, OwnIsRead DEF Own
  <1>2. CASE OwnPlaces(SectionOf(text, section), key) = {}
    <2>1. Own(SectionOf(text, section), key) = {}
      BY <1>2 DEF Own
    <2>2. QED
      BY <2>1 DEF ReadsElsewhere
  <1>3. QED
    BY <1>1, <1>2

\* What a required key comes to.
LEMMA RequiredKept ==
    ASSUME NEW text \in Seq(Token), NEW section, NEW key, NEW kind, NEW v,
           Present(text, section), OwnComesFirst(text, section, key),
           v \in KeyOfKind(From(text, section), key, kind)
    PROVE  LET own == Own(SectionOf(text, section), key)
           IN  /\ own # {} => v \in own
               /\ own = {} => ReadsElsewhere(text, section, key)
  <1>1. CASE OwnPlaces(SectionOf(text, section), key) # {}
    BY <1>1, OwnIsRead DEF Own
  <1>2. CASE OwnPlaces(SectionOf(text, section), key) = {}
    <2>1. Own(SectionOf(text, section), key) = {}
      BY <1>2 DEF Own
    <2>2. Present(From(text, section), key)
      BY MissingIsNotRead
    <2>3. QED
      BY <2>1, <2>2 DEF ReadsElsewhere
  <1>3. QED
    BY <1>1, <1>2

-----------------------------------------------------------------------------
\* Sections keep their keys

\* A safety number is its own value, or its default, in its bounds.
LEMMA SafetyKept ==
    ASSUME NEW text \in Seq(Token), NEW cfg \in Load(text),
           NEW key \in DOMAIN SafetyNumbers(cfg.timing.critical_temperature_c),
           OwnComesFirst(text, "safety", key)
    PROVE  KeyKept(text, cfg, "safety", key)
  <1> DEFINE critical == cfg.timing.critical_temperature_c
             number == SafetyNumbers(critical)[key]
             own == Own(SectionOf(text, "safety"), key)
  <1>1. cfg.safety \in SafetySection(text, critical)
    BY ConfigSections
  <1>2. \A v : InBounds(cfg, key, v) = ClampTo(v, number[1], number[2])
    BY DEF InBounds
  <1>3. DefaultOf(cfg, key) = {number[3]}
    BY DEF DefaultOf
  <1>4. IF Present(text, "safety")
        THEN cfg.safety[key] \in
                Clamped(Section(text, "safety"), key, number[3], number[1], number[2])
        ELSE cfg.safety[key] = number[3]
    BY <1>1, SafetyNumbersRead
  <1> HIDE DEF number, critical
  <1>5. CASE Present(text, "safety")
    <2>1. PICK v \in OptInt(From(text, "safety"), key, number[3]) :
             cfg.safety[key] = ClampTo(v, number[1], number[2])
      BY <1>4, <1>5 DEF Clamped, Section
    <2> DEFINE default == number[3]
    <2>2. v \in IF Present(From(text, "safety"), key)
                THEN KeyOfKind(From(text, "safety"), key, "n") ELSE {default}
      BY <2>1 DEF OptInt, IntKey
    <2> HIDE DEF default
    <2>3. /\ own # {} => v \in own
          /\ own = {} /\ ~ReadsElsewhere(text, "safety", key) => v = default
      BY <1>5, <2>2, OptionalKept
    <2>4. QED
      BY <1>2, <1>3, <1>5, <2>1, <2>3 DEF KeyKept, default
  <1>6. CASE ~Present(text, "safety")
    <2>1. own = {}
      BY <1>6, OwnNeedsSection
    <2>2. QED
      BY <1>3, <1>4, <1>6, <2>1 DEF KeyKept
  <1>7. QED
    BY <1>5, <1>6

\* What keeps a key without bounds.
LEMMA PlainKept ==
    ASSUME NEW text, NEW cfg, NEW section, NEW key,
           key \notin DOMAIN SafetyNumbers(cfg.timing.critical_temperature_c),
           Present(text, section),
           LET own == Own(SectionOf(text, section), key)
           IN  /\ own # {} => cfg[section][key] \in own
               /\ own = {} /\ ~ReadsElsewhere(text, section, key)
                  => cfg[section][key] \in DefaultOf(cfg, key)
    PROVE  KeyKept(text, cfg, section, key)
  <1>1. \A v : InBounds(cfg, key, v) = v
    BY DEF InBounds
  <1>2. QED
    BY <1>1 DEF KeyKept

\* The keys of the other sections have no bounds.
LEMMA PlainDefaults ==
    ASSUME NEW cfg, NEW key
    PROVE  /\ key \in {"register", "cpu_register", "gpu_register", "max_value"}
                          \cup DOMAIN FanModeDefaults \cup DOMAIN KeyboardDefaults
              => key \notin DOMAIN SafetyNumbers(cfg.timing.critical_temperature_c)
           /\ key \in DOMAIN FanModeDefaults => DefaultOf(cfg, key) = {FanModeDefaults[key]}
           /\ key \in DOMAIN KeyboardDefaults => DefaultOf(cfg, key) = {KeyboardDefaults[key]}
BY DEF FanModeDefaults, KeyboardDefaults, SafetyNumbers, DefaultOf

\* The fan modes.
LEMMA FanModesKept ==
    ASSUME NEW text \in Seq(Token), NEW cfg \in Load(text), cfg.fan_modes # <<>>,
           NEW key \in DOMAIN cfg.fan_modes, OwnComesFirst(text, "fan_modes", key)
    PROVE  KeyKept(text, cfg, "fan_modes", key)
  <1> DEFINE section == Section(text, "fan_modes")
             registers == {"cpu_register", "gpu_register"}
             own == Own(SectionOf(text, "fan_modes"), key)
  <1>1. cfg.fan_modes \in FanModes(text)
    BY ConfigSections
  <1>2. /\ Present(text, "fan_modes")
        /\ DOMAIN cfg.fan_modes = registers \cup DOMAIN FanModeDefaults
        /\ \A k \in registers : cfg.fan_modes[k] \in Byte(IntKey(section, k))
        /\ \A k \in DOMAIN FanModeDefaults :
              cfg.fan_modes[k] \in Byte(OptInt(section, k, FanModeDefaults[k]))
    BY <1>1, FanModesRead
  <1>3. CASE key \in registers
    <2>1. cfg.fan_modes[key] \in KeyOfKind(From(text, "fan_modes"), key, "n")
      BY <1>2, <1>3 DEF Byte, In, IntKey, Section
    <2>2. /\ own # {} => cfg.fan_modes[key] \in own
          /\ own = {} => ReadsElsewhere(text, "fan_modes", key)
      BY <1>2, <2>1, RequiredKept
    <2>3. QED
      BY <1>2, <1>3, <2>2, PlainDefaults, PlainKept
  <1>4. CASE key \in DOMAIN FanModeDefaults
    <2>1. cfg.fan_modes[key] \in OptInt(From(text, "fan_modes"), key, FanModeDefaults[key])
      BY <1>2, <1>4 DEF Byte, In, Section
    <2>2. /\ own # {} => cfg.fan_modes[key] \in own
          /\ own = {} /\ ~ReadsElsewhere(text, "fan_modes", key)
             => cfg.fan_modes[key] = FanModeDefaults[key]
      BY <1>2, <2>1, OptionalKept DEF OptInt, IntKey
    <2>3. QED
      BY <1>2, <1>4, <2>2, PlainDefaults, PlainKept
  <1>5. QED
    BY <1>2, <1>3, <1>4

\* The keyboard.
LEMMA KeyboardKept ==
    ASSUME NEW text \in Seq(Token), NEW cfg \in Load(text), cfg.keyboard_backlight # <<>>,
           NEW key \in DOMAIN cfg.keyboard_backlight,
           OwnComesFirst(text, "keyboard_backlight", key)
    PROVE  KeyKept(text, cfg, "keyboard_backlight", key)
  <1> DEFINE section == From(text, "keyboard_backlight")
             light == cfg.keyboard_backlight
             own == Own(SectionOf(text, "keyboard_backlight"), key)
  <1>1. light \in Keyboard(text)
    BY ConfigSections
  <1>2. /\ Present(text, "keyboard_backlight")
        /\ DOMAIN light = {"register", "max_value"} \cup DOMAIN KeyboardDefaults
    BY <1>1, KeyboardRead, Zenon
  <1>3. \A k \in {"register", "max_value"} : light[k] \in IntKey(section, k)
    <2>1. /\ light["register"] \in Byte(IntKey(section, "register"))
          /\ light["max_value"] \in Byte(IntKey(section, "max_value"))
      BY <1>1, KeyboardRead, Zenon DEF Section
    <2>2. QED
      BY <2>1, ByteFound
  <1>4. /\ \A k \in {"min_value", "timeout_seconds"} :
              light[k] \in OptInt(section, k, KeyboardDefaults[k])
        /\ \A k \in {"timeout_supported", "timeout_default_enabled"} :
              light[k] \in OptBool(section, k, KeyboardDefaults[k])
    <2>1. /\ KeyboardDefaults["timeout_supported"] = FALSE
          /\ KeyboardDefaults["timeout_default_enabled"] = FALSE
      BY DEF KeyboardDefaults
    <2>2. /\ light["min_value"] \in
                Byte(OptInt(section, "min_value", KeyboardDefaults["min_value"]))
          /\ light["timeout_seconds"] \in
                In(Seconds, OptInt(section, "timeout_seconds", KeyboardDefaults["timeout_seconds"]))
          /\ light["timeout_supported"] \in OptBool(section, "timeout_supported", FALSE)
          /\ light["timeout_default_enabled"] \in
                OptBool(section, "timeout_default_enabled", FALSE)
      BY <1>1, KeyboardRead, Zenon DEF Section
    <2>3. /\ light["min_value"] \in OptInt(section, "min_value", KeyboardDefaults["min_value"])
          /\ light["timeout_seconds"] \in
                OptInt(section, "timeout_seconds", KeyboardDefaults["timeout_seconds"])
      BY <2>2, ByteFound, InFound
    <2>4. QED
      BY <2>1, <2>2, <2>3
  <1>5. DOMAIN KeyboardDefaults = {"min_value", "timeout_seconds", "timeout_supported",
                                   "timeout_default_enabled"}
    BY DEF KeyboardDefaults
  <1>6. CASE key \in {"register", "max_value"}
    <2>1. light[key] \in KeyOfKind(section, key, "n")
      BY <1>3, <1>6 DEF IntKey
    <2>2. /\ own # {} => light[key] \in own
          /\ own = {} => ReadsElsewhere(text, "keyboard_backlight", key)
      BY <1>2, <2>1, RequiredKept
    <2>3. QED
      BY <1>2, <1>6, <2>2, PlainDefaults, PlainKept
  <1>7. CASE key \in DOMAIN KeyboardDefaults
    <2>1. \E kind : light[key] \in IF Present(section, key) THEN KeyOfKind(section, key, kind)
                                   ELSE {KeyboardDefaults[key]}
      BY <1>4, <1>5, <1>7 DEF OptInt, OptBool, IntKey, BoolKey
    <2>2. /\ own # {} => light[key] \in own
          /\ own = {} /\ ~ReadsElsewhere(text, "keyboard_backlight", key)
             => light[key] = KeyboardDefaults[key]
      BY <1>2, <2>1, OptionalKept
    <2>3. QED
      BY <1>2, <1>7, <2>2, PlainDefaults, PlainKept
  <1>8. QED
    BY <1>2, <1>6, <1>7

\* The platform profiles' register.
LEMMA PlatformRead ==
    ASSUME NEW text, NEW cfg \in Load(text), cfg.platform_profiles # <<>>
    PROVE  /\ Present(text, "platform_profiles")
           /\ cfg.platform_profiles["register"] \in
                 Byte(IntKey(Section(text, "platform_profiles"), "register"))
  <1> DEFINE section == Section(text, "platform_profiles")
             found == [register |-> Byte(IntKey(section, "register")),
                       default_profile |-> OptString(section, "default_profile", ""),
                       profiles |-> Profiles(section)]
  <1>1. cfg.platform_profiles \in PlatformProfiles(text)
    BY ConfigSections
  <1>2. Present(text, "platform_profiles") /\ cfg.platform_profiles \in AllOf(found)
    BY <1>1 DEF PlatformProfiles
  <1>3. "register" \in DOMAIN found /\ found["register"] = Byte(IntKey(section, "register"))
    OBVIOUS
  <1> HIDE DEF found
  <1>4. QED
    BY <1>2, <1>3, FieldFound

LEMMA PlatformKept ==
    ASSUME NEW text \in Seq(Token), NEW cfg \in Load(text), cfg.platform_profiles # <<>>,
           OwnComesFirst(text, "platform_profiles", "register")
    PROVE  KeyKept(text, cfg, "platform_profiles", "register")
  <1> DEFINE own == Own(SectionOf(text, "platform_profiles"), "register")
  <1>1. /\ Present(text, "platform_profiles")
        /\ cfg.platform_profiles["register"] \in
              KeyOfKind(From(text, "platform_profiles"), "register", "n")
    BY PlatformRead DEF Byte, In, IntKey, Section
  <1>2. /\ own # {} => cfg.platform_profiles["register"] \in own
        /\ own = {} => ReadsElsewhere(text, "platform_profiles", "register")
    BY <1>1, RequiredKept
  <1>3. QED
    BY <1>1, <1>2, PlainDefaults, PlainKept

\* Section by section: every key of every file whose keys are in order.
LEMMA InOrderIsKept == KeysInOrder \subseteq KeysKept
  <1> SUFFICES ASSUME NEW d \in KeysInOrder, NEW cfg \in Configs[d],
                      NEW section \in Sections(cfg), NEW key \in KeysOf(cfg, section)
               PROVE  KeyKept(Text[d], cfg, section, key)
    BY DEF KeysInOrder, KeysKept
  <1>1. /\ Text[d] \in Seq(Token) /\ cfg \in Load(Text[d])
        /\ OwnComesFirst(Text[d], section, key)
    BY LifecycleAssumption DEF KeysInOrder, Configs
  <1>2. CASE section = "safety"
    BY <1>1, <1>2, SafetyKept DEF KeysOf
  <1>3. CASE section = "fan_modes"
    BY <1>1, <1>3, FanModesKept DEF KeysOf, Sections
  <1>4. CASE section = "keyboard_backlight"
    BY <1>1, <1>4, KeyboardKept DEF KeysOf, Sections
  <1>5. CASE section = "platform_profiles"
    BY <1>1, <1>5, PlatformKept DEF KeysOf, Sections
  <1>6. QED
    BY <1>2, <1>3, <1>4, <1>5 DEF Sections

\* In every model file whose sections hold their own keys before other words that
\* read like them, each section is read by its own keys (json_find_key,
\* json_int_key_checked, config_optional_clamped_int_key).
THEOREM SectionsKept == Spec => [](loaded \in KeysInOrder => SectionsKeepTheirKeys)
  <1>1. loaded \in KeysInOrder => SectionsKeepTheirKeys
    BY InOrderIsKept DEF SectionsKeepTheirKeys
  <1>2. QED
    BY <1>1, PTL
=============================================================================
