---------------------------- MODULE TypingProof -----------------------------
(***************************************************************************)
(* The shift flag of drivers/keyboard.c, for every set of keys and any     *)
(* number of presses: it is never stuck, and one shift at a time gives the *)
(* case that is meant.                                                     *)
(*                                                                         *)
(* While codes are on the wire the flag lags behind the keys.  Inductive   *)
(* is where it will settle: on what the last shift code on the wire says,  *)
(* fake or not, or where it stands if there is none.                       *)
(*                                                                         *)
(* The keys that get lost are counted in the same way: which codes on the  *)
(* wire will be swallowed is settled when they are sent.                   *)
(***************************************************************************)
EXTENDS Typing, SequenceTheorems, FunctionTheorems, FiniteSetTheorems,
        TLAPS

NoShiftBehind(i) == \A j \in DOMAIN wire : j > i => wire[j].key \notin Shifts
SettlesDown ==
  \/ NoShiftBehind(0) /\ ~shift_pressed
  \/ \E i \in DOMAIN wire :
       wire[i].key \in Shifts /\ ~wire[i].make /\ NoShiftBehind(i)
SettlesUp ==
  \/ NoShiftBehind(0) /\ shift_pressed
  \/ \E i \in DOMAIN wire :
       wire[i].key \in Shifts /\ wire[i].make /\ NoShiftBehind(i)

AllKeys == Shifts \cup CharKeys \cup NavKeys

IInv ==
  /\ wire \in Seq(ScanCodes) /\ held \subseteq AllKeys
  /\ HeldShifts = {} => SettlesDown
  /\ ~muddled /\ HeldShifts # {} => SettlesUp
  /\ ~muddled => \A a, b \in HeldShifts : a = b

LEMMA KeysDiffer ==
  /\ "E0" \notin AllKeys
  /\ \A s \in Shifts : s \notin CharKeys /\ s \notin NavKeys
BY KeyboardAssumption DEF AllKeys, Shifts

LEMMA CodesAreScanCodes ==
  /\ Prefix \in ScanCodes /\ Prefix.key \notin Shifts
  /\ \A make \in BOOLEAN, key \in AllKeys : Code(make, key) \in ScanCodes
  /\ \A key \in AllKeys :
       /\ Code(TRUE, key) \in ScanCodes /\ Code(TRUE, key).key = key
       /\ Code(FALSE, key) \in ScanCodes /\ Code(FALSE, key).key = key
       /\ Code(TRUE, key).make /\ ~Code(FALSE, key).make
BY KeysDiffer DEF Prefix, ScanCodes, Code, AllKeys

-----------------------------------------------------------------------------
(* Codes without a shift do not change where the flag settles.              *)
LEMMA SendQuiet ==
  ASSUME NEW codes \in Seq(ScanCodes), wire \in Seq(ScanCodes),
         wire' = wire \o codes, UNCHANGED shift_pressed,
         \A k \in DOMAIN codes : codes[k].key \notin Shifts
  PROVE  (SettlesDown => SettlesDown') /\ (SettlesUp => SettlesUp')
<1>1. /\ wire' \in Seq(ScanCodes) /\ Len(wire') = Len(wire) + Len(codes)
      /\ \A j \in 1 .. Len(wire) : wire'[j] = wire[j]
      /\ \A j \in 1 .. Len(codes) : wire'[Len(wire) + j] = codes[j]
  OBVIOUS
<1>2. ASSUME NEW i \in Nat, i <= Len(wire), NoShiftBehind(i)
      PROVE  NoShiftBehind(i)'
  <2>1. SUFFICES ASSUME NEW j \in 1 .. Len(wire'), j > i
                 PROVE  wire'[j].key \notin Shifts
    BY <1>1 DEF NoShiftBehind, Shifts
  <2>2. CASE j <= Len(wire)
    BY <1>1, <1>2, <2>1, <2>2 DEF NoShiftBehind
  <2>3. CASE j > Len(wire)
    <3>1. j - Len(wire) \in 1 .. Len(codes) /\ j = Len(wire) + (j - Len(wire))
      BY <1>1, <2>1, <2>3
    <3>. QED
      BY <1>1, <3>1
  <2>. QED
    BY <2>2, <2>3
<1>3. NoShiftBehind(0) => NoShiftBehind(0)'
  BY <1>2
<1>4. \A i \in DOMAIN wire :
        NoShiftBehind(i) =>
          i \in DOMAIN wire' /\ wire'[i] = wire[i] /\ NoShiftBehind(i)'
  BY <1>1, <1>2
<1>5. SettlesDown => SettlesDown'
  BY <1>3, <1>4 DEF SettlesDown
<1>6. SettlesUp => SettlesUp'
  BY <1>3, <1>4 DEF SettlesUp
<1>. QED
  BY <1>5, <1>6

(* The last shift code that is sent decides.                                *)
LEMMA SendShift ==
  ASSUME NEW codes \in Seq(ScanCodes), wire \in Seq(ScanCodes),
         wire' = wire \o codes,
         NEW k \in DOMAIN codes, codes[k].key \in Shifts,
         \A j \in DOMAIN codes : j > k => codes[j].key \notin Shifts
  PROVE  (codes[k].make => SettlesUp') /\ (~codes[k].make => SettlesDown')
<1>0. PICK i \in Nat : i = Len(wire) + k
  OBVIOUS
<1>1. /\ wire' \in Seq(ScanCodes) /\ Len(wire') = Len(wire) + Len(codes)
      /\ \A j \in 1 .. Len(codes) : wire'[Len(wire) + j] = codes[j]
      /\ i \in 1 .. Len(wire') /\ wire'[i] = codes[k]
  BY <1>0
<1>2. NoShiftBehind(i)'
  <2>1. SUFFICES ASSUME NEW j \in 1 .. Len(wire'), j > i
                 PROVE  wire'[j].key \notin Shifts
    BY <1>1 DEF NoShiftBehind, Shifts
  <2>2. /\ j - Len(wire) \in 1 .. Len(codes) /\ j - Len(wire) > k
        /\ j = Len(wire) + (j - Len(wire))
    BY <1>0, <1>1, <2>1
  <2>. QED
    BY <1>1, <2>2
<1>3. i \in DOMAIN wire' /\ wire'[i].key \in Shifts
  BY <1>1
<1>4. wire'[i].make => SettlesUp'
  BY <1>2, <1>3 DEF SettlesUp
<1>5. ~wire'[i].make => SettlesDown'
  BY <1>2, <1>3 DEF SettlesDown
<1>. QED
  BY <1>1, <1>4, <1>5

-----------------------------------------------------------------------------
LEMMA InitIInv == TypingInit => IInv
<1>. SUFFICES ASSUME TypingInit PROVE IInv
  OBVIOUS
<1>1. wire = <<>> /\ held = {} /\ HeldShifts = {} /\ ~shift_pressed
  BY DEF TypingInit, KeyboardInit, HeldShifts
<1>2. SettlesDown
  BY <1>1 DEF SettlesDown, NoShiftBehind
<1>. QED
  BY <1>1, <1>2 DEF IInv

(* The fakes of the shifts that are down: none, or shift codes at the end.  *)
FakesFit(make) ==
  /\ Fake(make) \in Seq(ScanCodes)
  /\ HeldShifts = {} => Fake(make) = <<>>
  /\ HeldShifts # {} =>
       Len(Fake(make)) > 0
         /\ \E s \in Shifts : Fake(make)[Len(Fake(make))] = Code(make, s)

LEMMA FakeCodes == FakesFit(TRUE) /\ FakesFit(FALSE)
<1>. SUFFICES ASSUME NEW make \in BOOLEAN PROVE FakesFit(make)
  BY Zenon
<1>1. /\ LeftShift \in AllKeys /\ RightShift \in AllKeys
      /\ \A s \in HeldShifts : s \in AllKeys /\ s \in Shifts
      /\ LeftShift \in Shifts /\ RightShift \in Shifts /\ Shifts # {}
  BY DEF AllKeys, Shifts, HeldShifts
<1>2. CASE HeldShifts = Shifts
  <2>1. Fake(make) = <<Prefix, Code(make, LeftShift), Prefix, Code(make, RightShift)>>
    BY <1>2 DEF Fake
  <2>2. Code(make, LeftShift) \in ScanCodes /\ Code(make, RightShift) \in ScanCodes
    BY <1>1, CodesAreScanCodes
  <2>. QED
    BY <1>1, <1>2, <2>1, <2>2, CodesAreScanCodes DEF FakesFit
<1>3. CASE HeldShifts = {}
  <2>1. Fake(make) = <<>>
    BY <1>1, <1>3 DEF Fake
  <2>. QED
    BY <1>3, <2>1 DEF FakesFit
<1>4. CASE HeldShifts # Shifts /\ HeldShifts # {}
  <2>. DEFINE s == CHOOSE s \in HeldShifts : TRUE
  <2>1. Fake(make) = <<Prefix, Code(make, s)>>
    BY <1>4 DEF Fake
  <2>2. s \in HeldShifts
    BY <1>4
  <2>. HIDE DEF s
  <2>3. Code(make, s) \in ScanCodes
    BY <1>1, <2>2, CodesAreScanCodes
  <2>. QED
    BY <1>1, <1>4, <2>1, <2>2, <2>3, CodesAreScanCodes DEF FakesFit
<1>. QED
  BY <1>2, <1>3, <1>4

(* What is sent for a key: its code, or a prefix and its code next to fakes. *)
LEMMA ShortLists ==
  ASSUME NEW c \in ScanCodes, NEW f \in Seq(ScanCodes)
  PROVE  /\ <<c>> \in Seq(ScanCodes)
         /\ <<Prefix, c>> \o f \in Seq(ScanCodes)
         /\ f \o <<Prefix, c>> \in Seq(ScanCodes)
         /\ f = <<>> => f \o <<Prefix, c>> = <<Prefix, c>>
                        /\ <<Prefix, c>> \o f = <<Prefix, c>>
         /\ Len(<<Prefix, c>> \o f) = Len(f) + 2
         /\ Len(f) > 0 => (<<Prefix, c>> \o f)[Len(f) + 2] = f[Len(f)]
         /\ c.key \notin Shifts => \A k \in 1 .. 2 : <<Prefix, c>>[k].key \notin Shifts
<1>. DEFINE p == <<Prefix, c>>
<1>1. p \in Seq(ScanCodes) /\ Len(p) = 2
  BY CodesAreScanCodes
<1>2. c.key \notin Shifts => \A k \in 1 .. 2 : <<Prefix, c>>[k].key \notin Shifts
  BY CodesAreScanCodes
<1>. HIDE DEF p
<1>3. /\ p \o f \in Seq(ScanCodes) /\ Len(p \o f) = Len(p) + Len(f)
      /\ \A i \in 1 .. Len(p) + Len(f) :
           (p \o f)[i] = IF i <= Len(p) THEN p[i] ELSE f[i - Len(p)]
  BY <1>1, ConcatProperties, Zenon
<1>6. Len(p \o f) = Len(f) + 2 /\ (Len(f) > 0 => (p \o f)[Len(f) + 2] = f[Len(f)])
  <2>. DEFINE g == p \o f
  <2>1. Len(f) \in Nat
    OBVIOUS
  <2>. HIDE DEF g
  <2>2. /\ Len(g) = Len(p) + Len(f)
        /\ \A i \in 1 .. Len(p) + Len(f) :
             g[i] = IF i <= Len(p) THEN p[i] ELSE f[i - Len(p)]
    BY <1>3 DEF g
  <2>3. Len(g) = Len(f) + 2 /\ (Len(f) > 0 => g[Len(f) + 2] = f[Len(f)])
    BY <1>1, <2>1, <2>2
  <2>. QED
    BY <2>3 DEF g
<1>4. f = <<>> => f \o p = p /\ p \o f = p
  BY <1>1
<1>5. f \o p \in Seq(ScanCodes)
  BY <1>1
<1>. QED
  BY <1>1, <1>2, <1>3, <1>4, <1>5, <1>6 DEF p

LEMMA PressPreserves ==
  ASSUME IInv, NEW key \in AllKeys, Press(key)
  PROVE  IInv'
<1>. DEFINE c == Code(TRUE, key)
            f == Fake(FALSE)
            codes == IF key \in NavKeys THEN f \o <<Prefix, c>> ELSE <<c>>
<1>0. /\ c \in ScanCodes /\ c.key = key /\ c.make
      /\ f \in Seq(ScanCodes)
      /\ HeldShifts = {} => f = <<>>
  BY CodesAreScanCodes, FakeCodes, Zenon DEF FakesFit
<1>1. /\ wire' = wire \o codes /\ wire \in Seq(ScanCodes)
      /\ held' = held \cup {key} /\ held \subseteq AllKeys
      /\ UNCHANGED shift_pressed
      /\ muddled' = (muddled \/ (key \in NavKeys \cup Shifts /\ HeldShifts # {}))
  BY DEF IInv, Press, Send, keyboardVars
<1>. HIDE DEF c, f
<1>2. codes \in Seq(ScanCodes)
  BY <1>0, ShortLists
<1>3. wire' \in Seq(ScanCodes) /\ held' \subseteq AllKeys
  <2>. HIDE DEF codes
  <2>. QED
    BY <1>1, <1>2
<1>4. CASE key \in Shifts
  <2>1. codes = <<c>> /\ key \in HeldShifts'
    BY <1>1, <1>4, KeysDiffer DEF HeldShifts
  <2>2. SettlesUp'
    <3>1. /\ 1 \in DOMAIN codes /\ codes[1].key \in Shifts /\ codes[1].make
          /\ \A j \in DOMAIN codes : j > 1 => codes[j].key \notin Shifts
      BY <1>0, <1>4, <2>1
    <3>. HIDE DEF codes
    <3>. QED
      BY <1>1, <1>2, <3>1, SendShift
  <2>3. ~muddled' => HeldShifts' = {key}
    BY <1>1, <1>4 DEF HeldShifts
  <2>. QED
    BY <1>3, <2>1, <2>2, <2>3 DEF IInv
<1>5. CASE key \notin Shifts
  <2>1. HeldShifts' = HeldShifts
    BY <1>1, <1>5 DEF HeldShifts
  <2>2. CASE \A k \in DOMAIN codes : codes[k].key \notin Shifts
    <3>1. (SettlesDown => SettlesDown') /\ (SettlesUp => SettlesUp')
      <4>. HIDE DEF codes
      <4>. QED
        BY <1>1, <1>2, <2>2, SendQuiet
    <3>. QED
      BY <1>1, <1>3, <2>1, <3>1 DEF IInv
  <2>3. CASE key \in NavKeys /\ HeldShifts # {}
    BY <1>1, <1>3, <2>1, <2>3 DEF IInv
  <2>4. CASE key \in NavKeys /\ HeldShifts = {}
    <3>1. codes = <<Prefix, c>>
      BY <1>0, <2>4, ShortLists
    <3>2. \A k \in DOMAIN codes : codes[k].key \notin Shifts
      BY <1>0, <1>5, <3>1, ShortLists
    <3>. QED
      BY <2>2, <3>2
  <2>5. CASE key \notin NavKeys
    BY <1>0, <1>5, <2>2, <2>5
  <2>. QED
    BY <2>3, <2>4, <2>5
<1>. QED
  BY <1>4, <1>5

LEMMA ReleasePreserves ==
  ASSUME IInv, NEW key \in AllKeys, Release(key)
  PROVE  IInv'
<1>. DEFINE c == Code(FALSE, key)
            f == Fake(TRUE)
            codes == IF key \in NavKeys THEN <<Prefix, c>> \o f ELSE <<c>>
<1>0. /\ c \in ScanCodes /\ c.key = key /\ ~c.make
      /\ f \in Seq(ScanCodes)
      /\ HeldShifts = {} => f = <<>>
  BY CodesAreScanCodes, FakeCodes, Zenon DEF FakesFit
<1>a. HeldShifts # {} =>
        Len(f) > 0 /\ \E s \in Shifts : f[Len(f)] = Code(TRUE, s)
  BY FakeCodes, Zenon DEF FakesFit
<1>b. HeldShifts # {} => Len(f) > 0 /\ f[Len(f)].key \in Shifts /\ f[Len(f)].make
  <2>1. \A s \in Shifts : Code(TRUE, s).key \in Shifts /\ Code(TRUE, s).make
    BY CodesAreScanCodes, Zenon DEF AllKeys
  <2>. QED
    BY <1>a, <2>1, Zenon
<1>1. /\ wire' = wire \o codes /\ wire \in Seq(ScanCodes)
      /\ held' = held \ {key} /\ held \subseteq AllKeys
      /\ UNCHANGED shift_pressed
      /\ muddled' = (muddled /\ held' \cap Shifts # {})
  BY DEF IInv, Release, Send, keyboardVars
<1>. HIDE DEF c, f
<1>2. codes \in Seq(ScanCodes)
  BY <1>0, ShortLists
<1>3. wire' \in Seq(ScanCodes) /\ held' \subseteq AllKeys
  <2>. HIDE DEF codes
  <2>. QED
    BY <1>1, <1>2
<1>4. CASE key \in Shifts
  <2>1. codes = <<c>> /\ key \in HeldShifts
    BY <1>4, KeysDiffer DEF HeldShifts, Release
  <2>2. SettlesDown'
    <3>1. /\ 1 \in DOMAIN codes /\ codes[1].key \in Shifts /\ ~codes[1].make
          /\ \A j \in DOMAIN codes : j > 1 => codes[j].key \notin Shifts
      <4>1. codes[1] = c /\ DOMAIN codes = 1 .. 1
        BY <2>1
      <4>. QED
        BY <1>0, <1>4, <4>1
    <3>. HIDE DEF codes
    <3>. QED
      BY <1>1, <1>2, <3>1, SendShift
  <2>3. HeldShifts' = HeldShifts \ {key}
    BY <1>1 DEF HeldShifts
  <2>4. ~muddled' => HeldShifts' = {}
    BY <1>1, <2>1, <2>3 DEF IInv, HeldShifts
  <2>. QED
    BY <1>3, <2>2, <2>4 DEF IInv
<1>5. CASE key \notin Shifts
  <2>1. HeldShifts' = HeldShifts
    BY <1>1, <1>5 DEF HeldShifts
  <2>2. ~muddled' => ~muddled \/ HeldShifts = {}
    BY <1>1, <2>1 DEF HeldShifts
  <2>3. CASE \A k \in DOMAIN codes : codes[k].key \notin Shifts
    <3>1. (SettlesDown => SettlesDown') /\ (SettlesUp => SettlesUp')
      <4>. HIDE DEF codes
      <4>. QED
        BY <1>1, <1>2, <2>3, SendQuiet
    <3>. QED
      BY <1>3, <2>1, <2>2, <3>1 DEF IInv
  <2>4. CASE key \in NavKeys /\ HeldShifts # {}
    <3>. DEFINE k == Len(codes)
    <3>1. k \in DOMAIN codes /\ codes[k].key \in Shifts /\ codes[k].make
      BY <1>0, <1>b, <2>4, ShortLists
    <3>0. \A j \in DOMAIN codes : ~(j > k)
      BY <1>2
    <3>. HIDE DEF k
    <3>2. SettlesUp'
      <4>. HIDE DEF codes
      <4>. QED
        BY <1>1, <1>2, <3>0, <3>1, SendShift
    <3>. QED
      BY <1>3, <2>1, <2>2, <2>4, <3>2 DEF IInv
  <2>5. CASE key \in NavKeys /\ HeldShifts = {}
    <3>1. codes = <<Prefix, c>>
      BY <1>0, <2>5, ShortLists
    <3>2. \A k \in DOMAIN codes : codes[k].key \notin Shifts
      BY <1>0, <1>5, <3>1, ShortLists
    <3>. QED
      BY <2>3, <3>2
  <2>6. CASE key \notin NavKeys
    BY <1>0, <1>5, <2>3, <2>6
  <2>. QED
    BY <2>4, <2>5, <2>6
<1>. QED
  BY <1>4, <1>5

(* The driver takes a code off the wire and puts what it says in the flag.  *)
LEMMA InterruptPreserves == ASSUME IInv, Interrupt PROVE IInv'
<1>1. /\ wire # <<>> /\ wire \in Seq(ScanCodes) /\ wire' = Tail(wire)
      /\ UNCHANGED <<held, muddled>>
      /\ HeldShifts' = HeldShifts
  BY DEF IInv, Interrupt, HeldShifts
<1>2. /\ Len(wire) > 0 /\ Head(wire) = wire[1] /\ wire[1] \in ScanCodes
      /\ wire' \in Seq(ScanCodes) /\ Len(wire') = Len(wire) - 1
      /\ \A j \in 1 .. Len(wire') : wire'[j] = wire[j + 1]
  BY <1>1, HeadTailProperties
<1>3. /\ wire[1].key \in Shifts => shift_pressed' = wire[1].make
      /\ wire[1].key \notin Shifts => UNCHANGED shift_pressed
  BY <1>2, CodesAreScanCodes
  DEF Interrupt, HandleScanCode, HandlePrefix, HandleShift, HandleExtended,
      HandlePlain
<1>4. ASSUME NEW i \in Nat, NoShiftBehind(i + 1)
      PROVE  NoShiftBehind(i)'
  BY <1>1, <1>2, <1>4 DEF NoShiftBehind, Shifts
<1>5. wire[1].key \notin Shifts /\ NoShiftBehind(0) => NoShiftBehind(0)'
  BY <1>4, <1>2 DEF NoShiftBehind
<1>6. ASSUME NEW i \in DOMAIN wire, wire[i].key \in Shifts, NoShiftBehind(i), i # 1
      PROVE  /\ i - 1 \in DOMAIN wire' /\ wire'[i - 1] = wire[i]
             /\ NoShiftBehind(i - 1)'
  BY <1>1, <1>2, <1>4, <1>6
<1>7. wire[1].key \in Shifts /\ NoShiftBehind(1) => NoShiftBehind(0)'
  BY <1>4
<1>8. NoShiftBehind(0) => wire[1].key \notin Shifts
  BY <1>1, <1>2 DEF NoShiftBehind
<1>9. SettlesDown => SettlesDown'
  BY <1>2, <1>3, <1>5, <1>6, <1>7, <1>8 DEF SettlesDown, Shifts
<1>10. SettlesUp => SettlesUp'
  BY <1>2, <1>3, <1>5, <1>6, <1>7, <1>8 DEF SettlesUp, Shifts
<1>. QED
  BY <1>1, <1>2, <1>9, <1>10 DEF IInv

LEMMA StepIInv == IInv /\ [TypingNext]_typingVars => IInv'
<1>1. IInv /\ UNCHANGED typingVars => IInv'
  BY DEF typingVars, keyboardVars, envVars, IInv, SettlesUp, SettlesDown,
         NoShiftBehind, HeldShifts
<1>. QED
  BY <1>1, PressPreserves, ReleasePreserves, InterruptPreserves
  DEF TypingNext, AllKeys

LEMMA SpecIInv == TypingSpec => []IInv
BY InitIInv, StepIInv, PTL DEF TypingSpec

(* With no shift down and every code handled, the driver is not in shifted  *)
(* mode, whatever fakes the keyboard has sent.                              *)
THEOREM SpecShiftNeverStuck == TypingSpec => []ShiftNeverStuck
<1>1. IInv => ShiftNeverStuck
  BY DEF IInv, ShiftNeverStuck, SettlesDown
<1>. QED
  BY SpecIInv, <1>1, PTL

(* Used one at a time, and without navigation keys, the shifts do what they *)
(* say.                                                                     *)
THEOREM SpecShiftFollowsKeys == TypingSpec => []ShiftFollowsKeys
<1>1. IInv => ShiftFollowsKeys
  BY DEF IInv, ShiftFollowsKeys, SettlesDown, SettlesUp
<1>. QED
  BY SpecIInv, <1>1, PTL

-----------------------------------------------------------------------------
(* Which keys are going to be swallowed is decided when they are sent: those *)
(* with a prefix before them and nothing but prefixes and shifts between.   *)
Keeps(c) == c = Prefix \/ c.key \in Shifts
PrefixBefore(i) ==
  \/ extended_prefix /\ \A k \in DOMAIN wire : k < i => Keeps(wire[k])
  \/ \E j \in DOMAIN wire :
       /\ j < i /\ wire[j] = Prefix
       /\ \A k \in DOMAIN wire : j <= k /\ k < i => Keeps(wire[k])
Doomed ==
  {i \in DOMAIN wire : wire[i].make /\ wire[i].key \in CharKeys /\ PrefixBefore(i)}
Dangling == PrefixBefore(Len(wire) + 1)

(* The keys lost, those that will be, and the next one if a prefix is left. *)
LossInv ==
  /\ lost \in Nat /\ fakes \in Nat /\ extended_prefix \in BOOLEAN
  /\ lost + Cardinality(Doomed) <= fakes
  /\ Dangling => lost + Cardinality(Doomed) + 1 <= fakes

LEMMA DoomedFinite ==
  ASSUME wire \in Seq(ScanCodes)
  PROVE  IsFiniteSet(Doomed) /\ Cardinality(Doomed) \in Nat
<1>1. Doomed \subseteq 1 .. Len(wire) /\ Len(wire) \in Nat
  BY DEF Doomed
<1>2. IsFiniteSet(1 .. Len(wire))
  BY <1>1, FS_Interval
<1>. QED
  BY <1>1, <1>2, FS_Subset, FS_CardinalityType

LEMMA InitLossInv == TypingInit => LossInv
<1>. SUFFICES ASSUME TypingInit PROVE LossInv
  OBVIOUS
<1>1. wire = <<>> /\ extended_prefix = FALSE /\ lost = 0 /\ fakes = 0
  BY DEF TypingInit, KeyboardInit
<1>2. Doomed = {} /\ ~Dangling
  BY <1>1 DEF Doomed, Dangling, PrefixBefore
<1>3. Cardinality(Doomed) = 0
  BY <1>2, FS_EmptySet
<1>4. extended_prefix \in BOOLEAN
  BY <1>1
<1>5. lost + Cardinality(Doomed) <= fakes /\ lost \in Nat /\ fakes \in Nat
  BY <1>1, <1>3
<1>. QED
  BY <1>2, <1>4, <1>5 DEF LossInv

(* Codes that are sent change nothing for those before them.                *)
LEMMA SendDoomed ==
  ASSUME NEW codes \in Seq(ScanCodes), wire \in Seq(ScanCodes),
         wire' = wire \o codes, UNCHANGED extended_prefix
  PROVE  /\ \A i \in 1 .. Len(wire) + 1 : PrefixBefore(i)' <=> PrefixBefore(i)
         /\ Doomed \subseteq Doomed'
         /\ \A i \in Doomed' \ Doomed :
              /\ i - Len(wire) \in DOMAIN codes
              /\ codes[i - Len(wire)].make /\ codes[i - Len(wire)].key \in CharKeys
              /\ PrefixBefore(i)'
<1>1. /\ wire' \in Seq(ScanCodes) /\ Len(wire') = Len(wire) + Len(codes)
      /\ \A j \in 1 .. Len(wire) : wire'[j] = wire[j]
      /\ \A j \in 1 .. Len(codes) : wire'[Len(wire) + j] = codes[j]
      /\ Len(wire) \in Nat /\ Len(codes) \in Nat
      /\ DOMAIN wire = 1 .. Len(wire) /\ DOMAIN wire' = 1 .. Len(wire')
      /\ DOMAIN codes = 1 .. Len(codes)
  OBVIOUS
<1>2. \A i \in 1 .. Len(wire) + 1 : PrefixBefore(i)' <=> PrefixBefore(i)
  <2>. SUFFICES ASSUME NEW i \in 1 .. Len(wire) + 1
                PROVE  PrefixBefore(i)' <=> PrefixBefore(i)
    OBVIOUS
  <2>1. \A k : k \in DOMAIN wire' /\ k < i <=> k \in DOMAIN wire /\ k < i
    BY <1>1
  <2>2. \A k \in DOMAIN wire : wire'[k] = wire[k]
    BY <1>1
  <2>. QED
    BY <2>1, <2>2, SMTT(30) DEF PrefixBefore, Keeps, Shifts
<1>3. \A i \in DOMAIN wire : i \in 1 .. Len(wire) + 1 /\ i \in DOMAIN wire'
  BY <1>1
<1>4. Doomed \subseteq Doomed'
  BY <1>1, <1>2, <1>3 DEF Doomed
<1>5. \A i \in Doomed' \ Doomed : i \notin 1 .. Len(wire)
  BY <1>1, <1>2, <1>3 DEF Doomed
<1>6. \A i \in Doomed' \ Doomed :
        i - Len(wire) \in DOMAIN codes /\ wire'[i] = codes[i - Len(wire)]
  <2>. SUFFICES ASSUME NEW i \in Doomed' \ Doomed
                PROVE  i - Len(wire) \in DOMAIN codes /\ wire'[i] = codes[i - Len(wire)]
    OBVIOUS
  <2>1. i \in 1 .. Len(wire') /\ i \notin 1 .. Len(wire)
    BY <1>1, <1>5 DEF Doomed
  <2>2. i - Len(wire) \in 1 .. Len(codes) /\ i = Len(wire) + (i - Len(wire))
    BY <1>1, <2>1
  <2>. QED
    BY <1>1, <2>2
<1>. QED
  BY <1>2, <1>4, <1>6 DEF Doomed

(* No prefix is left behind a code that is no shift.                        *)
LEMMA SendPlain ==
  ASSUME NEW codes \in Seq(ScanCodes), wire \in Seq(ScanCodes),
         wire' = wire \o codes, Len(codes) > 0, ~Keeps(codes[Len(codes)])
  PROVE  ~Dangling'
<1>. DEFINE n == Len(wire')
<1>1. n \in DOMAIN wire' /\ wire'[n] = codes[Len(codes)] /\ n \in Nat /\ n < n + 1
      /\ \A j \in DOMAIN wire' : j <= n
  <2>1. /\ Len(wire') = Len(wire) + Len(codes) /\ wire' \in Seq(ScanCodes)
        /\ Len(codes) \in 1 .. Len(codes)
        /\ \A j \in 1 .. Len(codes) : wire'[Len(wire) + j] = codes[j]
    OBVIOUS
  <2>. QED
    BY <2>1
<1>2. ~Keeps(wire'[n])
  BY <1>1
<1>. QED
  BY <1>1, <1>2 DEF Dangling, PrefixBefore, Keeps, Shifts

(* What a key that is no character key puts on the wire is not swallowed.   *)
LEMMA SendQuietly ==
  ASSUME NEW codes \in Seq(ScanCodes), wire \in Seq(ScanCodes),
         wire' = wire \o codes, UNCHANGED <<extended_prefix, lost>>,
         fakes' \in Nat, LossInv,
         \A k \in DOMAIN codes : ~codes[k].make \/ codes[k].key \notin CharKeys,
         \/ fakes' = fakes /\ (Dangling' => Dangling)
         \/ fakes' = fakes + 1
  PROVE  LossInv'
<1>1. Doomed' = Doomed
  BY SendDoomed
<1>2. Cardinality(Doomed) \in Nat /\ Cardinality(Doomed)' = Cardinality(Doomed)
  BY <1>1, DoomedFinite
<1>3. PICK d \in Nat : d = Cardinality(Doomed) /\ d = Cardinality(Doomed)'
  BY <1>2
<1>4. /\ lost \in Nat /\ fakes \in Nat /\ extended_prefix \in BOOLEAN
      /\ lost + d <= fakes
      /\ Dangling => lost + d + 1 <= fakes
  BY <1>3 DEF LossInv
<1>5. lost' = lost /\ extended_prefix' = extended_prefix
  OBVIOUS
<1>6. lost' + d <= fakes' /\ (Dangling' => lost' + d + 1 <= fakes')
  BY <1>4, <1>5
<1>. QED
  BY <1>3, <1>4, <1>5, <1>6 DEF LossInv

(* A character key is swallowed if a prefix is left on the wire, and then   *)
(* there is none left.                                                      *)
LEMMA SendCharKey ==
  ASSUME NEW c \in ScanCodes, c.key \in CharKeys, wire \in Seq(ScanCodes),
         wire' = wire \o <<c>>, UNCHANGED <<extended_prefix, lost, fakes>>, LossInv
  PROVE  LossInv'
<1>. DEFINE codes == <<c>>
<1>1. /\ codes \in Seq(ScanCodes) /\ Len(codes) = 1 /\ codes[1] = c
      /\ DOMAIN codes = {1}
  OBVIOUS
<1>2. ~Keeps(c)
  BY KeyboardAssumption DEF Keeps, Prefix, Code, Shifts
<1>. HIDE DEF codes
<1>a. wire' = wire \o codes
  BY DEF codes
<1>3. ~Dangling'
  <2>1. Len(codes) > 0 /\ ~Keeps(codes[Len(codes)])
    BY <1>1, <1>2
  <2>. QED
    BY <1>1, <1>a, <2>1, SendPlain
<1>5. PICK n \in Nat : n = Len(wire) + 1
  OBVIOUS
<1>4. /\ Doomed \subseteq Doomed'
      /\ \A i \in Doomed' \ Doomed : i - Len(wire) = 1 /\ PrefixBefore(i)'
      /\ PrefixBefore(n)' <=> Dangling
  <2>1. n \in 1 .. Len(wire) + 1 /\ (Dangling <=> PrefixBefore(n))
    BY <1>5 DEF Dangling
  <2>2. /\ \A i \in 1 .. Len(wire) + 1 : PrefixBefore(i)' <=> PrefixBefore(i)
        /\ Doomed \subseteq Doomed'
        /\ \A i \in Doomed' \ Doomed :
             i - Len(wire) \in DOMAIN codes /\ PrefixBefore(i)'
    BY <1>1, <1>a, SendDoomed
  <2>. QED
    BY <1>1, <2>1, <2>2
<1>6. \A i \in Doomed' \ Doomed : i = n
  <2>1. \A i \in Doomed' : i \in Nat
    <3>1. wire' \in Seq(ScanCodes)
      BY <1>1 DEF codes
    <3>. QED
      BY <3>1 DEF Doomed
  <2>. QED
    BY <1>4, <1>5, <2>1
<1>7. PICK d \in Nat : d = Cardinality(Doomed) /\ IsFiniteSet(Doomed)
  BY DoomedFinite
<1>8. /\ lost \in Nat /\ fakes \in Nat /\ extended_prefix \in BOOLEAN
      /\ lost + d <= fakes
      /\ Dangling => lost + d + 1 <= fakes
      /\ lost' = lost /\ fakes' = fakes /\ extended_prefix' = extended_prefix
  BY <1>7 DEF LossInv
<1>9. CASE Doomed' = Doomed
  BY <1>3, <1>7, <1>8, <1>9 DEF LossInv
<1>10. CASE Doomed' # Doomed
  <2>1. PICK i \in Doomed' \ Doomed : i = n /\ PrefixBefore(i)'
    BY <1>4, <1>6, <1>10
  <2>2. Dangling /\ Doomed' = Doomed \cup {n} /\ n \notin Doomed
    <3>1. PrefixBefore(n)' <=> Dangling
      BY <1>4
    <3>2. PrefixBefore(i)' <=> PrefixBefore(n)'
      BY <2>1
    <3>. QED
      BY <1>4, <1>6, <2>1, <3>1, <3>2
  <2>3. Cardinality(Doomed)' = d + 1
    BY <1>7, <2>2, FS_AddElement
  <2>. QED
    BY <1>3, <1>7, <1>8, <2>2, <2>3 DEF LossInv
<1>. QED
  BY <1>9, <1>10

(* A shift leaves a prefix as it was.                                       *)
LEMMA SendShiftKey ==
  ASSUME NEW c \in ScanCodes, c.key \in Shifts, wire \in Seq(ScanCodes),
         wire' = wire \o <<c>>, UNCHANGED <<extended_prefix, lost, fakes>>, LossInv
  PROVE  LossInv'
<1>. DEFINE codes == <<c>>
<1>1. /\ codes \in Seq(ScanCodes) /\ Len(codes) = 1 /\ codes[1] = c
      /\ DOMAIN codes = {1} /\ wire' = wire \o codes
      /\ c # Prefix /\ c.key \notin CharKeys
  BY KeysDiffer, CodesAreScanCodes
<1>2. PICK n \in Nat : n = Len(wire) + 1
  OBVIOUS
<1>3. /\ Len(wire') = n /\ wire'[n] = c /\ wire' \in Seq(ScanCodes)
      /\ DOMAIN wire' = 1 .. n
  BY <1>2
<1>. HIDE DEF codes
<1>4. n \in 1 .. Len(wire) + 1 /\ (Dangling <=> PrefixBefore(n))
  BY <1>2 DEF Dangling
<1>5. PrefixBefore(n)' <=> Dangling
  BY <1>1, <1>4, SendDoomed
<1>6. PrefixBefore(n + 1)' => PrefixBefore(n)'
  <2>1. \A j \in 1 .. n : j < n + 1 /\ wire'[j] = Prefix => j < n
    BY <1>1, <1>3
  <2>2. \A k : k < n /\ k \in 1 .. n => k < n + 1
    OBVIOUS
  <2>. QED
    BY <1>3, <2>1, <2>2 DEF PrefixBefore, Keeps, Shifts
<1>7. Dangling' => Dangling
  <2>1. Dangling' <=> PrefixBefore(n + 1)'
    BY <1>3 DEF Dangling
  <2>. QED
    BY <1>5, <1>6, <2>1
<1>8. fakes' \in Nat
  BY DEF LossInv
<1>. QED
  BY <1>1, <1>7, <1>8, SendQuietly

LEMMA FakeKeeps ==
  ASSUME NEW make \in BOOLEAN
  PROVE  \A k \in DOMAIN Fake(make) : Keeps(Fake(make)[k])
<1>1. \A s \in Shifts : Keeps(Code(make, s)) /\ Keeps(Prefix)
  BY DEF Keeps, Code, Prefix
<1>2. CASE HeldShifts = Shifts
  <2>1. Fake(make) = <<Prefix, Code(make, LeftShift), Prefix, Code(make, RightShift)>>
    BY <1>2 DEF Fake
  <2>. QED
    BY <1>1, <2>1 DEF Shifts
<1>3. CASE HeldShifts = {}
  BY <1>3 DEF Fake, Shifts
<1>4. CASE HeldShifts # Shifts /\ HeldShifts # {}
  <2>. DEFINE s == CHOOSE s \in HeldShifts : TRUE
  <2>1. Fake(make) = <<Prefix, Code(make, s)>>
    BY <1>4 DEF Fake
  <2>2. s \in Shifts
    BY <1>4 DEF HeldShifts
  <2>. HIDE DEF s
  <2>. QED
    BY <1>1, <2>1, <2>2
<1>. QED
  BY <1>2, <1>3, <1>4

LEMMA KeepsNoChar == \A c : Keeps(c) => c.key \notin CharKeys
BY KeysDiffer, KeyboardAssumption DEF Keeps, Prefix, Code

NoChars(codes) == \A k \in DOMAIN codes : codes[k].key \notin CharKeys

LEMMA ConcatFacts ==
  ASSUME NEW a \in Seq(ScanCodes), NEW b \in Seq(ScanCodes)
  PROVE  /\ a \o b \in Seq(ScanCodes) /\ Len(a \o b) = Len(a) + Len(b)
         /\ Len(b) > 0 => (a \o b)[Len(a) + Len(b)] = b[Len(b)]
         /\ NoChars(a) /\ NoChars(b) => NoChars(a \o b)
<1>1. /\ a \o b \in Seq(ScanCodes) /\ Len(a \o b) = Len(a) + Len(b)
      /\ \A k \in 1 .. Len(a) : (a \o b)[k] = a[k]
      /\ \A k \in 1 .. Len(b) : (a \o b)[Len(a) + k] = b[k]
  OBVIOUS
<1>2. ASSUME NEW k \in DOMAIN (a \o b), k \notin DOMAIN a
      PROVE  \E i \in DOMAIN b : (a \o b)[k] = b[i]
  <2>1. k - Len(a) \in 1 .. Len(b) /\ k = Len(a) + (k - Len(a))
    BY <1>1, <1>2
  <2>. QED
    BY <1>1, <2>1
<1>3. NoChars(a) /\ NoChars(b) => NoChars(a \o b)
  BY <1>1, <1>2 DEF NoChars
<1>. QED
  BY <1>1, <1>3

(* The codes of a navigation key and the fakes with it.                     *)
NavCodes(codes) ==
  /\ codes \in Seq(ScanCodes) /\ Len(codes) > 0
  /\ NoChars(codes)

NavPair(make, key) == <<Prefix, Code(make, key)>>

LEMMA NavCodesFit ==
  ASSUME NEW make \in BOOLEAN, NEW fake \in BOOLEAN, NEW key \in NavKeys
  PROVE  /\ NavCodes(NavPair(make, key) \o Fake(fake))
         /\ NavCodes(Fake(fake) \o NavPair(make, key))
         /\ (Fake(fake) \o NavPair(make, key))
              [Len(Fake(fake) \o NavPair(make, key))].key = key
         /\ HeldShifts = {} =>
              (NavPair(make, key) \o Fake(fake))
              [Len(NavPair(make, key) \o Fake(fake))].key = key
<1>. DEFINE p == NavPair(make, key)
            f == Fake(fake)
<1>0. HeldShifts = {} => f = <<>>
  BY FakeCodes, Zenon DEF FakesFit
<1>1. /\ f \in Seq(ScanCodes) /\ NoChars(f)
  BY FakeCodes, FakeKeeps, KeepsNoChar, Zenon DEF FakesFit, NoChars
<1>2. p \in Seq(ScanCodes) /\ Len(p) = 2 /\ NoChars(p)
  BY CodesAreScanCodes, KeyboardAssumption
  DEF AllKeys, Prefix, Code, NoChars, NavPair
<1>3. p[2].key = key
  BY DEF Code, NavPair
<1>. HIDE DEF p, f
<1>4. /\ p \o f \in Seq(ScanCodes) /\ f \o p \in Seq(ScanCodes)
      /\ Len(p \o f) = Len(p) + Len(f) /\ Len(f \o p) = Len(f) + Len(p)
      /\ Len(p) > 0 => (f \o p)[Len(f) + Len(p)] = p[Len(p)]
  BY <1>1, <1>2, ConcatFacts, Zenon
<1>5. NoChars(p \o f)
  BY <1>1, <1>2, ConcatFacts, Zenon
<1>6. NoChars(f \o p)
  BY <1>1, <1>2, ConcatFacts, Zenon
<1>7. Len(f) \in Nat /\ Len(p) > 0 /\ Len(p \o f) > 0 /\ Len(f \o p) > 0
  <2>1. Len(f) \in Nat
    BY <1>1, LenProperties
  <2>. QED
    BY <1>2, <1>4, <2>1
<1>8. NavCodes(p \o f) /\ NavCodes(f \o p)
  BY <1>2, <1>4, <1>5, <1>6, <1>7, Zenon DEF NavCodes
<1>9. (f \o p)[Len(f \o p)].key = key
  BY <1>2, <1>3, <1>4, <1>7, Zenon
<1>10. HeldShifts = {} => (p \o f)[Len(p \o f)].key = key
  <2>1. p \o <<>> = p
    BY <1>2
  <2>2. p[Len(p)].key = key
    BY <1>2, <1>3
  <2>. QED
    BY <1>0, <2>1, <2>2, Zenon
<1>. QED
  BY <1>8, <1>9, <1>10, Zenon DEF p, f

(* The last code sent for a navigation key without fakes ends the prefix.   *)
LEMMA SendNavKey ==
  ASSUME NEW codes, NavCodes(codes), wire \in Seq(ScanCodes), wire' = wire \o codes,
         UNCHANGED <<extended_prefix, lost>>, fakes' \in Nat, LossInv,
         \/ codes[Len(codes)].key \in NavKeys /\ fakes' = fakes
         \/ fakes' = fakes + 1
  PROVE  LossInv'
<1>1. /\ codes \in Seq(ScanCodes) /\ Len(codes) > 0
      /\ \A k \in DOMAIN codes : ~codes[k].make \/ codes[k].key \notin CharKeys
  BY DEF NavCodes, NoChars
<1>2. CASE codes[Len(codes)].key \in NavKeys /\ fakes' = fakes
  <2>1. ~Keeps(codes[Len(codes)])
    BY <1>2, KeysDiffer DEF Keeps, Prefix, Code, AllKeys
  <2>2. ~Dangling'
    BY <1>1, <2>1, SendPlain
  <2>. QED
    BY <1>1, <1>2, <2>2, SendQuietly
<1>3. CASE fakes' = fakes + 1
  BY <1>1, <1>3, SendQuietly
<1>. QED
  BY <1>2, <1>3

LEMMA PressLoss ==
  ASSUME IInv, LossInv, NEW key \in AllKeys, Press(key)
  PROVE  LossInv'
<1>1. /\ wire \in Seq(ScanCodes) /\ fakes' \in Nat
      /\ UNCHANGED <<extended_prefix, lost, fakes>>
      /\ Code(TRUE, key) \in ScanCodes /\ Code(TRUE, key).key = key
  BY CodesAreScanCodes DEF IInv, LossInv, Press, keyboardVars
<1>2. CASE key \in NavKeys
  <2>. DEFINE codes == Fake(FALSE) \o NavPair(TRUE, key)
  <2>1. wire' = wire \o codes
    BY <1>2 DEF Press, Send, NavPair
  <2>2. NavCodes(codes) /\ codes[Len(codes)].key = key
    BY <1>2, NavCodesFit, Zenon
  <2>. HIDE DEF codes
  <2>. QED
    BY <1>1, <1>2, <2>1, <2>2, SendNavKey
<1>3. CASE key \notin NavKeys
  <2>1. wire' = wire \o <<Code(TRUE, key)>>
    BY <1>3 DEF Press, Send
  <2>. QED
    BY <1>1, <1>3, <2>1, SendShiftKey, SendCharKey DEF AllKeys
<1>. QED
  BY <1>2, <1>3

LEMMA ReleaseLoss ==
  ASSUME IInv, LossInv, NEW key \in AllKeys, Release(key)
  PROVE  LossInv'
<1>1. /\ wire \in Seq(ScanCodes)
      /\ UNCHANGED <<extended_prefix, lost>>
      /\ fakes \in Nat
      /\ fakes' = IF key \in NavKeys /\ HeldShifts # {} THEN fakes + 1 ELSE fakes
      /\ Code(FALSE, key) \in ScanCodes /\ Code(FALSE, key).key = key
      /\ ~Code(FALSE, key).make
  BY CodesAreScanCodes DEF IInv, LossInv, Release, keyboardVars
<1>2. fakes' \in Nat
  BY <1>1
<1>3. CASE key \in NavKeys
  <2>. DEFINE codes == NavPair(FALSE, key) \o Fake(TRUE)
  <2>1. wire' = wire \o codes
    BY <1>3 DEF Release, Send, NavPair
  <2>2. NavCodes(codes) /\ (HeldShifts = {} => codes[Len(codes)].key = key)
    BY <1>3, NavCodesFit, Zenon
  <2>. HIDE DEF codes
  <2>. QED
    BY <1>1, <1>2, <1>3, <2>1, <2>2, SendNavKey
<1>4. CASE key \in Shifts
  <2>1. wire' = wire \o <<Code(FALSE, key)>> /\ fakes' = fakes
    BY <1>1, <1>4, KeysDiffer DEF Release, Send
  <2>. QED
    BY <1>1, <1>4, <2>1, SendShiftKey
<1>5. CASE key \in CharKeys
  <2>0. PICK c \in ScanCodes : c = Code(FALSE, key) /\ c.key = key /\ ~c.make
    BY <1>1
  <2>. DEFINE codes == <<c>>
  <2>1. wire' = wire \o codes /\ fakes' = fakes
    BY <1>1, <1>5, <2>0, KeyboardAssumption DEF Release, Send
  <2>2. /\ codes \in Seq(ScanCodes) /\ Len(codes) = 1 /\ Len(codes) > 0
        /\ DOMAIN codes = {1} /\ codes[1].key = key /\ ~codes[1].make
    <3>1. /\ codes \in Seq(ScanCodes) /\ Len(codes) = 1 /\ Len(codes) > 0
          /\ DOMAIN codes = {1} /\ codes[1] = c
      OBVIOUS
    <3>. QED
      BY <2>0, <3>1, Zenon
  <2>. HIDE DEF codes
  <2>3. ~Keeps(codes[Len(codes)])
    BY <1>5, <2>2, KeyboardAssumption DEF Keeps, Prefix, Code, Shifts
  <2>4. ~Dangling'
    BY <1>1, <2>1, <2>2, <2>3, SendPlain
  <2>. QED
    BY <1>1, <1>2, <2>1, <2>2, <2>4, SendQuietly
<1>. QED
  BY <1>3, <1>4, <1>5 DEF AllKeys

(* A code is taken off the wire: the prefix it leaves or ends is the one    *)
(* that was foreseen.                                                       *)
LEMMA InterruptPrefix ==
  ASSUME IInv, LossInv, Interrupt
  PROVE  /\ extended_prefix' \in BOOLEAN
         /\ \A i \in 1 .. Len(wire) : PrefixBefore(i)' <=> PrefixBefore(i + 1)
         /\ PrefixBefore(1) <=> extended_prefix
<1>1. /\ wire # <<>> /\ wire \in Seq(ScanCodes) /\ wire' = Tail(wire)
      /\ extended_prefix \in BOOLEAN
  BY DEF IInv, LossInv, Interrupt
<1>2. PICK n \in Nat :
        /\ n = Len(wire) /\ n > 0 /\ Head(wire) = wire[1] /\ wire[1] \in ScanCodes
        /\ DOMAIN wire = 1 .. n /\ DOMAIN wire' = 1 .. (n - 1)
        /\ \A j \in 1 .. (n - 1) : wire'[j] = wire[j + 1]
  BY <1>1, HeadTailProperties
<1>3. /\ extended_prefix' \in BOOLEAN
      /\ extended_prefix' <=> wire[1] = Prefix \/ (extended_prefix /\ Keeps(wire[1]))
  <2>1. wire[1] = Head(wire) /\ HandleScanCode(wire[1])
    BY <1>2 DEF Interrupt
  <2>2. CASE wire[1] = Prefix
    <3>1. extended_prefix' = TRUE
      BY <2>1, <2>2, CodesAreScanCodes DEF HandleScanCode, HandlePrefix
    <3>. QED
      BY <2>2, <3>1, Zenon
  <2>3. CASE wire[1] # Prefix /\ wire[1].key \in Shifts
    BY <1>1, <2>1, <2>3 DEF HandleScanCode, HandleShift, Keeps
  <2>4. CASE wire[1] # Prefix /\ wire[1].key \notin Shifts /\ extended_prefix
    BY <2>1, <2>4 DEF HandleScanCode, HandleExtended, Keeps
  <2>5. CASE wire[1] # Prefix /\ wire[1].key \notin Shifts /\ ~extended_prefix
    BY <1>1, <2>1, <2>5 DEF HandleScanCode, HandlePlain, Keeps
  <2>. QED
    BY <2>2, <2>3, <2>4, <2>5
<1>4. Keeps(Prefix)
  BY DEF Keeps
<1>5. ASSUME NEW i \in 1 .. n
      PROVE  PrefixBefore(i)' <=> PrefixBefore(i + 1)
  <2>1. PrefixBefore(i)' <=>
          \/ extended_prefix' /\ \A k \in 1 .. (n - 1) : k < i => Keeps(wire[k + 1])
          \/ \E j \in 1 .. (n - 1) :
               /\ j < i /\ wire[j + 1] = Prefix
               /\ \A k \in 1 .. (n - 1) : j <= k /\ k < i => Keeps(wire[k + 1])
    <3>1. PrefixBefore(i)' <=>
            \/ /\ extended_prefix'
               /\ \A k \in DOMAIN wire' : k < i => wire'[k] = Prefix \/ wire'[k].key \in Shifts
            \/ \E j \in DOMAIN wire' :
                 /\ j < i /\ wire'[j] = Prefix
                 /\ \A k \in DOMAIN wire' :
                      j <= k /\ k < i => wire'[k] = Prefix \/ wire'[k].key \in Shifts
      BY DEF PrefixBefore, Keeps, Shifts
    <3>2. \A k \in 1 .. (n - 1) :
            wire'[k] = wire[k + 1]
      BY <1>2
    <3>3. DOMAIN wire' = 1 .. (n - 1)
      BY <1>2
    <3>. QED
      BY <3>1, <3>2, <3>3, ZenonT(40) DEF Keeps
  <2>2. PrefixBefore(i + 1) <=>
          \/ extended_prefix /\ \A k \in 1 .. n : k < i + 1 => Keeps(wire[k])
          \/ \E j \in 1 .. n :
               /\ j < i + 1 /\ wire[j] = Prefix
               /\ \A k \in 1 .. n : j <= k /\ k < i + 1 => Keeps(wire[k])
    BY <1>2 DEF PrefixBefore
  <2>3. ASSUME PrefixBefore(i)'
        PROVE  PrefixBefore(i + 1)
    <3>1. CASE extended_prefix' /\ \A k \in 1 .. (n - 1) : k < i => Keeps(wire[k + 1])
      <4>1. \A k \in 1 .. n : k < i + 1 /\ k # 1 => Keeps(wire[k])
        <5>. SUFFICES ASSUME NEW k \in 1 .. n, k < i + 1, k # 1
                      PROVE  Keeps(wire[k])
          OBVIOUS
        <5>1. k - 1 \in 1 .. (n - 1) /\ k - 1 < i /\ (k - 1) + 1 = k
          BY <1>2
        <5>2. Keeps(wire[(k - 1) + 1])
          BY <3>1, <5>1
        <5>. QED
          BY <5>1, <5>2
      <4>2. 1 \in 1 .. n /\ 1 < i + 1
        BY <1>2
      <4>3. CASE wire[1] = Prefix
        BY <1>4, <2>2, <4>1, <4>2, <4>3
      <4>4. CASE extended_prefix /\ Keeps(wire[1])
        BY <2>2, <4>1, <4>4
      <4>. QED
        BY <1>3, <3>1, <4>3, <4>4
    <3>2. ASSUME NEW j \in 1 .. (n - 1), j < i, wire[j + 1] = Prefix,
                 \A k \in 1 .. (n - 1) : j <= k /\ k < i => Keeps(wire[k + 1])
          PROVE  PrefixBefore(i + 1)
      <4>1. ASSUME NEW k \in 1 .. n, j + 1 <= k, k < i + 1
            PROVE  Keeps(wire[k])
        <5>1. k - 1 \in 1 .. (n - 1) /\ j <= k - 1 /\ k - 1 < i /\ (k - 1) + 1 = k
          BY <1>2, <4>1
        <5>2. Keeps(wire[(k - 1) + 1])
          BY <3>2, <5>1
        <5>. QED
          BY <5>1, <5>2
      <4>2. j + 1 \in 1 .. n /\ j + 1 < i + 1
        BY <1>2, <3>2
      <4>. QED
        BY <2>2, <3>2, <4>1, <4>2
    <3>. QED
      BY <2>1, <2>3, <3>1, <3>2
  <2>4. ASSUME PrefixBefore(i + 1)
        PROVE  PrefixBefore(i)'
    <3>1. \A k \in 1 .. (n - 1) : k + 1 \in 1 .. n /\ (k < i => k + 1 < i + 1)
      BY <1>2
    <3>0. 1 \in 1 .. n /\ 1 < i + 1
      BY <1>2
    <3>2. CASE extended_prefix /\ \A k \in 1 .. n : k < i + 1 => Keeps(wire[k])
      <4>1. Keeps(wire[1]) /\ \A k \in 1 .. (n - 1) : k < i => Keeps(wire[k + 1])
        BY <3>0, <3>1, <3>2
      <4>. QED
        BY <1>3, <2>1, <3>2, <4>1
    <3>3. ASSUME NEW j \in 1 .. n, j < i + 1, wire[j] = Prefix,
                 \A k \in 1 .. n : j <= k /\ k < i + 1 => Keeps(wire[k])
          PROVE  PrefixBefore(i)'
      <4>1. CASE j = 1
        <5>1. \A k \in 1 .. (n - 1) : k < i => Keeps(wire[k + 1])
          BY <3>1, <3>3, <4>1
        <5>. QED
          BY <1>3, <2>1, <3>3, <4>1, <5>1
      <4>2. CASE j # 1
        <5>1. j - 1 \in 1 .. (n - 1) /\ j - 1 < i /\ (j - 1) + 1 = j
          BY <1>2, <3>3, <4>2
        <5>2. \A k \in 1 .. (n - 1) : j - 1 <= k /\ k < i => Keeps(wire[k + 1])
          BY <3>1, <3>3
        <5>3. wire[(j - 1) + 1] = Prefix
          BY <3>3, <5>1
        <5>. QED
          BY <2>1, <5>1, <5>2, <5>3
      <4>. QED
        BY <4>1, <4>2
    <3>. QED
      BY <2>2, <2>4, <3>2, <3>3
  <2>. QED
    BY <2>3, <2>4
<1>6. PrefixBefore(1) <=> extended_prefix
  BY <1>2 DEF PrefixBefore
<1>. QED
  BY <1>2, <1>3, <1>5, <1>6

LEMMA InterruptLoss == ASSUME IInv, LossInv, Interrupt PROVE LossInv'
<1>1. /\ wire # <<>> /\ wire \in Seq(ScanCodes) /\ wire' = Tail(wire)
      /\ fakes' = fakes
      /\ lost' = IF Head(wire).make /\ Head(wire).key \in CharKeys /\ extended_prefix
                 THEN lost + 1 ELSE lost
  BY DEF IInv, Interrupt
<1>2. PICK n \in Nat :
        /\ n = Len(wire) /\ n > 0 /\ Head(wire) = wire[1]
        /\ wire' \in Seq(ScanCodes) /\ Len(wire') = n - 1
        /\ DOMAIN wire = 1 .. n /\ DOMAIN wire' = 1 .. (n - 1)
        /\ \A j \in 1 .. (n - 1) : wire'[j] = wire[j + 1]
  BY <1>1, HeadTailProperties
<1>3. /\ extended_prefix' \in BOOLEAN
      /\ \A i \in 1 .. n : PrefixBefore(i)' <=> PrefixBefore(i + 1)
      /\ PrefixBefore(1) <=> extended_prefix
  BY <1>2, InterruptPrefix
<1>4. Dangling' <=> Dangling
  <2>1. (Dangling <=> PrefixBefore(n + 1)) /\ (Dangling' <=> PrefixBefore((n - 1) + 1)')
    BY <1>2 DEF Dangling
  <2>2. (n - 1) + 1 = n /\ n \in 1 .. n
    BY <1>2
  <2>. QED
    BY <1>3, <2>1, <2>2
<1>5. 1 \in Doomed <=> wire[1].make /\ wire[1].key \in CharKeys /\ extended_prefix
  <2>1. 1 \in DOMAIN wire
    BY <1>2
  <2>. QED
    BY <1>3, <2>1 DEF Doomed
<1>6. \A j : j \in Doomed' <=> j \in 1 .. (n - 1) /\ j + 1 \in Doomed
  <2>1. \A j : j \in Doomed' <=>
          /\ j \in 1 .. (n - 1) /\ PrefixBefore(j)'
          /\ wire'[j].make /\ wire'[j].key \in CharKeys
    BY <1>2 DEF Doomed
  <2>2. \A j \in 1 .. (n - 1) : j \in 1 .. n /\ j + 1 \in 1 .. n
    BY <1>2
  <2>3. \A j \in 1 .. (n - 1) :
          j + 1 \in Doomed <=>
            PrefixBefore(j + 1) /\ wire[j + 1].make /\ wire[j + 1].key \in CharKeys
    BY <1>2, <2>2 DEF Doomed
  <2>. QED
    BY <1>2, <1>3, <2>1, <2>2, <2>3
<1>7. PICK d \in Nat : d = Cardinality(Doomed) /\ IsFiniteSet(Doomed)
  BY <1>1, DoomedFinite
<1>. DEFINE rest == Doomed \ {1}
<1>8. IsFiniteSet(Doomed') /\ Cardinality(Doomed') <= Cardinality(rest)
  <2>. DEFINE f == [i \in rest |-> i - 1]
  <2>1. \A i \in rest : i \in Nat /\ i - 1 \in 1 .. (n - 1) /\ (i - 1) + 1 = i
    <3>1. \A i \in rest : i \in 1 .. n
      BY <1>2 DEF Doomed
    <3>. QED
      BY <1>2, <3>1
  <2>2. \A i \in rest : f[i] \in Doomed'
    BY <1>6, <2>1
  <2>3. ASSUME NEW j \in Doomed'
        PROVE  \E i \in rest : f[i] = j
    <3>1. j \in 1 .. (n - 1) /\ j + 1 \in Doomed
      BY <1>6
    <3>2. j + 1 \in rest /\ (j + 1) - 1 = j
      BY <3>1
    <3>. QED
      BY <3>2
  <2>4. f \in Surjection(rest, Doomed')
    BY <2>2, <2>3, Fun_IsSurj, Zenon
  <2>5. IsFiniteSet(rest)
    BY <1>7, FS_RemoveElement
  <2>. HIDE DEF f, rest
  <2>. QED
    BY <2>4, <2>5, FS_Surjection
<1>9. PICK e \in Nat : e = Cardinality(Doomed)' /\ e <= Cardinality(rest)
  BY <1>8, FS_CardinalityType
<1>10. Cardinality(rest) = IF 1 \in Doomed THEN d - 1 ELSE d
  BY <1>7, FS_RemoveElement
<1>. HIDE DEF rest
<1>11. /\ lost \in Nat /\ fakes \in Nat
       /\ lost + d <= fakes
       /\ Dangling => lost + d + 1 <= fakes
  BY <1>7 DEF LossInv
<1>12. lost' = IF 1 \in Doomed THEN lost + 1 ELSE lost
  BY <1>1, <1>2, <1>5
<1>13. /\ lost' \in Nat /\ fakes' \in Nat
       /\ lost' + e <= fakes'
       /\ Dangling' => lost' + e + 1 <= fakes'
  <2>1. CASE 1 \in Doomed
    BY <1>1, <1>4, <1>9, <1>10, <1>11, <1>12, <2>1
  <2>2. CASE 1 \notin Doomed
    BY <1>1, <1>4, <1>9, <1>10, <1>11, <1>12, <2>2
  <2>. QED
    BY <2>1, <2>2
<1>. QED
  BY <1>3, <1>9, <1>13 DEF LossInv

LEMMA StepLossInv == IInv /\ LossInv /\ [TypingNext]_typingVars => LossInv'
<1>1. LossInv /\ UNCHANGED typingVars => LossInv'
  BY DEF typingVars, keyboardVars, envVars, LossInv, Doomed, Dangling, PrefixBefore,
         Keeps, Shifts
<1>. QED
  BY <1>1, PressLoss, ReleaseLoss, InterruptLoss
  DEF TypingNext, AllKeys

(* A key is swallowed only after a shift was held over a navigation key,    *)
(* one key for each such release at most: for any set of keys and any       *)
(* number of presses and releases.                                          *)
THEOREM SpecLostOnlyAfterFakes == TypingSpec => []LostOnlyAfterFakes
<1>1. IInv /\ LossInv => LostOnlyAfterFakes
  <2>. SUFFICES ASSUME IInv, LossInv
                PROVE  LostOnlyAfterFakes
    OBVIOUS
  <2>1. PICK d \in Nat : d = Cardinality(Doomed)
    BY DoomedFinite DEF IInv
  <2>2. /\ lost \in Nat /\ fakes \in Nat /\ lost + d <= fakes
        /\ Dangling => lost + d + 1 <= fakes
    BY <2>1 DEF LossInv
  <2>3. extended_prefix /\ wire = <<>> => Dangling
    BY DEF Dangling, PrefixBefore
  <2>. QED
    BY <2>2, <2>3 DEF LostOnlyAfterFakes
<1>2. TypingSpec => []LossInv
  BY InitLossInv, SpecIInv, StepLossInv, PTL DEF TypingSpec
<1>. QED
  BY <1>1, <1>2, SpecIInv, PTL
=============================================================================
