----------------------------- MODULE Hal_proofs -----------------------------
(***************************************************************************)
(* Proofs about the parts of the HALs: whose values the FPU of the ia32    *)
(* holds, the stacks that its interrupts go back to, the two timers that   *)
(* the mc68332 makes of one, the handlers that the traps of the SPARC find *)
(* and the registers that its windows keep.                                *)
(***************************************************************************)
EXTENDS Ia32Fpu, Ia32Irq, Mc68332Timer, SparcTraps, SparcWindows,
        SequenceTheorems, TLAPS

LOCAL INSTANCE SequencesExt

----------------------------------------------------------------------------
(* The FPU of the ia32 (Ia32Fpu).                                          *)

FpuTypes ==
    /\ alive \subseteq Slots /\ "idle" \in alive
    /\ {currentTid, lastTask, fpuRegs} \subseteq Slots /\ ts \in BOOLEAN
    /\ fpuSaved \in [Slots -> Slots] /\ hasUsed \in [Slots -> BOOLEAN]

\* Where the values of t are if it has used the FPU.
HeldBy(t) == IF lastTask = t THEN fpuRegs ELSE fpuSaved[t]

\* TS is clear only while the thread runs that vector 7 gave the FPU to, and
\* FPU_Last_Task says whose TSS is out of date.
FpuInv ==
    /\ FpuTypes
    /\ ~hasUsed["idle"]
    /\ ~ts => lastTask = taskRegister
    /\ \A t \in alive : hasUsed[t] => HeldBy(t) = t

LEMMA FpuInitInv == FpuInit => FpuInv
BY GdtAssumption DEF FpuInit, FpuInv, FpuTypes, HeldBy, Slots

LEMMA ContextInitInv ==
    ASSUME FpuInv, NEW t \in Tids, ContextInit(t)
    PROVE  FpuInv'
<1>1. /\ t \in Slots /\ t # "idle" /\ t \notin alive
      /\ alive' = alive \cup {t}
      /\ fpuSaved' = [s \in Slots |->
                        IF s = t \/ fpuSaved[s] = t THEN "idle" ELSE fpuSaved[s]]
      /\ fpuRegs' = IF fpuRegs = t THEN "idle" ELSE fpuRegs
      /\ hasUsed' = [hasUsed EXCEPT ![t] = FALSE]
      /\ UNCHANGED <<currentTid, oldTid, taskRegister, ts, lastTask>>
  BY GdtAssumption DEF ContextInit, Slots
<1>2. FpuTypes'
  BY <1>1 DEF FpuInv, FpuTypes, Slots
<1>3. ~hasUsed'["idle"] /\ (~ts' => lastTask' = taskRegister')
  BY <1>1 DEF FpuInv, FpuTypes, Slots
<1>4. ASSUME NEW s \in alive', hasUsed'[s]
      PROVE  HeldBy(s)' = s
  <2>1. s \in alive /\ s # t /\ hasUsed[s] /\ s \in Slots
    BY <1>1, <1>4 DEF FpuInv, FpuTypes
  <2> QED
    BY <1>1, <2>1 DEF FpuInv, HeldBy
<1> QED
  BY <1>2, <1>3, <1>4 DEF FpuInv

LEMMA UseFpuInv ==
    ASSUME FpuInv, UseFpu
    PROVE  FpuInv'
<1> DEFINE c == currentTid
<1>1. /\ taskRegister = c /\ c \in alive /\ c # "idle" /\ c \in Slots
      /\ fpuRegs' = c /\ UNCHANGED <<alive, currentTid, taskRegister>>
  BY DEF UseFpu, FpuInv, FpuTypes, switchVars
<1>2. CASE ~ts
  <2>1. lastTask = c /\ UNCHANGED <<ts, fpuSaved, lastTask, hasUsed>>
    BY <1>1, <1>2 DEF UseFpu, FpuInv
  <2> QED
    BY <1>1, <2>1 DEF FpuInv, FpuTypes, HeldBy
<1>3. CASE ts
  <2>1. /\ ts' = FALSE /\ lastTask' = c
        /\ hasUsed' = [hasUsed EXCEPT ![c] = TRUE]
        /\ fpuSaved' = IF lastTask \in {"idle", c} THEN fpuSaved
                       ELSE [fpuSaved EXCEPT ![lastTask] = fpuRegs]
    BY <1>3 DEF UseFpu, DeviceNotAvailable
  <2>2. ASSUME NEW s \in alive', hasUsed'[s]
        PROVE  HeldBy(s)' = s
    <3>1. CASE s = c
      BY <1>1, <2>1, <3>1 DEF HeldBy
    <3>2. CASE s # c
      <4>1. s \in alive /\ s \in Slots /\ hasUsed[s] /\ HeldBy(s) = s /\ s # "idle"
        BY <1>1, <2>1, <2>2, <3>2 DEF FpuInv, FpuTypes
      <4> QED
        BY <1>1, <2>1, <3>2, <4>1 DEF HeldBy, FpuInv, FpuTypes
    <3> QED
      BY <3>1, <3>2
  <2> QED
    BY <1>1, <2>1, <2>2 DEF FpuInv, FpuTypes
<1> QED
  BY <1>2, <1>3 DEF FpuInv, FpuTypes

\* The values a thread finds in the FPU are its own, for every number of
\* threads and descriptors: ia32_dispatch, vector 7 and ia32_context_init
\* (the descriptors of ia32_dispatch do not matter, only that TS is set).
THEOREM FpuValuesCorrect == FpuSpec => []FpuValuesComeBack
<1>1. FpuInv /\ [FpuNext]_fpuVars => FpuInv'
  <2> SUFFICES ASSUME FpuInv, [FpuNext]_fpuVars PROVE FpuInv'
    OBVIOUS
  <2>1. CASE \E t \in Tids : ContextInit(t)
    BY <2>1, ContextInitInv
  <2>2. ASSUME NEW ending \in BOOLEAN, Choose(ending)
        PROVE  FpuInv'
    BY <2>2 DEF Choose, FpuInv, FpuTypes, HeldBy
  <2>3. CASE Dispatch
    BY <2>3 DEF Dispatch, FpuInv, FpuTypes, HeldBy
  <2>4. CASE UseFpu
    BY <2>4, UseFpuInv
  <2>5. CASE UNCHANGED fpuVars
    BY <2>5 DEF fpuVars, switchVars, FpuInv, FpuTypes, HeldBy
  <2> QED
    BY <2>1, <2>2, <2>3, <2>4, <2>5 DEF FpuNext
<1>2. FpuInv => FpuValuesComeBack
  BY DEF FpuInv, FpuTypes, FpuValuesComeBack, ValuesOf, HeldBy
<1> QED
  BY <1>1, <1>2, FpuInitInv, PTL DEF FpuSpec

----------------------------------------------------------------------------
(* The timers of the mc68332 (Mc68332Timer).                               *)

\* A counter that wraps at n, and one that is below its range.
LEMMA Wraps ==
    ASSUME NEW n \in Nat, n > 0, NEW i \in 0..(n - 1)
    PROVE  (i + 1) % n = (IF i + 1 = n THEN 0 ELSE i + 1) /\ i % n = i
OBVIOUS

\* The ticks to the next PIT interrupt are those of the countdown, and those
\* that the clock has taken off it.
TickTypes ==
    /\ age \in 0..(Reload - 1) /\ due \in Int /\ due >= -1
    /\ countdown \in 1..Reload /\ reminder \in 0..Reload
    /\ pitStatus \in {"OFF", "WITHIN", "BEYOND", "EXACT"}

TickInv ==
    /\ TickTypes
    /\ pitStatus = "OFF" => countdown = Reload - age /\ due <= 0
    /\ pitStatus = "WITHIN" => /\ reminder >= 1 /\ countdown + reminder = Reload - age
                               /\ due = countdown
    /\ pitStatus = "BEYOND" => /\ countdown = Reload - age /\ due = countdown + reminder
                               /\ reminder \in 1..(Reload - 1)
    /\ pitStatus = "EXACT" => countdown = Reload - age /\ due = countdown

LEMMA PitEntryTicks ==
    ASSUME TickInv, PitEntry
    PROVE  /\ TickInv'
           /\ "pit" \in raised' <=> age' = 0
           /\ "clock" \in raised' <=> due' = 0
<1>1. /\ {Reload, MaxTicks, CountMod} \subseteq Nat
      /\ Reload > 0 /\ Reload + 1 < CountMod
  BY TimerAssumption
<1> DEFINE left == (countdown - 1) % CountMod
<1>2. left = countdown - 1 /\ countdown \in 1..Reload
  BY <1>1, Wraps DEF TickInv, TickTypes
<1>e. IF left = 0 THEN Within \/ Beyond \/ Exact \/ Off
      ELSE raised' = {} /\ countdown' = left /\ UNCHANGED <<pitStatus, reminder>>
  BY DEF PitEntry
<1> HIDE DEF left
<1>3. age' = IF age + 1 = Reload THEN 0 ELSE age + 1
  BY <1>1, Wraps DEF TickInv, TickTypes, PitEntry, TickWanted
<1>4. due' = IF due > 0 THEN due - 1 ELSE -1
  BY DEF PitEntry, TickWanted
<1>5. CASE countdown = 1
  <2>1. Within \/ Beyond \/ Exact \/ Off
    BY <1>2, <1>5, <1>e
  <2>2. CASE Within
    BY <1>1, <1>3, <1>4, <1>5, <2>2 DEF Within, TickInv, TickTypes
  <2>3. CASE Beyond
    BY <1>1, <1>3, <1>4, <1>5, <2>3 DEF Beyond, Rest, TickInv, TickTypes
  <2>4. CASE Exact
    BY <1>1, <1>3, <1>4, <1>5, <2>4 DEF Exact, TickInv, TickTypes
  <2>5. CASE Off
    BY <1>1, <1>3, <1>4, <1>5, <2>5 DEF Off, TickInv, TickTypes
  <2> QED
    BY <2>1, <2>2, <2>3, <2>4, <2>5
<1>6. CASE countdown # 1
  <2>1. /\ raised' = {} /\ countdown' = countdown - 1
        /\ UNCHANGED <<pitStatus, reminder>>
    BY <1>2, <1>6, <1>e
  <2> QED
    BY <1>1, <1>3, <1>4, <1>6, <2>1 DEF TickInv, TickTypes
<1> QED
  BY <1>5, <1>6

LEMMA ClockInitTicks ==
    ASSUME MaxTicks <= Reload, TickInv, ClockInit
    PROVE  TickInv' /\ Merged' = Merged
<1>1. {Reload, MaxTicks} \subseteq Nat /\ Reload > 0
  BY TimerAssumption
<1>2. PICK cd \in 1..MaxTicks :
         /\ \/ /\ cd < Merged
               /\ reminder' = Merged - cd
               /\ countdown' = cd
               /\ pitStatus' = "WITHIN"
            \/ /\ cd > Merged
               /\ reminder' = cd - Merged
               /\ countdown' = Merged
               /\ pitStatus' = "BEYOND"
            \/ /\ cd = Merged
               /\ countdown' = Merged
               /\ pitStatus' = "EXACT"
               /\ UNCHANGED reminder
         /\ due' = cd
  BY DEF ClockInit
<1>3. age' = age
  BY DEF ClockInit
<1>4. Merged = Reload - age /\ Merged \in 1..Reload
  BY <1>1 DEF Merged, TickInv, TickTypes
<1> DEFINE left == Merged
<1> HIDE DEF left
<1>5. TickInv' /\ Merged' = left
  <2>1. left = Reload - age /\ left \in 1..Reload
    BY <1>4 DEF left
  <2> QED
    BY <1>1, <1>2, <1>3, <2>1 DEF Merged, TickInv, TickTypes, left
<1> QED
  BY <1>5 DEF left

LEMMA OtherTicks ==
    ASSUME TickInv,
           \/ UNCHANGED timerVars
           \/ Unit \/ PitAccept \/ PitEnds \/ LowInterrupt \/ LowEnds \/ HigherInterrupt
    PROVE  TickInv' /\ UNCHANGED <<pitStatus, countdown, reminder, age>>
<1>1. UNCHANGED <<pitStatus, countdown, reminder, age, due>>
  BY DEF Unit, PitAccept, PitEnds, LowInterrupt, LowEnds, HigherInterrupt, Epilogue,
         timerVars, hardware, wanted
<1> QED
  BY <1>1 DEF TickInv, TickTypes

LEMMA TicksHold ==
    ASSUME MaxTicks <= Reload
    PROVE  TimerSpec => []TickInv
<1>1. TimerInit => TickInv
  BY TimerAssumption DEF TimerInit, TickInv, TickTypes
<1>2. TickInv /\ [TimerNext]_timerVars => TickInv'
  BY PitEntryTicks, ClockInitTicks, OtherTicks DEF TimerNext
<1> QED
  BY <1>1, <1>2, PTL DEF TimerSpec

\* Both interrupts come on the tick that they were asked for, for every reload
\* value and countdowns up to it: pit_handler and clock_init keep the ticks
\* of both in one countdown whatever the other did to it.
THEOREM TimersCorrect ==
    ASSUME MaxTicks <= Reload
    PROVE  TimerSpec => TimersOnTime
<1> DEFINE OnTime ==
        [pending /\ ~pending' => /\ "pit" \in raised' <=> age' = 0
                                 /\ "clock" \in raised' <=> due' = 0]_timerVars
<1>1. TickInv /\ [TimerNext]_timerVars => OnTime
  <2>1. ASSUME TimerNext, ~PitEntry
        PROVE  pending => pending'
    BY <2>1 DEF TimerNext, Unit, PitAccept, PitEnds, LowInterrupt, LowEnds,
                HigherInterrupt, ClockInit, Epilogue, hardware
  <2> QED
    BY <2>1, PitEntryTicks
<1> QED
  BY <1>1, TicksHold, PTL DEF TimerSpec, TimersOnTime

\* The stack of interrupts (only the innermost is not of level 1), the time since the tick that was latched and the
\* counter; what that tick waited for its interrupt, d, is all that is lost.
Marks == {"low", "entry", "pit"}
OnlyLow(s) == s \in Seq(Marks)
              /\ \A i \in 1..Len(s) : s[i] = "low"
SinceLatch(d) == since + (IF pending THEN Period ELSE 0) - d

LevelsInv ==
    \/ OnlyLow(levels)
    \/ \E s : OnlyLow(s) /\ \E x \in {"entry", "pit"} : levels = Append(s, x)

CounterInv ==
    /\ {tcr, latched} \subseteq 0..(CounterMod - 1)
    /\ since \in 0..(Period - 1) /\ pending \in BOOLEAN
    /\ LevelsInv
    /\ Top = "entry" => pending
    /\ pending => since <= Latency
    /\ \E d \in 0..Latency :
          /\ SinceLatch(d) >= 0
          /\ \/ tcr = latched + SinceLatch(d)
             \/ tcr = latched + SinceLatch(d) - CounterMod

LEMMA OnTop ==
    ASSUME NEW S, NEW s \in Seq(S), NEW x \in S
    PROVE  /\ Append(s, x) # <<>> /\ Last(Append(s, x)) = x
           /\ Front(Append(s, x)) = s
<1>1. Append(s, x) # <<>> /\ Last(Append(s, x)) = x
  BY AppendProperties DEF Last
<1>2. Front(Append(s, x)) = s
  <2> DEFINE a == Append(s, x)
             f == SubSeq(a, 1, Len(s))
  <2>1. /\ a \in Seq(S) /\ Len(a) = Len(s) + 1
        /\ \A i \in 1..Len(s) : a[i] = s[i]
    BY AppendProperties
  <2> HIDE DEF a
  <2>2. /\ f \in Seq(S) /\ Len(f) = Len(s)
        /\ \A i \in 1..Len(s) : f[i] = s[i]
    BY <2>1, SubSeqProperties
  <2> HIDE DEF f
  <2>3. f = s
    BY <2>2, SeqEqual
  <2>4. Front(a) = f
    BY <2>1 DEF Front, f
  <2> QED
    BY <2>3, <2>4 DEF a
<1> QED
  BY <1>1, <1>2

LEMMA StackFacts ==
    ASSUME LevelsInv
    PROVE  /\ Top \in {"task", "low"} => OnlyLow(levels)
           /\ OnlyLow(levels) => Top \in {"task", "low"}
           /\ Top \in {"entry", "pit"} => OnlyLow(Front(levels))
<1>1. CASE OnlyLow(levels)
  BY <1>1 DEF OnlyLow, Top, Last
<1>2. ASSUME NEW s, OnlyLow(s), NEW x \in {"entry", "pit"}, levels = Append(s, x)
      PROVE  Top = x /\ Front(levels) = s
  <2>1. s \in Seq(Marks) /\ x \in Marks
    BY <1>2 DEF OnlyLow, Marks
  <2> QED
    BY <1>2, <2>1, OnTop DEF Top
<1> QED
  BY <1>1, <1>2 DEF LevelsInv

LEMMA LowLevels == OnlyLow(<<>>) /\ OnlyLow(<<"low">>)
<1>1. <<>> \in Seq(Marks) /\ <<"low">> \in Seq(Marks)
  BY DEF Marks
<1>2. OnlyLow(<<>>)
  BY <1>1 DEF OnlyLow
<1>3. Len(<<"low">>) = 1 /\ <<"low">>[1] = "low"
  OBVIOUS
<1> QED
  BY <1>1, <1>2, <1>3 DEF OnlyLow

\* What a step leaves on the stack, or puts there.
LEMMA LevelsFrom ==
    ASSUME NEW s, OnlyLow(s), NEW x \in {"entry", "pit"}, levels' \in {s, Append(s, x)}
    PROVE  LevelsInv' /\ (Top' = "entry" => levels' = Append(s, x) /\ x = "entry")
<1>1. LevelsInv'
  BY DEF LevelsInv
<1>2. s \in Seq(Marks) /\ x \in Marks
  BY DEF OnlyLow, Marks
<1>3. ASSUME levels' = s, Top' = "entry"
      PROVE  FALSE
  <2>1. levels' # <<>> /\ levels'[Len(levels')] = "low"
    BY <1>2, <1>3 DEF OnlyLow, Top
  <2> QED
    BY <1>3, <2>1 DEF Top, Last
<1>4. levels' = Append(s, x) => Top' = x
  BY <1>2, OnTop DEF Top
<1> QED
  BY <1>1, <1>3, <1>4

LEMMA UnitCounter ==
    ASSUME CounterInv, Unit
    PROVE  CounterInv'
<1>1. /\ {Period, Latency, CounterMod} \subseteq Nat
      /\ Period > Latency /\ CounterMod > Period + Latency
  BY TimerAssumption
<1>2. /\ pending => since < Latency
      /\ tcr' = (tcr + 1) % CounterMod /\ since' = (since + 1) % Period
      /\ pending' = (pending \/ since' = 0)
      /\ UNCHANGED <<latched, levels>>
  BY DEF Unit
<1>p. pending' <=> pending \/ since' = 0
  BY <1>2, Zenon
<1>3. /\ tcr \in 0..(CounterMod - 1) /\ latched \in 0..(CounterMod - 1)
      /\ since \in 0..(Period - 1) /\ pending \in BOOLEAN
  BY DEF CounterInv
<1>4. /\ tcr' = IF tcr + 1 = CounterMod THEN 0 ELSE tcr + 1
      /\ since' = IF since + 1 = Period THEN 0 ELSE since + 1
  BY <1>1, <1>2, <1>3, Wraps
<1>5. PICK d \in 0..Latency :
         /\ SinceLatch(d) >= 0
         /\ \/ tcr = latched + SinceLatch(d)
            \/ tcr = latched + SinceLatch(d) - CounterMod
  BY DEF CounterInv
<1>6. since' + (IF pending' THEN Period ELSE 0) - d = SinceLatch(d) + 1
  <2>1. CASE pending
    BY <1>1, <1>p, <1>2, <1>3, <1>4, <2>1 DEF SinceLatch
  <2>2. CASE ~pending
    BY <1>1, <1>p, <1>3, <1>4, <2>2 DEF SinceLatch
  <2> QED
    BY <1>3, <2>1, <2>2
<1>7. SinceLatch(d) \in 0..(Period + Latency - 1)
  BY <1>1, <1>2, <1>3, <1>5 DEF SinceLatch
<1>8. \/ tcr' = latched' + (SinceLatch(d) + 1)
      \/ tcr' = latched' + (SinceLatch(d) + 1) - CounterMod
  <2> DEFINE e == SinceLatch(d)
  <2>1. e \in 0..(Period + Latency - 1)
        /\ (tcr = latched + e \/ tcr = latched + e - CounterMod)
    BY <1>5, <1>7
  <2> HIDE DEF e
  <2>2. \/ tcr' = latched' + (e + 1)
        \/ tcr' = latched' + (e + 1) - CounterMod
    BY <1>1, <1>2, <1>3, <1>4, <2>1
  <2> QED
    BY <2>2 DEF e
<1>9. \E c \in 0..Latency :
         /\ SinceLatch(c)' >= 0
         /\ \/ tcr' = latched' + SinceLatch(c)'
            \/ tcr' = latched' + SinceLatch(c)' - CounterMod
  <2>1. SinceLatch(d)' = SinceLatch(d) + 1
    BY <1>6 DEF SinceLatch
  <2> QED
    BY <1>7, <1>8, <2>1
<1>10. /\ {tcr', latched'} \subseteq 0..(CounterMod - 1)
       /\ since' \in 0..(Period - 1) /\ pending' \in BOOLEAN
       /\ pending' => since' <= Latency
       /\ pending => pending'
  BY <1>1, <1>2, <1>3, <1>4
<1>11. LevelsInv' /\ Top' = Top /\ (Top = "entry" => pending)
  BY <1>2 DEF LevelsInv, Top, CounterInv
<1> QED
  BY <1>9, <1>10, <1>11 DEF CounterInv

LEMMA PitEntryCounter ==
    ASSUME CounterInv, PitEntry
    PROVE  CounterInv'
<1>1. /\ {Period, Latency, CounterMod} \subseteq Nat
      /\ Period > Latency /\ CounterMod > Period + Latency
  BY TimerAssumption
<1>2. /\ pending /\ OnlyLow(Front(levels))
      /\ latched' = tcr /\ pending' = FALSE /\ UNCHANGED <<tcr, since>>
      /\ levels' \in {Front(levels), Append(Front(levels), "pit")}
  BY StackFacts DEF PitEntry, CounterInv
<1>3. LevelsInv' /\ Top' # "entry"
  BY <1>2, LevelsFrom
<1>4. /\ tcr \in 0..(CounterMod - 1) /\ since \in 0..(Period - 1)
      /\ since \in 0..Latency
  BY <1>1, <1>2 DEF CounterInv
<1>5. PICK d \in 0..Latency : d = since
  BY <1>4
<1>6. SinceLatch(d)' = 0 /\ tcr' = latched' + 0
  BY <1>2, <1>4, <1>5 DEF SinceLatch
<1>7. \E c \in 0..Latency :
         /\ SinceLatch(c)' >= 0
         /\ \/ tcr' = latched' + SinceLatch(c)'
            \/ tcr' = latched' + SinceLatch(c)' - CounterMod
  BY <1>6
<1>8. /\ {tcr', latched'} \subseteq 0..(CounterMod - 1)
      /\ since' \in 0..(Period - 1) /\ pending' \in BOOLEAN
  BY <1>2, <1>4
<1> QED
  BY <1>2, <1>3, <1>7, <1>8 DEF CounterInv

LEMMA OtherCounter ==
    ASSUME CounterInv,
           \/ UNCHANGED timerVars
           \/ PitAccept \/ PitEnds \/ LowInterrupt \/ LowEnds \/ HigherInterrupt
           \/ ClockInit
    PROVE  CounterInv'
<1>1. UNCHANGED <<tcr, latched, since, pending>>
  BY DEF PitAccept, PitEnds, LowInterrupt, LowEnds, HigherInterrupt, ClockInit, Epilogue,
         timerVars, hardware, wanted
<1>2. LevelsInv' /\ (Top' = "entry" => pending)
  <2>1. CASE PitAccept
    BY <2>1, StackFacts, LevelsFrom DEF PitAccept, CounterInv
  <2>2. CASE PitEnds
    BY <2>2, StackFacts, LevelsFrom DEF PitEnds, Epilogue, CounterInv
  <2>3. CASE LowInterrupt \/ LowEnds
    BY <2>3, LowLevels, LevelsFrom DEF LowInterrupt, LowEnds, Epilogue
  <2>4. CASE UNCHANGED levels
    BY <2>4 DEF CounterInv, LevelsInv, Top
  <2> QED
    BY <2>1, <2>2, <2>3, <2>4 DEF timerVars, HigherInterrupt, ClockInit
<1> QED
  BY <1>1, <1>2 DEF CounterInv, SinceLatch

LEMMA CounterHolds == TimerSpec => []CounterInv
<1>1. TimerInit => CounterInv
  <2> SUFFICES ASSUME TimerInit PROVE CounterInv
    OBVIOUS
  <2>1. LevelsInv /\ Top # "entry"
    BY LowLevels DEF TimerInit, LevelsInv, Top
  <2>2. SinceLatch(0) = 0 /\ tcr = latched + SinceLatch(0) /\ 0 \in 0..Latency
    BY TimerAssumption DEF TimerInit, SinceLatch
  <2> QED
    <3>1. \E d \in 0..Latency :
             /\ SinceLatch(d) >= 0
             /\ \/ tcr = latched + SinceLatch(d)
                \/ tcr = latched + SinceLatch(d) - CounterMod
      BY <2>2
    <3>2. /\ {tcr, latched} \subseteq 0..(CounterMod - 1)
          /\ since \in 0..(Period - 1) /\ pending = FALSE
      BY TimerAssumption DEF TimerInit
    <3> QED
      BY <2>1, <3>1, <3>2 DEF CounterInv
<1>2. CounterInv /\ [TimerNext]_timerVars => CounterInv'
  BY UnitCounter, PitEntryCounter, OtherCounter DEF TimerNext
<1> QED
  BY <1>1, <1>2, PTL DEF TimerSpec

\* pit_read is never ahead of the time since the PIT interrupt and late by at
\* most what a tick waits for its interrupt, for every period and range of the
\* counter and countdowns of at most the reload value.
THEOREM TimeReadCorrect ==
    ASSUME MaxTicks <= Reload
    PROVE  TimerSpec => []TimeReadIsClose
<1>1. TickInv /\ CounterInv => TimeReadIsClose
  <2> SUFFICES ASSUME TickInv, CounterInv PROVE TimeReadIsClose
    OBVIOUS
  <2>1. /\ {Period, Latency, CounterMod, Reload} \subseteq Nat
        /\ Period > Latency /\ CounterMod > Period + Latency
    BY TimerAssumption
  <2>2. Reload - countdown - (IF pitStatus = "WITHIN" THEN reminder ELSE 0) = age
        /\ age \in Nat
    BY <2>1 DEF TickInv, TickTypes
  <2>3. PICK d \in 0..Latency :
           /\ SinceLatch(d) >= 0
           /\ \/ tcr = latched + SinceLatch(d)
              \/ tcr = latched + SinceLatch(d) - CounterMod
    BY DEF CounterInv
  <2>4. /\ tcr \in 0..(CounterMod - 1) /\ latched \in 0..(CounterMod - 1)
        /\ since \in 0..(Period - 1) /\ pending \in BOOLEAN
        /\ pending => since <= Latency
    BY DEF CounterInv
  <2>5. SinceLatch(d) \in 0..(Period + Latency)
    BY <2>1, <2>3, <2>4 DEF SinceLatch
  <2>6. ASSUME tcr # latched
        PROVE  OcRead = SinceLatch(d)
    <3> DEFINE e == SinceLatch(d)
    <3>1. e \in 0..(Period + Latency) /\ (tcr = latched + e \/ tcr = latched + e - CounterMod)
      BY <2>3, <2>5
    <3> HIDE DEF e
    <3>2. OcRead = e
      BY <2>1, <2>4, <2>6, <3>1 DEF OcRead
    <3> QED
      BY <3>2 DEF e
  <2>7. tcr # latched => PitRead = age * Period + SinceLatch(d)
    BY <2>2, <2>6 DEF PitRead
  <2>8. (age + 1) * Period = age * Period + Period /\ age * Period \in Int
    BY <2>1, <2>2
  <2> DEFINE whole == age * Period
  <2>9. /\ whole \in Int
        /\ SincePit = whole + (IF pending THEN Period ELSE 0) + since
        /\ tcr # latched => PitRead = whole + SinceLatch(d)
    BY <2>2, <2>4, <2>7, <2>8 DEF SincePit
  <2> HIDE DEF whole
  <2>10. tcr # latched => SincePit - PitRead = d
    BY <2>1, <2>4, <2>9 DEF SinceLatch
  <2> QED
    BY <2>10 DEF TimeReadIsClose
<1> QED
  BY <1>1, TicksHold, CounterHolds, PTL

----------------------------------------------------------------------------
(* The interrupts of the ia32 (Ia32Irq).                                   *)

Vectors == {Clock, Timer}
KernelOps == {"enter", "pick", "release", "dispatch"}
IsrScripts == {<<"epilogue">>, <<"eoi", "epilogue">>, <<"clock_init", "eoi", "epilogue">>}
OffStack == [on : {0}, if : BOOLEAN, todo : Seq(KernelOps)]
OnVector == [on : Vectors, if : BOOLEAN, todo : IsrScripts]

Uses(C, v) == \E i \in 1..Len(C) : C[i].on = v
Handlers(C) == (IF Uses(C, Clock) THEN 1 ELSE 0) + (IF Uses(C, Timer) THEN 1 ELSE 0)

\* The contexts of a thread: one ISR at most is on the stack of a vector and
\* knows where it came from, the nesting level counts them, and a context
\* that goes into the scheduler has none of them below.
StackOK(C, prev, nesting) ==
    /\ C \in Seq(OffStack \cup OnVector) /\ C # <<>> /\ prev \in [Vectors -> Nat]
    /\ \A i \in 1..Len(C) : C[i].on # 0 => prev[C[i].on] = i - 1
    /\ \A i \in 1..Len(C) : C[i].on = 0 /\ C[i].todo # <<>> =>
           \A j \in 1..(i - 1) : C[j].on = 0
    /\ nesting = Handlers(C)

LEMMA VectorFacts == Vectors = {32, 48} /\ Clock = 32 /\ Timer = 48
BY DEF Vectors, Clock, Timer

LEMMA ContextFacts ==
    ASSUME NEW c \in OffStack \cup OnVector
    PROVE  /\ c.on \in {0, 32, 48} /\ c.if \in BOOLEAN
           /\ c.on = 0 <=> c \in OffStack
           /\ c.on = 0 => c.todo \in Seq(KernelOps)
           /\ c.on # 0 => c.todo \in IsrScripts
           /\ c.on # 0 => c.todo # <<>> /\ c.on \in Vectors
<1>1. CASE c \in OffStack
  BY <1>1, VectorFacts DEF OffStack, OnVector
<1>2. CASE c \in OnVector
  <2>1. /\ c.on \in {32, 48} /\ c.on \in Vectors /\ c.if \in BOOLEAN
        /\ c.todo \in IsrScripts
    BY <1>2, VectorFacts DEF OnVector
  <2>2. c \notin OffStack
    BY <2>1 DEF OffStack
  <2>3. <<>> \notin IsrScripts
    BY DEF IsrScripts
  <2>4. c.todo # <<>>
    BY <2>1, <2>3
  <2> QED
    BY <2>1, <2>2, <2>4
<1> QED
  BY <1>1, <1>2

LEMMA HandlerCount ==
    ASSUME NEW C
    PROVE  /\ Handlers(C) \in 0..2
           /\ Handlers(C) = 0 <=> ~Uses(C, 32) /\ ~Uses(C, 48)
           /\ Handlers(C) <= 1 <=> ~(Uses(C, 32) /\ Uses(C, 48))
BY VectorFacts DEF Handlers

\* The running context goes on without leaving its stack.
LEMMA TopGoesOn ==
    ASSUME NEW C, NEW prev, NEW nesting, StackOK(C, prev, nesting),
           NEW c \in OffStack \cup OnVector, c.on = C[Len(C)].on,
           c.on = 0 /\ c.todo # <<>> => C[Len(C)].todo # <<>> \/ Len(C) = 1
    PROVE  StackOK([C EXCEPT ![Len(C)] = c], prev, nesting)
<1> DEFINE n == Len(C)
           D == [C EXCEPT ![n] = c]
<1>1. C \in Seq(OffStack \cup OnVector) /\ n \in Nat /\ n >= 1
  BY DEF StackOK
<1>2. /\ D \in Seq(OffStack \cup OnVector) /\ Len(D) = n
      /\ \A i \in 1..n : D[i] = IF i = n THEN c ELSE C[i]
  BY <1>1
<1> HIDE DEF D
<1>3. \A i \in 1..n : D[i].on = C[i].on
  BY <1>2
<1>4. Handlers(D) = Handlers(C)
  BY <1>2, <1>3 DEF Handlers, Uses
<1>5. ASSUME NEW i \in 1..n, D[i].on = 0, D[i].todo # <<>>, NEW j \in 1..(i - 1)
      PROVE  D[j].on = 0
  <2>1. C[j].on = 0
    BY <1>1, <1>2, <1>5 DEF StackOK
  <2> QED
    BY <1>1, <1>3, <2>1
<1>6. D # <<>>
  BY <1>1, <1>2
<1>7. StackOK(D, prev, nesting)
  BY <1>2, <1>3, <1>4, <1>5, <1>6 DEF StackOK
<1> QED
  BY <1>7 DEF D

\* The ISR leaves the stack of its vector.
LEMMA TopReturns ==
    ASSUME NEW C, NEW prev, NEW nesting, StackOK(C, prev, nesting),
           NEW c \in OffStack, C[Len(C)].on # 0, c.todo # <<>> => nesting <= 1
    PROVE  /\ StackOK([C EXCEPT ![Len(C)] = c], prev, nesting - 1)
           /\ prev[C[Len(C)].on] = Len(C) - 1
           /\ ~Uses([C EXCEPT ![Len(C)] = c], C[Len(C)].on)
<1> DEFINE n == Len(C)
           D == [C EXCEPT ![n] = c]
           v == C[n].on
<1>1. C \in Seq(OffStack \cup OnVector) /\ n \in Nat /\ n >= 1
  BY DEF StackOK
<1>2. /\ D \in Seq(OffStack \cup OnVector) /\ Len(D) = n /\ D # <<>>
      /\ \A i \in 1..n : D[i] = IF i = n THEN c ELSE C[i]
  BY <1>1
<1> HIDE DEF D
<1>3. c.on = 0 /\ c.todo \in Seq(KernelOps)
  BY DEF OffStack
<1>4. \A i \in 1..n : D[i].on = IF i = n THEN 0 ELSE C[i].on
  BY <1>2, <1>3
<1>5. v \in {32, 48} /\ prev[v] = n - 1
  <2>1. C[n] \in OffStack \cup OnVector /\ C[n].on # 0
    BY <1>1
  <2>2. prev[v] = n - 1
    BY <1>1, <2>1 DEF StackOK
  <2> QED
    BY <2>1, <2>2, ContextFacts
<1>6. \A i \in 1..(n - 1) : C[i].on # v
  BY <1>1, <1>5 DEF StackOK
<1>7. /\ ~Uses(D, v) /\ Uses(C, v)
      /\ \A u \in {32, 48} : u # v => (Uses(D, u) <=> Uses(C, u))
  BY SMTT(30), <1>1, <1>2, <1>4, <1>5, <1>6 DEF Uses
<1>8. Handlers(D) = Handlers(C) - 1
  BY <1>5, <1>7, VectorFacts DEF Handlers
<1>9. ASSUME NEW i \in 1..n, D[i].on = 0, D[i].todo # <<>>, NEW j \in 1..(i - 1)
      PROVE  D[j].on = 0
  <2>1. CASE i = n
    <3>1. Handlers(C) <= 1
      BY <1>2, <1>9, <2>1 DEF StackOK
    <3>2. ~Uses(D, 32) /\ ~Uses(D, 48)
      BY <3>1, <1>5, <1>7, HandlerCount
    <3>3. D[j].on \in {0, 32, 48} /\ j \in 1..n
      BY <1>1, <1>2, ContextFacts
    <3> QED
      BY <1>2, <3>2, <3>3 DEF Uses
  <2>2. CASE i # n
    <3>1. C[j].on = 0
      BY <1>1, <1>2, <1>9, <2>2 DEF StackOK
    <3> QED
      BY <1>1, <1>4, <2>2, <3>1
  <2> QED
    BY <2>1, <2>2
<1>10. nesting - 1 = Handlers(D) /\ prev \in [Vectors -> Nat]
  BY <1>8 DEF StackOK
<1>11. \A i \in 1..n : D[i].on # 0 => prev[D[i].on] = i - 1
  BY <1>1, <1>4 DEF StackOK
<1>12. StackOK(D, prev, nesting - 1)
  BY <1>2, <1>9, <1>10, <1>11 DEF StackOK
<1> QED
  BY <1>5, <1>7, <1>12 DEF D

\* An interrupt is taken whose vector is not in progress.
LEMMA TopInterrupted ==
    ASSUME NEW C, NEW prev, NEW nesting, StackOK(C, prev, nesting),
           NEW c \in OnVector, ~Uses(C, c.on)
    PROVE  StackOK(Append(C, c), [prev EXCEPT ![c.on] = Len(C)], nesting + 1)
<1> DEFINE n == Len(C)
           D == Append(C, c)
           v == c.on
           p == [prev EXCEPT ![v] = n]
<1>1. C \in Seq(OffStack \cup OnVector) /\ n \in Nat /\ prev \in [Vectors -> Nat]
  BY DEF StackOK
<1>2. /\ D \in Seq(OffStack \cup OnVector) /\ Len(D) = n + 1 /\ D # <<>>
      /\ \A i \in 1..n : D[i] = C[i]
      /\ D[n + 1] = c
  BY <1>1
<1>3. v \in {32, 48} /\ v \in Vectors
  BY VectorFacts DEF OnVector
<1>4. p \in [Vectors -> Nat] /\ p[v] = n /\ \A u \in Vectors : u # v => p[u] = prev[u]
  BY <1>1, <1>3
<1> HIDE DEF D, p, v
<1>v. c.on = v /\ v # 0
  BY <1>3 DEF v
<1>5. /\ ~Uses(C, v) /\ Uses(D, v)
      /\ \A u \in {32, 48} : u # v => (Uses(D, u) <=> Uses(C, u))
  <2>1. ~Uses(C, v)
    BY DEF v
  <2>2. Uses(D, v)
    BY <1>1, <1>2, <1>v DEF Uses
  <2>3. ASSUME NEW u \in {32, 48}, u # v
        PROVE  Uses(D, u) <=> Uses(C, u)
    BY <1>1, <1>2, <1>v, <2>3 DEF Uses
  <2> QED
    BY <2>1, <2>2, <2>3
<1>6. Handlers(D) = Handlers(C) + 1
  BY <1>3, <1>5, VectorFacts DEF Handlers
<1>7. ASSUME NEW i \in 1..(n + 1), D[i].on # 0
      PROVE  p[D[i].on] = i - 1
  <2>1. CASE i = n + 1
    BY <1>1, <1>2, <1>4, <2>1 DEF v
  <2>2. CASE i # n + 1
    <3>1. /\ i \in 1..n /\ D[i] = C[i] /\ C[i].on # 0 /\ C[i].on # v
          /\ prev[C[i].on] = i - 1 /\ C[i].on \in Vectors
      <4>1. i \in 1..n /\ D[i] = C[i] /\ C[i].on # 0 /\ C[i] \in OffStack \cup OnVector
        BY <1>1, <1>2, <1>7, <2>2
      <4>2. C[i].on \in Vectors
        BY <4>1, ContextFacts
      <4>3. C[i].on # v /\ prev[C[i].on] = i - 1
        BY <1>5, <4>1 DEF Uses, StackOK
      <4> QED
        BY <4>1, <4>2, <4>3
    <3> QED
      BY <1>4, <3>1
  <2> QED
    BY <2>1, <2>2
<1>8. ASSUME NEW i \in 1..(n + 1), D[i].on = 0, D[i].todo # <<>>, NEW j \in 1..(i - 1)
      PROVE  D[j].on = 0
  <2>1. i \in 1..n /\ D[i] = C[i] /\ D[j] = C[j]
    <3>1. i # n + 1
      BY <1>1, <1>2, <1>v, <1>8
    <3>2. i \in 1..n /\ j \in 1..n
      BY <3>1, <1>1
    <3> QED
      BY <3>2, <1>2
  <2> QED
    BY <1>8, <2>1 DEF StackOK
<1>9. nesting + 1 = Handlers(D)
  BY <1>6 DEF StackOK
<1>10. StackOK(D, p, nesting + 1)
  BY <1>2, <1>4, <1>7, <1>8, <1>9 DEF StackOK
<1> QED
  BY <1>10 DEF D, p, v

\* iret of a context that has done its work.
LEMMA TopLeaves ==
    ASSUME NEW C, NEW prev, NEW nesting, StackOK(C, prev, nesting),
           Len(C) > 1, C[Len(C)].todo = <<>>
    PROVE  StackOK(Front(C), prev, nesting)
<1> DEFINE n == Len(C)
           D == SubSeq(C, 1, n - 1)
<1>1. C \in Seq(OffStack \cup OnVector) /\ n \in Nat
  BY DEF StackOK
<1>2. /\ D \in Seq(OffStack \cup OnVector) /\ Len(D) = n - 1 /\ D # <<>>
      /\ \A i \in 1..(n - 1) : D[i] = C[i]
  <2>1. \A i \in 1..(n - 1) : C[i] \in OffStack \cup OnVector
    BY <1>1
  <2>2. /\ D \in Seq(OffStack \cup OnVector)
        /\ Len(D) = IF 1 <= n - 1 THEN (n - 1) - 1 + 1 ELSE 0
        /\ \A i \in 1..((n - 1) - 1 + 1) : D[i] = C[1 + i - 1]
    BY <1>1, <2>1, SubSeqProperties
  <2> HIDE DEF D
  <2> QED
    BY <1>1, <2>2
<1> HIDE DEF D
<1>3. C[n].on = 0
  <2>1. C[n] \in OffStack \cup OnVector
    BY <1>1
  <2> QED
    BY <2>1, ContextFacts
<1>4. \A v \in {32, 48} : Uses(D, v) <=> Uses(C, v)
  BY <1>1, <1>2, <1>3 DEF Uses
<1>5. Handlers(D) = Handlers(C)
  BY <1>4, VectorFacts DEF Handlers
<1>6. StackOK(D, prev, nesting)
  <2>1. /\ prev \in [Vectors -> Nat] /\ nesting = Handlers(D)
        /\ \A i \in 1..n : C[i].on # 0 => prev[C[i].on] = i - 1
        /\ \A i \in 1..n : C[i].on = 0 /\ C[i].todo # <<>> =>
               \A j \in 1..(i - 1) : C[j].on = 0
    BY <1>5 DEF StackOK
  <2>2. \A i \in 1..(n - 1) : D[i].on # 0 => prev[D[i].on] = i - 1
    BY <1>1, <1>2, <2>1
  <2>3. ASSUME NEW i \in 1..(n - 1), D[i].on = 0, D[i].todo # <<>>, NEW j \in 1..(i - 1)
        PROVE  D[j].on = 0
    <3>1. i \in 1..n /\ D[i] = C[i] /\ D[j] = C[j]
      BY <1>1, <1>2
    <3> QED
      BY <2>1, <2>3, <3>1
  <2> QED
    BY <1>2, <2>1, <2>2, <2>3 DEF StackOK
<1>7. Front(C) = D
  BY DEF Front, D
<1> QED
  BY <1>6, <1>7

\* A thread that waits has no ISR in progress.
LEMMA NoHandler ==
    ASSUME NEW C \in Seq(OffStack), C # <<>>, NEW prev \in [Vectors -> Nat]
    PROVE  StackOK(C, prev, 0)
<1>1. ASSUME NEW i \in 1..Len(C)
      PROVE  C[i].on = 0
  <2>1. C[i] \in OffStack
    OBVIOUS
  <2> QED
    BY <2>1 DEF OffStack
<1>2. ~Uses(C, 32) /\ ~Uses(C, 48)
  BY <1>1 DEF Uses
<1>3. Handlers(C) = 0
  BY <1>2, HandlerCount
<1>4. C \in Seq(OffStack \cup OnVector)
  OBVIOUS
<1> QED
  BY <1>1, <1>3, <1>4 DEF StackOK

IrqInv ==
    /\ StackOK(contexts32, prevStack, irqNesting)
    /\ tss \in [Runners -> Seq(OffStack)] /\ \A t \in Runners : tss[t] # <<>>
    /\ current32 \in Runners /\ running32 \in Runners
    /\ fault # "stack"

\* Without the tracer the ISR of the clock never enables the interrupts, so it is
\* on top and is not interrupted.
ClockOnTop ==
    ~tracer32 => \A i \in 1..Len(contexts32) : contexts32[i].on = Clock =>
                    i = Len(contexts32) /\ ~Now.if /\ Now.todo = <<"epilogue">>
ClockInv == ClockOnTop /\ (fault = "clock" => tracer32)

LEMMA RunningContext ==
    ASSUME IrqInv
    PROVE  /\ contexts32 \in Seq(OffStack \cup OnVector) /\ Len(contexts32) \in Nat
           /\ Len(contexts32) >= 1
           /\ Now = contexts32[Len(contexts32)] /\ Now \in OffStack \cup OnVector
<1>1. contexts32 \in Seq(OffStack \cup OnVector) /\ contexts32 # <<>>
  BY DEF IrqInv, StackOK
<1>2. Len(contexts32) \in Nat /\ Len(contexts32) >= 1
  BY <1>1
<1> QED
  BY <1>1, <1>2 DEF Now, Last

\* What the contexts are made of: the calls of the HAL are the kernel's.
LEMMA Scripts ==
    /\ CallOfHal \in Seq(KernelOps) /\ Scheduled \in Seq(KernelOps)
    /\ <<>> \in Seq(KernelOps)
    /\ \A v \in Vectors : IsrOf(v) \subseteq IsrScripts
    /\ ~tracer32 => IsrOf(Clock) = {<<"epilogue">>}
<1>1. /\ <<"enter">> \in Seq(KernelOps)
      /\ <<"pick", "release", "dispatch">> \in Seq(KernelOps) /\ <<>> \in Seq(KernelOps)
  BY DEF KernelOps
<1>2. CallOfHal \in Seq(KernelOps) /\ Scheduled \in Seq(KernelOps)
  BY <1>1 DEF CallOfHal, Scheduled
<1>4. \A v \in Vectors : IsrOf(v) \subseteq IsrScripts
  BY DEF IsrOf, IsrScripts
<1>5. ~tracer32 => IsrOf(Clock) = {<<"epilogue">>}
  BY VectorFacts DEF IsrOf
<1> QED
  BY <1>1, <1>2, <1>4, <1>5

LEMMA ContextTypes ==
    ASSUME NEW i \in BOOLEAN
    PROVE  /\ \A s \in Seq(KernelOps) : /\ Context32(0, i, s) \in OffStack
                                        /\ Context32(0, i, s).todo = s
           /\ \A v \in Vectors, s \in IsrScripts :
                 Context32(v, i, s) \in OnVector /\ Context32(v, i, s).on = v
BY DEF Context32, OffStack, OnVector

LEMMA TakeVectorInv ==
    ASSUME IrqInv, NEW v \in Vectors, TakeVector(v)
    PROVE  IrqInv'
<1> DEFINE n == Len(contexts32)
<1>1. PICK steps \in IsrOf(v) :
         contexts32' = Append(contexts32, Context32(v, steps # <<"epilogue">>, steps))
  BY DEF TakeVector
<1> DEFINE c == Context32(v, steps # <<"epilogue">>, steps)
<1>2. c \in OnVector /\ c.on = v
  BY Scripts, ContextTypes
<1> HIDE DEF c
<1>3. /\ contexts32' = Append(contexts32, c)
      /\ prevStack' = [prevStack EXCEPT ![v] = n]
      /\ irqNesting' = irqNesting + 1
      /\ UNCHANGED <<tss, current32, running32, fault>>
  BY <1>1 DEF TakeVector, tasks, c
<1>4. ~Uses(contexts32, c.on)
  BY <1>2, RunningContext DEF TakeVector, Entered32, Uses
<1>5. StackOK(contexts32', prevStack', irqNesting')
  BY <1>2, <1>3, <1>4, TopInterrupted DEF IrqInv
<1> QED
  BY <1>3, <1>5 DEF IrqInv

\* A step of the running context that is not its last on a vector.
LEMMA GoesOnInv ==
    ASSUME IrqInv, NEW c \in OffStack \cup OnVector, c.on = Now.on,
           c.on = 0 /\ c.todo # <<>> => Now.todo # <<>> \/ Len(contexts32) = 1,
           Goes(c)
    PROVE  StackOK(contexts32', prevStack, irqNesting)
BY RunningContext, TopGoesOn DEF Goes, IrqInv

\* What is left of a context after a step of the kernel.
LEMMA DoneTypes ==
    ASSUME IrqInv, Now.on = 0, Now.todo # <<>>
    PROVE  /\ Done(Now) \in OffStack /\ [Done(Now) EXCEPT !.if = TRUE] \in OffStack
<1> DEFINE c == Now
           rest == Tail(c.todo)
<1>1. c \in OffStack /\ c.todo \in Seq(KernelOps) /\ c.todo # <<>>
  BY RunningContext, ContextFacts
<1>2. rest \in Seq(KernelOps)
  BY <1>1, HeadTailProperties
<1> HIDE DEF rest
<1>3. Done(c) = [c EXCEPT !.todo = rest]
  BY DEF Done, rest
<1> HIDE DEF c
<1>4. Done(c) \in OffStack /\ [Done(c) EXCEPT !.if = TRUE] \in OffStack
  BY <1>1, <1>2, <1>3 DEF OffStack
<1> QED
  BY <1>4 DEF c

LEMMA KernelOfContext ==
    ASSUME IrqInv, Now.todo # <<>>
    PROVE  /\ Now.on = 0 => Head(Now.todo) \in KernelOps
           /\ Now.on # 0 => /\ Now.on \in Vectors
                            /\ Now.todo \in IsrScripts
                            /\ Head(Now.todo) \in {"clock_init", "eoi", "epilogue"}
<1> DEFINE c == Now
<1>1. c \in OffStack \cup OnVector
  BY RunningContext
<1>2. \A s \in IsrScripts : Head(s) \in {"clock_init", "eoi", "epilogue"}
  BY DEF IsrScripts
<1>3. c.on = 0 => Head(c.todo) \in KernelOps
  BY <1>1, ContextFacts, HeadTailProperties
<1>4. c.on # 0 => c.on \in Vectors /\ c.todo \in IsrScripts
  BY <1>1, ContextFacts
<1> QED
  BY <1>2, <1>3, <1>4

LEMMA IsrStepInv ==
    ASSUME IrqInv, Now.todo # <<>>, IsrStep(Head(Now.todo))
    PROVE  /\ StackOK(contexts32', prevStack, irqNesting)
           /\ Now.on # 0 /\ Now.todo # <<"epilogue">>
<1> DEFINE c == Now
           d == Done(c)
<1>1. c.on # 0 /\ c.todo \in IsrScripts /\ c.todo # <<"epilogue">>
  <2>1. "clock_init" \notin KernelOps /\ "eoi" \notin KernelOps /\ Head(<<"epilogue">>) = "epilogue"
    BY DEF KernelOps
  <2> QED
    BY <2>1, KernelOfContext, RunningContext, ContextFacts DEF IsrStep
<1>2. c \in OnVector
  BY <1>1, RunningContext, ContextFacts
<1>3. Tail(c.todo) \in IsrScripts
  <2>1. /\ Tail(<<"clock_init", "eoi", "epilogue">>) = <<"eoi", "epilogue">>
        /\ Tail(<<"eoi", "epilogue">>) = <<"epilogue">>
    OBVIOUS
  <2> QED
    BY <1>1, <2>1 DEF IsrScripts
<1> HIDE DEF c
<1>4. d \in OnVector /\ d.on = c.on
  BY <1>1, <1>2, <1>3 DEF Done, OnVector
<1> HIDE DEF d
<1>5. d \in OffStack \cup OnVector /\ d.on = Now.on /\ d.on # 0 /\ Goes(d)
  BY <1>1, <1>4 DEF c, d, IsrStep
<1> QED
  BY <1>1, <1>5, GoesOnInv DEF c

\* Where an ISR came from is not needed once it has left the stack of its vector.
LEMMA StackForgets ==
    ASSUME NEW C, NEW prev, NEW nesting, StackOK(C, prev, nesting), NEW v, ~Uses(C, v)
    PROVE  StackOK(C, [prev EXCEPT ![v] = 0], nesting)
<1> DEFINE q == [prev EXCEPT ![v] = 0]
<1>1. q \in [Vectors -> Nat]
  BY DEF StackOK
<1>2. ASSUME NEW i \in 1..Len(C), C[i].on # 0 PROVE q[C[i].on] = i - 1
  <2>1. C[i] \in OffStack \cup OnVector
    BY DEF StackOK
  <2>2. C[i].on \in Vectors /\ C[i].on # v /\ prev[C[i].on] = i - 1
    BY <1>2, <2>1, ContextFacts DEF StackOK, Uses
  <2> QED
    BY <2>2 DEF StackOK
<1> HIDE DEF q
<1> QED
  BY <1>1, <1>2 DEF StackOK, q

LEMMA Epilogue32Inv ==
    ASSUME IrqInv, Now.todo # <<>>, Epilogue32(Head(Now.todo))
    PROVE  StackOK(contexts32', prevStack', irqNesting') /\ fault' = fault
<1> DEFINE n == Len(contexts32)
<1>1. Now.on # 0
  <2>1. "epilogue" \notin KernelOps
    BY DEF KernelOps
  <2> QED
    BY <2>1, KernelOfContext DEF Epilogue32
<1>2. irqNesting' = irqNesting - 1
  BY DEF Epilogue32
<1>3. PICK c \in OffStack : Goes(c) /\ (c.todo # <<>> => irqNesting <= 1)
  <2>1. /\ Context32(0, FALSE, <<>>) \in OffStack /\ Context32(0, FALSE, <<>>).todo = <<>>
        /\ Context32(0, TRUE, Scheduled) \in OffStack
    BY Scripts, ContextTypes
  <2>2. irqNesting \in Nat
    BY HandlerCount DEF IrqInv, StackOK
  <2>3. \/ Goes(Context32(0, FALSE, <<>>))
        \/ Goes(Context32(0, TRUE, Scheduled)) /\ ~(irqNesting > 1)
    BY DEF Epilogue32
  <2> DEFINE back == Context32(0, FALSE, <<>>)
             flush == Context32(0, TRUE, Scheduled)
  <2> HIDE DEF back, flush
  <2>4. CASE Goes(back)
    <3>1. back \in OffStack /\ back.todo = <<>>
      BY <2>1 DEF back
    <3> QED
      BY <2>4, <3>1
  <2>5. CASE Goes(flush) /\ irqNesting <= 1
    <3>1. flush \in OffStack
      BY <2>1 DEF flush
    <3> QED
      BY <2>5, <3>1
  <2>6. Goes(back) \/ (Goes(flush) /\ ~(irqNesting > 1))
    BY <2>3 DEF back, flush
  <2> QED
    BY <2>2, <2>4, <2>5, <2>6
<1>4. /\ contexts32' = [contexts32 EXCEPT ![n] = c]
      /\ Now = contexts32[n]
  BY <1>3, RunningContext DEF Goes
<1>5. /\ StackOK([contexts32 EXCEPT ![n] = c], prevStack, irqNesting - 1)
      /\ prevStack[contexts32[n].on] = n - 1
      /\ ~Uses([contexts32 EXCEPT ![n] = c], contexts32[n].on)
  <2>1. /\ StackOK(contexts32, prevStack, irqNesting) /\ contexts32[n].on # 0
        /\ c.todo # <<>> => irqNesting <= 1
    BY <1>1, <1>3, <1>4 DEF IrqInv
  <2> QED
    BY <2>1, TopReturns
<1>6. fault' = fault /\ prevStack' = [prevStack EXCEPT ![Now.on] = 0]
  BY <1>4, <1>5 DEF Epilogue32
<1>7. StackOK(contexts32', prevStack', irqNesting')
  <2>1. /\ StackOK(contexts32', prevStack, irqNesting') /\ ~Uses(contexts32', Now.on)
    BY <1>2, <1>4, <1>5
  <2> QED
    BY <1>6, <2>1, StackForgets
<1> QED
  BY <1>6, <1>7

LEMMA KernelStepInv ==
    ASSUME IrqInv, Now.todo # <<>>, KernelStep(Head(Now.todo))
    PROVE  StackOK(contexts32', prevStack, irqNesting) /\ current32' \in Runners
<1>1. Now.on = 0
  BY KernelOfContext DEF KernelStep
<1>2. PICK c \in OffStack : Goes(c)
  BY <1>1, DoneTypes DEF KernelStep
<1>3. c.on = 0
  BY DEF OffStack
<1>4. StackOK(contexts32', prevStack, irqNesting)
  BY <1>1, <1>2, <1>3, GoesOnInv
<1>5. current32' \in Runners
  BY DEF KernelStep, IrqInv
<1> QED
  BY <1>4, <1>5

\* A context that dispatches has no ISR below it, so neither the thread that
\* is left nor the one that comes has one.
LEMMA Dispatch32Inv ==
    ASSUME IrqInv, Now.todo # <<>>, Dispatch32(Head(Now.todo)),
           UNCHANGED <<current32, prevStack, irqNesting>>
    PROVE  IrqInv'
<1> DEFINE n == Len(contexts32)
           d == Done(Now)
           left == [contexts32 EXCEPT ![n] = d]
<1>1. Now.on = 0
  BY KernelOfContext DEF Dispatch32
<1>2. d \in OffStack
  BY <1>1, DoneTypes
<1>3. /\ contexts32 \in Seq(OffStack \cup OnVector) /\ n \in Nat /\ n >= 1
      /\ contexts32[n].on = 0 /\ contexts32[n].todo # <<>>
  BY <1>1, RunningContext
<1>4. \A i \in 1..n : contexts32[i].on = 0
  BY <1>3 DEF IrqInv, StackOK
<1>5. irqNesting = 0 /\ prevStack \in [Vectors -> Nat]
  <2>1. ~Uses(contexts32, 32) /\ ~Uses(contexts32, 48)
    BY <1>4 DEF Uses
  <2> QED
    BY <2>1, HandlerCount DEF IrqInv, StackOK
<1>6. left \in Seq(OffStack) /\ left # <<>>
  <2>1. \A i \in 1..n : contexts32[i] \in OffStack
    BY <1>3, <1>4, ContextFacts
  <2> HIDE DEF d
  <2>2. left = [i \in 1..n |-> IF i = n THEN d ELSE contexts32[i]]
    BY <1>3
  <2>3. [i \in 1..n |-> IF i = n THEN d ELSE contexts32[i]] \in Seq(OffStack)
    BY <1>2, <1>3, <2>1
  <2>4. Len(left) = n
    BY <1>3
  <2>5. left \in Seq(OffStack)
    BY <2>2, <2>3
  <2> HIDE DEF left
  <2> QED
    BY <1>3, <2>4, <2>5
<1>7. ~ \E i \in DOMAIN left : left[i].on # 0
  <2> HIDE DEF left
  <2>1. DOMAIN left = 1..Len(left) /\ \A i \in 1..Len(left) : left[i] \in OffStack
    BY ONLY <1>6
  <2>2. \A c \in OffStack : c.on = 0
    BY DEF OffStack
  <2> QED
    BY ONLY <2>1, <2>2
<1>8. StackOK(left, prevStack, 0)
  BY <1>5, <1>6, NoHandler
<1>9. \/ contexts32' = left /\ UNCHANGED <<tss, running32, fault>>
      \/ fault' = "#GP" /\ UNCHANGED <<contexts32, tss, running32>>
      \/ /\ tss' = [tss EXCEPT ![running32] = left]
         /\ contexts32' = tss[current32] /\ running32' = current32
         /\ fault' = fault
  BY <1>7 DEF Dispatch32
<1> HIDE DEF left
<1>10. CASE contexts32' = left /\ UNCHANGED <<tss, running32, fault>>
  BY <1>5, <1>8, <1>10 DEF IrqInv
<1>11. CASE fault' = "#GP" /\ UNCHANGED <<contexts32, tss, running32>>
  BY <1>11 DEF IrqInv
<1>12. CASE /\ tss' = [tss EXCEPT ![running32] = left]
            /\ contexts32' = tss[current32] /\ running32' = current32
            /\ fault' = fault
  <2>1. StackOK(contexts32', prevStack', irqNesting')
    BY <1>5, <1>12, NoHandler DEF IrqInv
  <2>2. tss' \in [Runners -> Seq(OffStack)] /\ \A t \in Runners : tss'[t] # <<>>
    BY <1>6, <1>12 DEF IrqInv
  <2> QED
    BY <1>12, <2>1, <2>2 DEF IrqInv
<1> QED
  BY <1>9, <1>10, <1>11, <1>12

LEMMA Step32Inv ==
    ASSUME IrqInv, Step32
    PROVE  IrqInv'
<1> DEFINE op == Head(Now.todo)
<1>1. Now.todo # <<>>
  BY DEF Step32
<1>2. \/ IsrStep(op) /\ UNCHANGED <<tasks, scheduling, prevStack, irqNesting, fault>>
      \/ Epilogue32(op) /\ UNCHANGED <<tasks, armed>>
      \/ /\ KernelStep(op)
         /\ UNCHANGED <<tss, running32, prevStack, irqNesting, armed, fault>>
      \/ /\ Dispatch32(op)
         /\ UNCHANGED <<current32, old32, scheduling, prevStack, irqNesting, armed>>
  BY DEF Step32
<1>3. CASE IsrStep(op) /\ UNCHANGED <<tasks, scheduling, prevStack, irqNesting, fault>>
  <2>1. StackOK(contexts32', prevStack, irqNesting)
    BY <1>1, <1>3, IsrStepInv
  <2> QED
    BY <1>3, <2>1 DEF IrqInv, tasks
<1>4. CASE Epilogue32(op) /\ UNCHANGED <<tasks, armed>>
  BY <1>1, <1>4, Epilogue32Inv DEF IrqInv, tasks
<1>5. CASE KernelStep(op) /\ UNCHANGED <<tss, running32, prevStack, irqNesting, armed, fault>>
  BY <1>1, <1>5, KernelStepInv DEF IrqInv
<1>6. CASE Dispatch32(op) /\ UNCHANGED <<current32, old32, scheduling, prevStack, irqNesting, armed>>
  BY <1>1, <1>6, Dispatch32Inv
<1> QED
  BY <1>2, <1>3, <1>4, <1>5, <1>6

LEMMA CallHalInv ==
    ASSUME IrqInv, CallHal
    PROVE  IrqInv'
<1> DEFINE c == Now
           d == [c EXCEPT !.todo = CallOfHal]
<1>1. c \in OffStack /\ Len(contexts32) = 1
  BY RunningContext, ContextFacts DEF CallHal
<1> HIDE DEF c
<1>2. d \in OffStack /\ d.on = 0 /\ c.on = 0
  BY <1>1, Scripts DEF OffStack
<1> HIDE DEF d
<1>3. d \in OffStack \cup OnVector /\ d.on = Now.on /\ Goes(d)
  BY <1>2 DEF CallHal, c, d
<1>4. StackOK(contexts32', prevStack, irqNesting)
  BY <1>1, <1>3, GoesOnInv
<1> QED
  BY <1>4 DEF CallHal, tasks, IrqInv

LEMMA IretInv ==
    ASSUME IrqInv, Iret
    PROVE  IrqInv'
<1>1. /\ Len(contexts32) > 1 /\ contexts32[Len(contexts32)].todo = <<>>
      /\ contexts32' = Front(contexts32)
      /\ UNCHANGED <<tss, current32, running32, prevStack, irqNesting, fault>>
  BY RunningContext DEF Iret, tasks
<1> QED
  BY <1>1, TopLeaves DEF IrqInv

\* Where the clock is not on top the running context may be what it likes.
LEMMA ClockLeaves ==
    ASSUME \A i \in 1..Len(contexts32') : contexts32'[i].on # Clock
    PROVE  ClockOnTop'
BY DEF ClockOnTop

LEMMA ClockOnTopNext ==
    ASSUME IrqInv, ClockOnTop, Ia32Next
    PROVE  ClockOnTop' /\ tracer32' = tracer32
<1> DEFINE n == Len(contexts32)
<1>1. tracer32' = tracer32
  BY DEF Ia32Next, TakeVector, EntersOwnStack, Step32, CallHal, Iret
<1> SUFFICES ASSUME ~tracer32 PROVE ClockOnTop'
  BY <1>1 DEF ClockOnTop
<1>2. /\ contexts32 \in Seq(OffStack \cup OnVector) /\ n \in Nat /\ n >= 1
      /\ Now = contexts32[n] /\ Now \in OffStack \cup OnVector
  BY RunningContext
<1>3. ASSUME Now.if \/ Now.on # Clock \/ Now.todo # <<"epilogue">>
      PROVE  \A i \in 1..n : contexts32[i].on # Clock
  BY <1>2, <1>3 DEF ClockOnTop
<1>4. ASSUME NEW c, contexts32' = [contexts32 EXCEPT ![n] = c], c.on # Clock,
             \A i \in 1..(n - 1) : contexts32[i].on # Clock
      PROVE  ClockOnTop'
  <2>1. Len(contexts32') = n /\ \A i \in 1..n : contexts32'[i] = IF i = n THEN c ELSE contexts32[i]
    <3>1. DOMAIN contexts32 = 1..n /\ n \in Nat
      BY <1>2
    <3> HIDE DEF n
    <3>2. contexts32' = [i \in 1..n |-> IF i = n THEN c ELSE contexts32[i]]
      BY <1>4, <3>1
    <3> QED
      BY <3>1, <3>2
  <2>2. ASSUME NEW i \in 1..Len(contexts32') PROVE contexts32'[i].on # Clock
    <3>1. i = n \/ i \in 1..(n - 1)
      BY <1>2, <2>1
    <3> QED
      BY <1>4, <2>1, <3>1
  <2> QED
    BY <2>2, ClockLeaves
<1>5. \A i \in 1..(n - 1) : contexts32[i].on # Clock
  BY <1>2 DEF ClockOnTop
<1>6. CASE \E v \in {Clock, Timer} : TakeVector(v)
  <2> PICK v \in {Clock, Timer} : TakeVector(v)
    BY <1>6
  <2>1. PICK steps \in IsrOf(v) :
           Now.if /\ contexts32' = Append(contexts32, Context32(v, steps # <<"epilogue">>, steps))
    BY DEF TakeVector, Comes
  <2> DEFINE c == Context32(v, steps # <<"epilogue">>, steps)
  <2>2. c.on = v /\ (v = Clock => ~c.if /\ c.todo = <<"epilogue">>)
    BY Scripts DEF Context32
  <2> HIDE DEF c
  <2>3. /\ Len(contexts32') = n + 1
        /\ \A i \in 1..(n + 1) : contexts32'[i] = IF i = n + 1 THEN c ELSE contexts32[i]
    BY <1>2, <2>1 DEF c
  <2>4. Now' = c
    BY <1>2, <2>3 DEF Now, Last
  <2>5. \A i \in 1..n : contexts32[i].on # Clock
    BY <1>3, <2>1
  <2>6. \A i \in 1..(n + 1) : contexts32'[i].on = Clock => i = n + 1 /\ v = Clock
    BY <1>2, <2>2, <2>3, <2>5
  <2> QED
    BY <2>2, <2>3, <2>4, <2>6 DEF ClockOnTop
<1>7. CASE \E v \in {Clock, Timer} : EntersOwnStack(v)
  <2>1. contexts32' = contexts32 /\ Now' = Now
    BY <1>7 DEF EntersOwnStack, Now
  <2> QED
    BY <1>1, <2>1 DEF ClockOnTop
<1>8. CASE Step32
  <2> DEFINE op == Head(Now.todo)
  <2>1. Now.todo # <<>>
    BY <1>8 DEF Step32
  <2>2. CASE IsrStep(op)
    <3>1. Now.on # Clock /\ Done(Now).on = Now.on
      BY <1>2, <1>3, <2>1, <2>2, IsrStepInv DEF Done, OffStack, OnVector
    <3> QED
      BY <1>2, <1>4, <1>5, <2>2, <3>1 DEF IsrStep, Goes
  <2>3. CASE Epilogue32(op)
    <3>1. PICK todo, if : Goes(Context32(0, if, todo))
      BY <2>3 DEF Epilogue32
    <3>2. Context32(0, if, todo).on # Clock
      BY VectorFacts DEF Context32
    <3> QED
      BY <1>4, <1>5, <3>1, <3>2 DEF Goes
  <2>4. CASE KernelStep(op)
    <3>1. Now.on = 0
      BY <2>1, <2>4, KernelOfContext DEF KernelStep
    <3>2. Done(Now).on = 0 /\ [Done(Now) EXCEPT !.if = TRUE].on = 0
      BY <2>1, <3>1, DoneTypes DEF OffStack
    <3>3. PICK c : Goes(c) /\ c.on = 0
      BY <2>4, <3>2 DEF KernelStep
    <3>4. contexts32' = [contexts32 EXCEPT ![n] = c] /\ c.on # Clock
      BY <3>3, VectorFacts DEF Goes
    <3> QED
      BY <1>4, <1>5, <3>4
  <2>5. CASE Dispatch32(op) /\ UNCHANGED <<current32, old32, scheduling, prevStack, irqNesting, armed>>
    <3>1. Now.on = 0
      BY <2>1, <2>5, KernelOfContext DEF Dispatch32
    <3>2. Done(Now).on = 0
      BY <2>1, <3>1, DoneTypes DEF OffStack
    <3>3. CASE contexts32' = [contexts32 EXCEPT ![n] = Done(Now)]
      <4>1. Done(Now).on # Clock
        BY <3>2, VectorFacts
      <4> QED
        BY <1>4, <1>5, <3>3, <4>1
    <3>4. CASE contexts32' = contexts32
      <4>1. Now' = Now
        BY <3>4 DEF Now
      <4> QED
        BY <1>1, <3>4, <4>1 DEF ClockOnTop
    <3>5. CASE contexts32' = tss[current32]
      <4>1. \A i \in 1..Len(contexts32') : contexts32'[i] \in OffStack
        BY <3>5 DEF IrqInv
      <4>2. \A i \in 1..Len(contexts32') : contexts32'[i].on # Clock
        BY <4>1, VectorFacts DEF OffStack
      <4> QED
        BY <4>2, ClockLeaves
    <3> QED
      BY <2>5, <3>3, <3>4, <3>5 DEF Dispatch32
  <2> QED
    BY <1>8, <2>2, <2>3, <2>4, <2>5 DEF Step32
<1>9. CASE CallHal
  <2>1. contexts32' = [contexts32 EXCEPT ![n] = [Now EXCEPT !.todo = CallOfHal]] /\ Now.todo = <<>>
    BY <1>9 DEF CallHal, Goes
  <2>2. [Now EXCEPT !.todo = CallOfHal].on = Now.on
    BY <1>2 DEF OffStack, OnVector
  <2>3. Now.on # Clock
    BY <1>2, <1>3, <2>1
  <2> QED
    BY <1>4, <1>5, <2>1, <2>2, <2>3
<1>10. CASE Iret
  <2>1. Len(contexts32') = n - 1 /\ \A i \in 1..(n - 1) : contexts32'[i] = contexts32[i]
    <3> DEFINE D == SubSeq(contexts32, 1, n - 1)
    <3>1. contexts32' = D /\ n > 1
      BY <1>10 DEF Iret, Front
    <3>2. \A i \in 1..(n - 1) : contexts32[i] \in OffStack \cup OnVector
      BY <1>2
    <3>3. /\ D \in Seq(OffStack \cup OnVector)
          /\ Len(D) = IF 1 <= n - 1 THEN (n - 1) - 1 + 1 ELSE 0
          /\ \A i \in 1..((n - 1) - 1 + 1) : D[i] = contexts32[1 + i - 1]
      BY <1>2, <3>2, SubSeqProperties
    <3> HIDE DEF D
    <3> QED
      BY <1>2, <3>1, <3>3
  <2> QED
    BY <1>5, <2>1, ClockLeaves
<1> QED
  BY <1>6, <1>7, <1>8, <1>9, <1>10 DEF Ia32Next

LEMMA ClockInvNext ==
    ASSUME IrqInv, ClockInv, [Ia32Next]_irqVars
    PROVE  ClockInv'
<1>1. CASE UNCHANGED irqVars
  BY <1>1 DEF irqVars, ClockInv, ClockOnTop, Now
<1>2. CASE Ia32Next
  <2>1. ClockOnTop' /\ tracer32' = tracer32 /\ fault = ""
    BY <1>2, ClockOnTopNext DEF ClockInv, Ia32Next
  <2>2. CASE \E v \in {Clock, Timer} : EntersOwnStack(v)
    <3>1. PICK v \in {Clock, Timer} : EntersOwnStack(v)
      BY <2>2
    <3>2. fault' = (IF v = Clock THEN "clock" ELSE "timer") /\ Now.if
          /\ \E i \in DOMAIN contexts32 : contexts32[i].on = v
      BY <3>1 DEF EntersOwnStack, Entered32, Comes
    <3>3. v = Clock => tracer32
      BY <3>2, RunningContext DEF ClockInv, ClockOnTop
    <3> QED
      BY <2>1, <3>2, <3>3 DEF ClockInv
  <2>3. CASE ~ \E v \in {Clock, Timer} : EntersOwnStack(v)
    <3>1. fault' # "clock"
      BY <1>2, <2>1, <2>3 DEF Ia32Next, TakeVector, Step32, IsrStep, Epilogue32, KernelStep,
                              Dispatch32, CallHal, Iret
    <3> QED
      BY <2>1, <3>1 DEF ClockInv
  <2> QED
    BY <2>2, <2>3
<1> QED
  BY <1>1, <1>2

\* Every interrupt of the ia32 goes back to the stack that it interrupted and
\* no thread is switched away with an ISR on the stack of a vector, for any
\* number of threads and any depth of nesting; without the tracer the clock
\* never enters the stack that its own ISR is on.
THEOREM IrqStacksCorrect == Ia32Spec => []IrqStacksHold
<1>1. Ia32Start => IrqInv /\ ClockInv
  <2> SUFFICES ASSUME Ia32Start PROVE IrqInv /\ ClockInv
    OBVIOUS
  <2> DEFINE c == Context32(0, TRUE, <<>>)
  <2>1. c \in OffStack
    BY Scripts, ContextTypes
  <2>2. /\ contexts32 = <<c>> /\ tss = [t \in Runners |-> <<c>>]
        /\ prevStack = [v \in Vectors |-> 0] /\ irqNesting = 0 /\ fault = ""
        /\ current32 \in Runners /\ running32 \in Runners
    BY DEF Ia32Start, Vectors
  <2> HIDE DEF c
  <2>3. <<c>> \in Seq(OffStack) /\ <<c>> # <<>>
    BY <2>1
  <2>4. StackOK(contexts32, prevStack, irqNesting)
    <3>1. prevStack \in [Vectors -> Nat]
      BY <2>2
    <3> QED
      BY <2>2, <2>3, <3>1, NoHandler
  <2>5. c.on # Clock
    BY <2>1, VectorFacts DEF OffStack
  <2>6. ClockInv
    <3>1. Len(contexts32) = 1 /\ contexts32[1] = c /\ fault # "clock"
      BY <2>2
    <3>2. \A i \in 1..Len(contexts32) : contexts32[i].on # Clock
      BY <2>5, <3>1
    <3> QED
      BY <3>1, <3>2 DEF ClockInv, ClockOnTop
  <2> QED
    BY <2>2, <2>3, <2>4, <2>6 DEF IrqInv
<1>2. IrqInv /\ [Ia32Next]_irqVars => IrqInv'
  <2> SUFFICES ASSUME IrqInv, [Ia32Next]_irqVars PROVE IrqInv'
    OBVIOUS
  <2>1. CASE \E v \in {Clock, Timer} : TakeVector(v) \/ EntersOwnStack(v)
    <3>1. CASE \E v \in {Clock, Timer} : TakeVector(v)
      BY <3>1, TakeVectorInv DEF Vectors
    <3>2. CASE \E v \in {Clock, Timer} : EntersOwnStack(v)
      BY <3>2 DEF EntersOwnStack, IrqInv, tasks
    <3> QED
      BY <2>1, <3>1, <3>2
  <2>2. CASE UNCHANGED irqVars
    BY <2>2 DEF irqVars, tasks, IrqInv
  <2> QED
    BY <2>1, <2>2, Step32Inv, CallHalInv, IretInv DEF Ia32Next
<1>3. IrqInv /\ ClockInv /\ [Ia32Next]_irqVars => ClockInv'
  BY ClockInvNext
<1>4. IrqInv /\ ClockInv => IrqStacksHold
  BY DEF IrqInv, ClockInv, IrqStacksHold
<1> QED
  BY <1>1, <1>2, <1>3, <1>4, PTL DEF Ia32Spec

----------------------------------------------------------------------------
(* The traps of the SPARC boards (SparcTraps).                             *)

\* No two vectors in play share a bit of the mask register.
OneVectorPerLine == \A v, w \in Vecs : Line(v) = Line(w) => v = w

TrapHandlers == {"garbage", "NULL", "handler", "OS_ClockISR", "OS_TimerISR"}
RegisterCalls ==
    [do : {"write", "enable"}, vec : Vecs,
     handler : {"", "handler", "OS_ClockISR", "OS_TimerISR"}]
TrapsTaken == [vec : Vecs, pil : 0..15, at : {"check", "call", "clear", "exit"}]

\* Vector v has a handler in the table is, or will have when step i of the
\* call c comes.
HandledAt(c, is, v, i) ==
    \/ is[v] # "NULL"
    \/ \E j \in 1..Len(c) : j < i /\ c[j].do = "write" /\ c[j].vec = v

\* A step enables what has a handler by then; the timer comes after the clock.
CallOK(c, is, timers) ==
    \A i \in 1..Len(c) :
        /\ c[i].do = "write" => c[i].handler # ""
        /\ c[i].do = "enable" => HandledAt(c, is, c[i].vec, i)
        /\ c[i].handler = "OS_TimerISR" =>
              /\ c[i].vec = timers.timer
              /\ timers.clock \in Vecs => HandledAt(c, is, timers.clock, i)
CallingOK == CallOK(calling, isr, Timers)

\* Vector v has a handler, or the thread has brought its trap about itself.
Expected(v) == isr[v] # "NULL" \/ v <= 16 \/ v \in bare

\* What lets an interrupt through, what has been taken, and what the handler
\* of the timer lets through.
HandledOK ==
    /\ \A l \in Lines : ~Masked(l) => Expected(16 + l)
    /\ \A i \in 1..Len(nested) : Expected(nested[i].vec)
    /\ \A v \in Vecs : isr[v] = "OS_TimerISR" =>
          v = Timers.timer /\ (Timers.clock \in Vecs => isr[Timers.clock] # "NULL")
    /\ \A v \in Vecs : oldIsr[v] = "OS_TimerISR" => v = Timers.timer

TrapTypes ==
    /\ board \in {"erc32", "leon2", "leon3"}
    /\ stage \in {"reset", "fpu", "OS_TrapInit", "OS_TimeInit", "run", "halt", "panic"}
    /\ isr \in [Vecs -> TrapHandlers] /\ oldIsr \in [Vecs -> TrapHandlers]
    /\ pil \in 0..15 /\ nested \in Seq(TrapsTaken) /\ calling \in Seq(RegisterCalls)

TrapTableInv ==
    /\ TrapTypes
    /\ stage \notin {"run", "halt", "panic"} =>
          nested = <<>> /\ calling = <<>> /\ \A l \in Lines : Masked(l)
    /\ stage = "OS_TimeInit" => \A v \in Vecs : isr[v] = "NULL" /\ oldIsr[v] = "NULL"
    /\ stage = "run" => CallingOK /\ HandledOK
    /\ NoUnhandledTrap

\* Steps that leave all that the invariant is about as it was.
TrapsUntouched == UNCHANGED <<board, stage, isr, oldIsr, bare, maskRegister, nested, calling>>

LEMMA TrapsStutter ==
    ASSUME TrapTableInv, TrapsUntouched, pil' \in 0..15
    PROVE  TrapTableInv'
<1>1. TrapTypes'
  BY DEF TrapTableInv, TrapTypes, TrapsUntouched
<1>2. CallingOK => CallingOK'
  <2>1. Timers' = Timers
    BY DEF Timers, TrapsUntouched
  <2> QED
    BY <2>1 DEF CallingOK, TrapsUntouched
<1>3. HandledOK => HandledOK'
  BY DEF HandledOK, Expected, Masked, Timers, TrapsUntouched
<1> QED
  BY <1>1, <1>2, <1>3 DEF TrapTableInv, NoUnhandledTrap, Masked, TrapsUntouched

LEMMA TrapsInit == TrapsAtReset => TrapTableInv
<1> SUFFICES ASSUME TrapsAtReset PROVE TrapTableInv
  OBVIOUS
<1>1. TrapTypes
  BY DEF TrapsAtReset, TrapTypes, TrapHandlers
<1>2. \A l \in Lines : Masked(l)
  BY DEF TrapsAtReset, Masked
<1> QED
  BY <1>1, <1>2 DEF TrapsAtReset, TrapTableInv, NoUnhandledTrap

\* The levels and the lines.
LEMMA LinesAre ==
    /\ \A l \in Lines : l \in 1..15 /\ 16 + l \in Vecs /\ Line(16 + l) = l
    /\ \A v \in Vecs : v \in 0..255 /\ Line(v) \in 0..15
<1>1. \A v \in 0..255 : Line(v) \in 0..15
  BY DEF Line
<1>2. \A v \in 17..31 : Line(v) \in 1..15 /\ 16 + Line(v) = v
  BY DEF Line
<1>3. \A v \in Vecs : v \in 0..255
  BY TableAssumption DEF TableAssumption
<1>4. ASSUME NEW l \in Lines PROVE l \in 1..15 /\ 16 + l \in Vecs /\ Line(16 + l) = l
  <2>1. PICK v \in Vecs : v > 16 /\ v < 32 /\ l = Line(v)
    BY DEF Lines
  <2>2. v \in 17..31
    BY <1>3, <2>1
  <2> QED
    BY <1>2, <2>1, <2>2
<1> QED
  BY <1>1, <1>3, <1>4

LEMMA LevelsAre ==
    ASSUME NEW a \in 0..15, NEW b \in 0..15
    PROVE  ExclusiveOr(a, b) \in 0..15
<1> DEFINE Bit(n, w) == (n \div w) % 2
           Differ(w) == (Bit(a, w) + Bit(b, w)) % 2
<1>1. \A w \in {1, 2, 4, 8} : Differ(w) \in 0..1
  OBVIOUS
<1>2. ExclusiveOr(a, b) = 8 * Differ(8) + 4 * Differ(4) + 2 * Differ(2) + Differ(1)
  BY DEF ExclusiveOr
<1> HIDE DEF Differ
<1> QED
  BY <1>1, <1>2

\* The lines that an operation on a vector masks and lets through.
LEMMA MaskIs ==
    ASSUME NEW v, NEW op \in {"mask", "enable"}, NEW l,
           board \in {"erc32", "leon2", "leon3"},
           maskRegister' = MaskAfter(maskRegister, op, v), board' = board
    PROVE  Masked(l)' <=> IF l = Line(v) THEN op = "mask" ELSE Masked(l)
BY DEF MaskAfter, Erc32Mask, Leon2Mask, Leon3Mask, Masked

----------------------------------------------------------------------------
(* The start-up code.                                                      *)

LEMMA StepSystemReset == TrapTableInv /\ SystemReset => TrapTableInv'
<1> SUFFICES ASSUME TrapTableInv, SystemReset PROVE TrapTableInv'
  OBVIOUS
<1>1. TrapTypes'
  BY DEF TrapTableInv, TrapTypes, SystemReset, tableVars
<1> QED
  BY <1>1 DEF TrapTableInv, NoUnhandledTrap, SystemReset, Masked

LEMMA StepLoadFpu == TrapTableInv /\ LoadFpu => TrapTableInv'
<1> SUFFICES ASSUME TrapTableInv, LoadFpu PROVE TrapTableInv'
  OBVIOUS
<1>1. TrapTypes' /\ stage' \in {"fpu", "OS_TrapInit"} /\ stage = "fpu"
  BY DEF TrapTableInv, TrapTypes, LoadFpu, tableVars
<1> QED
  BY <1>1 DEF TrapTableInv, NoUnhandledTrap, LoadFpu, Masked

LEMMA StepTrapInit == TrapTableInv /\ OS_TrapInit => TrapTableInv'
<1> SUFFICES ASSUME TrapTableInv, OS_TrapInit PROVE TrapTableInv'
  OBVIOUS
<1>1. TrapTypes'
  BY DEF TrapTableInv, TrapTypes, OS_TrapInit, TrapHandlers
<1> QED
  BY <1>1 DEF TrapTableInv, NoUnhandledTrap, OS_TrapInit, Masked

\* The two steps of a registration, or none.
LEMMA RegisterStepsAre ==
    ASSUME NEW v, NEW handler \in {"handler", "OS_ClockISR", "OS_TimerISR"}
    PROVE  /\ RegisterSteps(v, handler) \in Seq(RegisterCalls)
           /\ v \notin Vecs => RegisterSteps(v, handler) = <<>>
           /\ v \in Vecs => RegisterSteps(v, handler) =
                 <<[do |-> "write", vec |-> v, handler |-> handler],
                   [do |-> "enable", vec |-> v, handler |-> handler]>>
<1>1. CASE v \in Vecs
  <2>1. /\ [do |-> "write", vec |-> v, handler |-> handler] \in RegisterCalls
        /\ [do |-> "enable", vec |-> v, handler |-> handler] \in RegisterCalls
    BY <1>1 DEF RegisterCalls
  <2> QED
    BY <1>1, <2>1 DEF RegisterSteps
<1>2. CASE v \notin Vecs
  BY <1>2 DEF RegisterSteps
<1> QED
  BY <1>1, <1>2

\* The clock and the timer of a board are two vectors.
LEMMA TimersAre ==
    ASSUME board \in {"erc32", "leon2", "leon3"}
    PROVE  Timers.timer # Timers.clock /\ Timers.enables \in BOOLEAN
<1>1. CASE board = "erc32"
  <2>1. Timers = Erc32Timers
    BY <1>1 DEF Timers
  <2> QED
    BY <2>1 DEF Erc32Timers
<1>2. CASE board = "leon2"
  <2>1. Timers = Leon2Timers
    BY <1>2 DEF Timers
  <2> QED
    BY <2>1 DEF Leon2Timers
<1>3. CASE board = "leon3"
  <2>1. Timers = Leon3Timers
    BY <1>3 DEF Timers
  <2> QED
    BY <2>1 DEF Leon3Timers
<1> QED
  BY <1>1, <1>2, <1>3

LEMMA ClockIs ==
    ASSUME board \in {"erc32", "leon2", "leon3"}
    PROVE  Timers.clock \in {24, 25, 29}
<1>1. CASE board = "erc32"
  BY <1>1 DEF Timers, Erc32Timers
<1>2. CASE board = "leon2"
  BY <1>2 DEF Timers, Leon2Timers
<1>3. CASE board = "leon3"
  BY <1>3 DEF Timers, Leon3Timers
<1> QED
  BY <1>1, <1>2, <1>3

\* The place in the next two, or the next one, of a list.
LEMMA OneOfTwoMore ==
    ASSUME NEW i \in Nat, NEW n \in Nat, NEW m \in {0, 2}, i > n, i <= n + m
    PROVE  m = 2 /\ ((i - n = 1 /\ i = n + 1) \/ (i - n = 2 /\ i = n + 2))
OBVIOUS

LEMMA OneMore ==
    ASSUME NEW i \in Nat, NEW n \in Nat, NEW m \in {0, 1}, i > n, i <= n + m
    PROVE  m = 1 /\ i - n = 1 /\ i = n + 1
OBVIOUS

LEMMA StepTimeInit == TrapTableInv /\ OS_TimeInit => TrapTableInv'
<1> SUFFICES ASSUME TrapTableInv, OS_TimeInit PROVE TrapTableInv'
  OBVIOUS
<1> DEFINE t == Timers.timer
           k == Timers.clock
           a1 == [do |-> "write", vec |-> k, handler |-> "OS_ClockISR"]
           a2 == [do |-> "enable", vec |-> k, handler |-> "OS_ClockISR"]
           b1 == [do |-> "write", vec |-> t, handler |-> "OS_TimerISR"]
           b2 == [do |-> "enable", vec |-> t, handler |-> "OS_TimerISR"]
           b3 == [do |-> "enable", vec |-> t, handler |-> ""]
           more == IF Timers.enables /\ t \in Vecs THEN <<b3>> ELSE <<>>
           c1 == RegisterSteps(k, "OS_ClockISR")
           c2 == RegisterSteps(t, "OS_TimerISR")
<1>1. /\ board \in {"erc32", "leon2", "leon3"} /\ stage = "OS_TimeInit" /\ nested = <<>>
      /\ \A v \in Vecs : isr[v] = "NULL" /\ oldIsr[v] = "NULL"
      /\ \A l \in Lines : Masked(l)
      /\ stage' = "run" /\ UNCHANGED <<board, fpu, tableVars, maskRegister, irqPending, pil, nested>>
  BY DEF TrapTableInv, TrapTypes, OS_TimeInit
<1>2. t # k /\ Timers.enables \in BOOLEAN /\ Timers' = Timers
  <2>1. board' = board
    BY <1>1
  <2>2. Timers' = Timers
    BY <2>1 DEF Timers
  <2> QED
    BY <1>1, <2>2, TimersAre
<1>3. calling' = c1 \o c2 \o more
  BY DEF OS_TimeInit
<1>4. /\ c1 \in Seq(RegisterCalls) /\ c1 = IF k \in Vecs THEN <<a1, a2>> ELSE <<>>
      /\ c2 \in Seq(RegisterCalls) /\ c2 = IF t \in Vecs THEN <<b1, b2>> ELSE <<>>
  BY RegisterStepsAre
<1>5. more \in Seq(RegisterCalls) /\ more \in {<<>>, <<b3>>} /\ (more # <<>> => t \in Vecs)
  <2>1. t \in Vecs => b3 \in RegisterCalls
    BY DEF RegisterCalls
  <2> HIDE DEF t, b3
  <2> QED
    BY <2>1
<1> HIDE DEF t, k, c1, c2, more
<1> DEFINE c == c1 \o c2
<1>6. c \in Seq(RegisterCalls) /\ calling' = c \o more
  BY <1>3, <1>4
<1> HIDE DEF a1, a2, b1, b2, b3
<1>7. /\ Len(c1) \in {0, 2} /\ Len(c2) \in {0, 2} /\ Len(more) \in {0, 1}
      /\ Len(c1) = 2 <=> k \in Vecs
      /\ Len(c2) = 2 <=> t \in Vecs
      /\ Len(more) = 1 => t \in Vecs
      /\ k \in Vecs => c1[1] = a1 /\ c1[2] = a2
      /\ t \in Vecs => c2[1] = b1 /\ c2[2] = b2
      /\ Len(more) = 1 => more[1] = b3
  BY <1>4, <1>5
<1> HIDE DEF c
<1>8. calling' \in Seq(RegisterCalls)
  BY <1>5, <1>6
<1>9. /\ Len(calling') = Len(c1) + Len(c2) + Len(more)
      /\ \A i \in 1..Len(calling') :
            \/ k \in Vecs /\ i = 1 /\ calling'[i] = a1
            \/ k \in Vecs /\ i = 2 /\ calling'[i] = a2
            \/ t \in Vecs /\ i = Len(c1) + 1 /\ calling'[i] = b1
            \/ t \in Vecs /\ i = Len(c1) + 2 /\ calling'[i] = b2
            \/ t \in Vecs /\ i = Len(c1) + 3 /\ calling'[i] = b3
      /\ k \in Vecs => calling'[1] = a1
      /\ t \in Vecs => calling'[Len(c1) + 1] = b1
  <2>1. /\ Len(c) = Len(c1) + Len(c2)
        /\ \A i \in 1..Len(c) : c[i] = IF i <= Len(c1) THEN c1[i] ELSE c2[i - Len(c1)]
    BY <1>4 DEF c
  <2>2. /\ Len(calling') = Len(c) + Len(more)
        /\ \A i \in 1..Len(calling') :
              calling'[i] = IF i <= Len(c) THEN c[i] ELSE more[i - Len(c)]
    BY <1>5, <1>6
  <2>3. Len(calling') = Len(c1) + Len(c2) + Len(more)
    BY <1>7, <2>1, <2>2
  <2>4. ASSUME NEW i \in 1..Len(calling')
        PROVE  \/ i <= Len(c1) /\ calling'[i] = c1[i]
               \/ i > Len(c1) /\ i <= Len(c1) + Len(c2) /\ calling'[i] = c2[i - Len(c1)]
               \/ /\ i > Len(c1) + Len(c2) /\ i <= Len(c1) + Len(c2) + Len(more)
                  /\ calling'[i] = more[i - (Len(c1) + Len(c2))]
    BY <1>7, <2>1, <2>2, <2>3
  <2>5. \A i \in 1..Len(calling') :
            \/ k \in Vecs /\ i = 1 /\ calling'[i] = a1
            \/ k \in Vecs /\ i = 2 /\ calling'[i] = a2
            \/ t \in Vecs /\ i = Len(c1) + 1 /\ calling'[i] = b1
            \/ t \in Vecs /\ i = Len(c1) + 2 /\ calling'[i] = b2
            \/ t \in Vecs /\ i = Len(c1) + 3 /\ calling'[i] = b3
    <3> SUFFICES ASSUME NEW i \in 1..Len(calling')
                 PROVE  \/ k \in Vecs /\ i = 1 /\ calling'[i] = a1
                        \/ k \in Vecs /\ i = 2 /\ calling'[i] = a2
                        \/ t \in Vecs /\ i = Len(c1) + 1 /\ calling'[i] = b1
                        \/ t \in Vecs /\ i = Len(c1) + 2 /\ calling'[i] = b2
                        \/ t \in Vecs /\ i = Len(c1) + 3 /\ calling'[i] = b3
      OBVIOUS
    <3>1. CASE i <= Len(c1) /\ calling'[i] = c1[i]
      <4>1. Len(c1) = 2 /\ k \in Vecs /\ i \in {1, 2}
        BY <1>7, <2>3, <3>1
      <4> QED
        BY <1>7, <3>1, <4>1
    <3>2. CASE /\ i > Len(c1) /\ i <= Len(c1) + Len(c2)
               /\ calling'[i] = c2[i - Len(c1)]
      <4>1. i \in Nat /\ Len(c1) \in Nat /\ Len(c2) \in {0, 2}
        BY <1>7, <2>3
      <4>2. /\ Len(c2) = 2
            /\ (i - Len(c1) = 1 /\ i = Len(c1) + 1) \/ (i - Len(c1) = 2 /\ i = Len(c1) + 2)
        BY <3>2, <4>1, OneOfTwoMore
      <4>3. t \in Vecs /\ c2[1] = b1 /\ c2[2] = b2
        BY <1>7, <4>2
      <4> QED
        BY <3>2, <4>2, <4>3
    <3>3. CASE /\ i > Len(c1) + Len(c2) /\ i <= Len(c1) + Len(c2) + Len(more)
               /\ calling'[i] = more[i - (Len(c1) + Len(c2))]
      <4>1. /\ i \in Nat /\ Len(c1) \in Nat /\ Len(c2) \in Nat /\ Len(c1) + Len(c2) \in Nat
            /\ Len(more) \in {0, 1}
        BY <1>7, <2>3
      <4>2. Len(more) = 1 /\ i = Len(c1) + Len(c2) + 1
        BY <3>3, <4>1, OneMore
      <4>3. t \in Vecs /\ more[1] = b3
        BY <1>7, <4>2
      <4>4. Len(c2) = 2
        BY <1>7, <4>3
      <4>5. i = Len(c1) + 3 /\ i - (Len(c1) + Len(c2)) = 1
        BY <4>1, <4>2, <4>4
      <4> QED
        BY <3>3, <4>3, <4>5
    <3> QED
      BY <2>4, <3>1, <3>2, <3>3
  <2> QED
    BY <1>7, <2>1, <2>2, <2>3, <2>5
<1>10. CallingOK'
  <2>1. isr' = isr
    BY <1>1 DEF tableVars
  <2>2. /\ k \in Vecs => a1.do = "write" /\ a1.vec = k /\ 1 \in 1..Len(calling')
        /\ t \in Vecs => b1.do = "write" /\ b1.vec = t /\ Len(c1) + 1 \in 1..Len(calling')
    BY <1>7, <1>9 DEF a1, b1
  <2>3. /\ k \in Vecs => \A i \in Nat : i > 1 => HandledAt(calling', isr, k, i)
        /\ t \in Vecs => \A i \in Nat : i > Len(c1) + 1 => HandledAt(calling', isr, t, i)
    BY <1>9, <2>2 DEF HandledAt
  <2>4. /\ a1.handler = "OS_ClockISR" /\ a2 = [do |-> "enable", vec |-> k, handler |-> "OS_ClockISR"]
        /\ b1.do = "write" /\ b1.vec = t /\ b1.handler = "OS_TimerISR" /\ a1.do = "write"
        /\ b2.do = "enable" /\ b2.vec = t /\ b2.handler = "OS_TimerISR"
        /\ b3.do = "enable" /\ b3.vec = t /\ b3.handler = ""
        /\ a2.do = "enable" /\ a2.vec = k /\ a2.handler = "OS_ClockISR"
    BY DEF a1, a2, b1, b2, b3
  <2>5. ASSUME NEW i \in 1..Len(calling')
        PROVE  /\ calling'[i].do = "write" => calling'[i].handler # ""
               /\ calling'[i].do = "enable" => HandledAt(calling', isr, calling'[i].vec, i)
               /\ calling'[i].handler = "OS_TimerISR" =>
                     calling'[i].vec = t /\ (k \in Vecs => HandledAt(calling', isr, k, i))
    <3>1. /\ k \in Vecs /\ (i = 2 \/ i > Len(c1)) => HandledAt(calling', isr, k, i)
          /\ t \in Vecs /\ i > Len(c1) + 1 => HandledAt(calling', isr, t, i)
          /\ Len(c1) \in {0, 2}
      BY <1>7, <2>3
    <3> HIDE DEF HandledAt
    <3>2. CASE k \in Vecs /\ i = 1 /\ calling'[i] = a1
      BY <2>4, <3>2
    <3>3. CASE k \in Vecs /\ i = 2 /\ calling'[i] = a2
      BY <2>4, <3>1, <3>3
    <3>4. CASE t \in Vecs /\ i = Len(c1) + 1 /\ calling'[i] = b1
      <4>1. i > Len(c1)
        BY <3>1, <3>4
      <4> QED
        BY <2>4, <3>1, <3>4, <4>1
    <3>5. CASE t \in Vecs /\ i = Len(c1) + 2 /\ calling'[i] = b2
      <4>1. i > Len(c1) /\ i > Len(c1) + 1
        BY <3>1, <3>5
      <4> QED
        BY <2>4, <3>1, <3>5, <4>1
    <3>6. CASE t \in Vecs /\ i = Len(c1) + 3 /\ calling'[i] = b3
      <4>1. i > Len(c1) /\ i > Len(c1) + 1
        BY <3>1, <3>6
      <4> QED
        BY <2>4, <3>1, <3>6, <4>1
    <3> QED
      BY <1>9, <3>2, <3>3, <3>4, <3>5, <3>6
  <2> QED
    BY <1>2, <2>1, <2>5 DEF CallingOK, CallOK, t, k
<1>11. HandledOK'
  BY <1>1 DEF HandledOK, tableVars, Masked, Expected
<1>12. TrapTypes'
  BY <1>1, <1>8 DEF TrapTableInv, TrapTypes, tableVars
<1> QED
  BY <1>1, <1>10, <1>11, <1>12 DEF TrapTableInv, NoUnhandledTrap

----------------------------------------------------------------------------
(* The calls of the thread.                                                *)

LEMMA StepRegisterIRQ ==
    ASSUME TrapTableInv, NEW v \in OwnVecs, RegisterIRQ(v)
    PROVE  TrapTableInv'
<1> DEFINE a1 == [do |-> "write", vec |-> v, handler |-> "handler"]
           a2 == [do |-> "enable", vec |-> v, handler |-> "handler"]
<1>1. v \in Vecs /\ stage = "run" /\ HandledOK
  BY TableAssumption DEF OwnVecs, TableAssumption, RegisterIRQ, Idle, InThread, TrapTableInv
<1>2. calling' = <<a1, a2>> /\ calling' \in Seq(RegisterCalls)
  BY <1>1, RegisterStepsAre DEF RegisterIRQ
<1>3. UNCHANGED <<board, stage, isr, oldIsr, bare, maskRegister, irqPending, pil, nested>>
  BY DEF RegisterIRQ, tableVars
<1>4. TrapTypes'
  BY <1>2, <1>3 DEF TrapTableInv, TrapTypes
<1>5. HandledOK'
  BY <1>1, <1>3 DEF HandledOK, Masked, Timers, Expected
<1>6. CallingOK'
  <2>1. Len(calling') = 2 /\ calling'[1] = a1 /\ calling'[2] = a2
    BY <1>2
  <2>2. /\ a1.do = "write" /\ a1.vec = v /\ a1.handler = "handler"
        /\ a2.do = "enable" /\ a2.vec = v /\ a2.handler = "handler"
    OBVIOUS
  <2> HIDE DEF a1, a2
  <2>3. HandledAt(calling', isr', v, 2)
    BY <2>1, <2>2 DEF HandledAt
  <2>4. ASSUME NEW i \in 1..Len(calling')
        PROVE  /\ calling'[i].do = "write" => calling'[i].handler # ""
               /\ calling'[i].do = "enable" => HandledAt(calling', isr', calling'[i].vec, i)
               /\ calling'[i].handler # "OS_TimerISR"
    <3>1. i = 1 \/ i = 2
      BY <2>1
    <3> QED
      BY <2>1, <2>2, <2>3, <3>1
  <2> QED
    BY <2>4 DEF CallingOK, CallOK
<1> QED
  BY <1>1, <1>3, <1>4, <1>5, <1>6 DEF TrapTableInv, NoUnhandledTrap

\* One step of a call is done: a vector that had a handler has one.
LEMMA CallGoesOn ==
    ASSUME TrapTableInv, stage = "run", calling # <<>>, calling' = Tail(calling),
           \A v \in Vecs : isr[v] # "NULL" => isr'[v] # "NULL",
           Head(calling).do = "write" => isr'[Head(calling).vec] # "NULL",
           board' = board
    PROVE  CallingOK' /\ calling' \in Seq(RegisterCalls)
<1>1. /\ calling \in Seq(RegisterCalls) /\ CallingOK
      /\ calling' \in Seq(RegisterCalls) /\ Len(calling') = Len(calling) - 1
      /\ \A i \in 1..Len(calling') : calling'[i] = calling[i + 1] /\ i + 1 \in 1..Len(calling)
      /\ Head(calling) = calling[1] /\ Len(calling) \in Nat
  BY DEF TrapTableInv, TrapTypes
<1>2. ASSUME NEW v \in Vecs, NEW i \in 1..Len(calling'), HandledAt(calling, isr, v, i + 1)
      PROVE  HandledAt(calling', isr', v, i)
  <2>1. CASE isr[v] # "NULL"
    BY <2>1 DEF HandledAt
  <2>2. CASE \E j \in 1..Len(calling) : j < i + 1 /\ calling[j].do = "write" /\ calling[j].vec = v
    <3>1. PICK j \in 1..Len(calling) : j < i + 1 /\ calling[j].do = "write" /\ calling[j].vec = v
      BY <2>2
    <3>2. CASE j = 1
      BY <1>1, <3>1, <3>2 DEF HandledAt
    <3>3. CASE j # 1
      <4> DEFINE m == j - 1
      <4>1. m \in 1..Len(calling') /\ m < i /\ m + 1 = j
        BY <1>1, <3>1, <3>3
      <4>2. calling'[m] = calling[j]
        BY <1>1, <4>1
      <4> QED
        BY <3>1, <4>1, <4>2 DEF HandledAt
    <3> QED
      BY <3>2, <3>3
  <2> QED
    BY <1>2, <2>1, <2>2 DEF HandledAt
<1>3. Timers' = Timers
  BY DEF Timers
<1>4. \A i \in 1..Len(calling') : calling'[i].vec \in Vecs
  <2>1. \A i \in 1..Len(calling') : calling'[i] \in RegisterCalls
    BY <1>1
  <2> QED
    BY <2>1 DEF RegisterCalls
<1>5. ASSUME NEW i \in 1..Len(calling')
      PROVE  /\ calling'[i].do = "write" => calling'[i].handler # ""
             /\ calling'[i].do = "enable" => HandledAt(calling', isr', calling'[i].vec, i)
             /\ calling'[i].handler = "OS_TimerISR" =>
                   /\ calling'[i].vec = Timers.timer
                   /\ Timers.clock \in Vecs => HandledAt(calling', isr', Timers.clock, i)
  <2>1. calling'[i] = calling[i + 1] /\ i + 1 \in 1..Len(calling) /\ calling'[i].vec \in Vecs
    BY <1>1, <1>4
  <2> QED
    BY <1>1, <1>2, <1>3, <2>1 DEF CallingOK, CallOK
<1> QED
  BY <1>1, <1>3, <1>5 DEF CallingOK, CallOK

LEMMA StepRegisterWrites == TrapTableInv /\ RegisterWrites => TrapTableInv'
<1> SUFFICES ASSUME TrapTableInv, RegisterWrites PROVE TrapTableInv'
  OBVIOUS
<1> DEFINE c == Head(calling)
           v == c.vec
<1>1. /\ stage = "run" /\ nested = <<>> /\ calling # <<>> /\ c.do = "write"
      /\ oldIsr' = [oldIsr EXCEPT ![v] = isr[v]] /\ isr' = [isr EXCEPT ![v] = c.handler]
      /\ bare' = bare \ {v} /\ calling' = Tail(calling) /\ pil' = 0
      /\ UNCHANGED <<board, stage, fpu, maskRegister, irqPending, nested>>
  BY DEF RegisterWrites, InThread
<1>2. /\ TrapTypes /\ CallingOK /\ HandledOK
  BY <1>1 DEF TrapTableInv
<1>3. /\ c \in RegisterCalls /\ c = calling[1] /\ 1 \in 1..Len(calling) /\ Len(calling) \in Nat
  BY <1>1, <1>2 DEF TrapTypes
<1>4. /\ v \in Vecs /\ c.handler \in {"handler", "OS_ClockISR", "OS_TimerISR"}
      /\ c.handler = "OS_TimerISR" =>
            v = Timers.timer /\ (Timers.clock \in Vecs => isr[Timers.clock] # "NULL")
  <2>1. c.handler # ""
    BY <1>1, <1>2, <1>3 DEF CallingOK, CallOK
  <2>2. c.handler = "OS_TimerISR" =>
           v = Timers.timer /\ (Timers.clock \in Vecs => HandledAt(calling, isr, Timers.clock, 1))
    BY <1>2, <1>3 DEF CallingOK, CallOK
  <2>3. HandledAt(calling, isr, Timers.clock, 1) => isr[Timers.clock] # "NULL"
    BY <1>3 DEF HandledAt
  <2> HIDE DEF c
  <2>4. v \in Vecs /\ c.handler \in {"", "handler", "OS_ClockISR", "OS_TimerISR"}
    BY <1>3 DEF RegisterCalls
  <2> QED
    BY <2>1, <2>2, <2>3, <2>4
<1>5. isr \in [Vecs -> TrapHandlers] /\ oldIsr \in [Vecs -> TrapHandlers]
  BY <1>2 DEF TrapTypes
<1> HIDE DEF c
<1>6. /\ isr' \in [Vecs -> TrapHandlers] /\ oldIsr' \in [Vecs -> TrapHandlers]
      /\ isr'[v] = c.handler /\ oldIsr'[v] = isr[v]
      /\ \A w \in Vecs : w # v => isr'[w] = isr[w] /\ oldIsr'[w] = oldIsr[w]
  BY <1>1, <1>4, <1>5 DEF TrapHandlers
<1>7. CallingOK' /\ calling' \in Seq(RegisterCalls)
  BY <1>1, <1>4, <1>6, CallGoesOn DEF c
<1>8. HandledOK'
  <2>1. \A l \in Lines : 16 + l \in Vecs
    BY LinesAre
  <2>2. board' = board /\ Timers' = Timers /\ \A l : Masked(l)' <=> Masked(l)
    BY <1>1 DEF Timers, Masked
  <2>3. \A l \in Lines : ~Masked(l)' => Expected(16 + l)'
    BY <1>1, <1>2, <1>4, <1>6, <2>1, <2>2 DEF HandledOK, Expected
  <2>4. \A w \in Vecs : isr'[w] = "OS_TimerISR" =>
            w = Timers.timer /\ (Timers.clock \in Vecs => isr'[Timers.clock] # "NULL")
    BY <1>2, <1>4, <1>6 DEF HandledOK
  <2>5. \A w \in Vecs : oldIsr'[w] = "OS_TimerISR" => w = Timers.timer
    BY <1>2, <1>4, <1>6 DEF HandledOK
  <2> QED
    BY <1>1, <2>2, <2>3, <2>4, <2>5 DEF HandledOK
<1>9. TrapTypes'
  BY <1>1, <1>2, <1>6, <1>7 DEF TrapTypes
<1> QED
  BY <1>1, <1>7, <1>8, <1>9 DEF TrapTableInv, NoUnhandledTrap

\* A line is let through whose vector has a handler, and a line is masked.
LEMMA LineLetThrough ==
    ASSUME OneVectorPerLine, TrapTypes, HandledOK, NEW v \in Vecs, Expected(v)',
           maskRegister' = MaskAfter(maskRegister, "enable", v),
           \A w \in Vecs : Expected(w) => Expected(w)',
           UNCHANGED <<board, isr, oldIsr, nested>>
    PROVE  HandledOK'
<1>1. \A l \in Lines : Masked(l)' <=> (l # Line(v) /\ Masked(l))
  BY MaskIs DEF TrapTypes
<1>2. ASSUME NEW l \in Lines, ~Masked(l)' PROVE Expected(16 + l)'
  <2>1. CASE l = Line(v)
    <3>1. 16 + l = v
      BY <2>1, LinesAre DEF OneVectorPerLine
    <3> QED
      BY <3>1
  <2>2. CASE l # Line(v)
    BY <1>1, <1>2, <2>2, LinesAre DEF HandledOK
  <2> QED
    BY <2>1, <2>2
<1>3. Timers' = Timers
  BY DEF Timers
<1>4. \A i \in 1..Len(nested) : nested[i].vec \in Vecs
  <2>1. \A i \in 1..Len(nested) : nested[i] \in TrapsTaken
    BY DEF TrapTypes
  <2> QED
    BY <2>1 DEF TrapsTaken
<1> QED
  BY <1>2, <1>3, <1>4 DEF HandledOK

LEMMA LineMasked ==
    ASSUME TrapTypes, HandledOK, NEW v, maskRegister' = MaskAfter(maskRegister, "mask", v),
           \A w \in Vecs : w # v /\ Expected(w) => Expected(w)',
           UNCHANGED <<board, isr, oldIsr, nested>>, nested = <<>>
    PROVE  HandledOK'
<1>1. \A l \in Lines : ~Masked(l)' => ~Masked(l) /\ 16 + l \in Vecs /\ 16 + l # v
  BY MaskIs, LinesAre DEF TrapTypes
<1>2. Timers' = Timers
  BY DEF Timers
<1> QED
  BY <1>1, <1>2 DEF HandledOK

LEMMA StepRegisterEnables ==
    ASSUME OneVectorPerLine, TrapTableInv, RegisterEnables
    PROVE  TrapTableInv'
<1> DEFINE c == Head(calling)
           v == c.vec
<1>1. /\ stage = "run" /\ nested = <<>> /\ calling # <<>> /\ c.do = "enable"
      /\ maskRegister' = MaskAfter(maskRegister, "enable", v)
      /\ calling' = Tail(calling) /\ pil' = 0
      /\ UNCHANGED <<board, stage, fpu, isr, oldIsr, bare, irqPending, nested>>
  BY DEF RegisterEnables, InThread, tableVars
<1>2. /\ TrapTypes /\ CallingOK /\ HandledOK
  BY <1>1 DEF TrapTableInv
<1>3. /\ c \in RegisterCalls /\ c = calling[1] /\ 1 \in 1..Len(calling) /\ Len(calling) \in Nat
  BY <1>1, <1>2 DEF TrapTypes
<1>4. v \in Vecs /\ isr[v] # "NULL"
  <2>1. HandledAt(calling, isr, v, 1)
    BY <1>1, <1>2, <1>3 DEF CallingOK, CallOK
  <2>2. isr[v] # "NULL"
    BY <1>3, <2>1 DEF HandledAt
  <2> HIDE DEF c
  <2> QED
    BY <1>3, <2>2 DEF RegisterCalls
<1>5. CallingOK' /\ calling' \in Seq(RegisterCalls)
  BY <1>1, CallGoesOn
<1> HIDE DEF c
<1>6. HandledOK'
  <2>1. \A w : Expected(w)' <=> Expected(w)
    BY <1>1 DEF Expected
  <2>2. PICK w \in Vecs : w = v
    BY <1>4
  <2>3. Expected(w)'
    BY <1>4, <2>1, <2>2 DEF Expected
  <2>4. maskRegister' = MaskAfter(maskRegister, "enable", w)
    BY <1>1, <2>2
  <2> QED
    BY <1>1, <1>2, <2>1, <2>3, <2>4, LineLetThrough
<1>7. TrapTypes'
  BY <1>1, <1>2, <1>5 DEF TrapTypes
<1> QED
  BY <1>1, <1>5, <1>6, <1>7 DEF TrapTableInv, NoUnhandledTrap

LEMMA StepIntrLock ==
    ASSUME OneVectorPerLine, TrapTableInv, NEW v \in OwnVecs, NEW op \in {"mask", "enable"},
           IntrLock(v, op)
    PROVE  TrapTableInv'
<1>1. /\ stage = "run" /\ nested = <<>> /\ calling = <<>>
      /\ bare' = (IF op = "enable" /\ isr[v] = "NULL" THEN bare \cup {v}
                  ELSE IF op = "mask" THEN bare \ {v} ELSE bare)
      /\ maskRegister' = MaskAfter(maskRegister, op, v) /\ pil' = 0
      /\ UNCHANGED <<board, stage, fpu, isr, oldIsr, irqPending, nested, calling>>
  BY DEF IntrLock, Idle, InThread, tableVars
<1>2. TrapTypes /\ CallingOK /\ HandledOK /\ v \in Vecs
  BY <1>1, TableAssumption DEF TrapTableInv, OwnVecs, TableAssumption
<1>3. HandledOK'
  <2>1. CASE op = "enable"
    <3>1. Expected(v)' /\ \A w \in Vecs : Expected(w) => Expected(w)'
      BY <1>1, <2>1 DEF Expected
    <3> QED
      BY <1>1, <1>2, <2>1, <3>1, LineLetThrough
  <2>2. CASE op = "mask"
    <3>1. \A w \in Vecs : w # v /\ Expected(w) => Expected(w)'
      BY <1>1, <2>2 DEF Expected
    <3> QED
      BY <1>1, <1>2, <2>2, <3>1, LineMasked
  <2> QED
    BY <2>1, <2>2
<1>4. TrapTypes' /\ CallingOK'
  <2>1. Timers' = Timers
    BY <1>1 DEF Timers
  <2> QED
    BY <1>1, <1>2, <2>1 DEF TrapTypes, CallingOK
<1> QED
  BY <1>1, <1>3, <1>4 DEF TrapTableInv, NoUnhandledTrap

\* A handler that is not the timer's is restored, and its line masked.
LEMMA StepRestoreIRQ ==
    ASSUME TrapTableInv, NEW v \in OwnVecs, RestoreIRQ(v)
    PROVE  TrapTableInv'
<1>1. /\ stage = "run" /\ nested = <<>> /\ calling = <<>>
      /\ isr' = [isr EXCEPT ![v] = oldIsr[v]] /\ oldIsr' = [oldIsr EXCEPT ![v] = "NULL"]
      /\ maskRegister' = MaskAfter(maskRegister, "mask", v) /\ pil' = 0
      /\ UNCHANGED <<board, stage, fpu, bare, irqPending, nested, calling>>
  BY DEF RestoreIRQ, Idle, InThread
<1>2. /\ TrapTypes /\ CallingOK /\ HandledOK /\ v \in Vecs
      /\ v # Timers.timer /\ v # Timers.clock
  BY <1>1, TableAssumption DEF TrapTableInv, OwnVecs, TableAssumption
<1>3. /\ isr' \in [Vecs -> TrapHandlers] /\ oldIsr' \in [Vecs -> TrapHandlers]
      /\ isr'[v] = oldIsr[v] /\ oldIsr'[v] = "NULL"
      /\ \A w \in Vecs : w # v => isr'[w] = isr[w] /\ oldIsr'[w] = oldIsr[w]
  BY <1>1, <1>2 DEF TrapTypes, TrapHandlers
<1>4. Timers' = Timers /\ TrapTypes'
  BY <1>1, <1>2, <1>3 DEF Timers, TrapTypes
<1>5. \A l \in Lines : Masked(l)' <=> (l = Line(v) \/ Masked(l))
  BY <1>1, <1>2, MaskIs DEF TrapTypes
<1>6. ASSUME NEW l \in Lines, ~Masked(l)' PROVE Expected(16 + l)'
  <2>1. l # Line(v) /\ 16 + l \in Vecs /\ Line(16 + l) = l
    BY <1>5, <1>6, LinesAre
  <2>2. 16 + l # v
    BY <2>1
  <2> QED
    BY <1>1, <1>2, <1>3, <1>5, <1>6, <2>1, <2>2 DEF HandledOK, Expected
<1>7. HandledOK'
  BY <1>1, <1>2, <1>3, <1>4, <1>6 DEF HandledOK
<1>8. CallingOK'
  <2>1. 1..Len(calling') = {}
    BY <1>1
  <2> QED
    BY <2>1 DEF CallingOK, CallOK
<1> QED
  BY <1>1, <1>4, <1>7, <1>8 DEF TrapTableInv, NoUnhandledTrap

----------------------------------------------------------------------------
(* The traps.                                                              *)

\* A trap is taken that is expected.
LEMMA TrapEntered ==
    ASSUME TrapTableInv, stage = "run", NEW v \in Vecs, Expected(v), EntersTrap(v),
           UNCHANGED <<board, stage, isr, oldIsr, bare, maskRegister, calling>>
    PROVE  TrapTableInv'
<1> DEFINE taken == [vec |-> v, pil |-> pil, at |-> "check"]
<1>1. TrapTypes /\ CallingOK /\ HandledOK /\ nested' = Append(nested, taken)
  BY DEF TrapTableInv, EntersTrap
<1>2. taken \in TrapsTaken /\ taken.vec = v
  BY <1>1 DEF TrapTypes, TrapsTaken
<1> HIDE DEF taken
<1>3. /\ nested' \in Seq(TrapsTaken) /\ Len(nested') = Len(nested) + 1
      /\ \A i \in 1..Len(nested') : nested'[i] = IF i <= Len(nested) THEN nested[i] ELSE taken
  BY <1>1, <1>2 DEF TrapTypes
<1>4. pil' \in 0..15
  BY <1>1, LinesAre, LevelsAre DEF EntersTrap, TrapTypes
<1>5. TrapTypes' /\ Timers' = Timers
  BY <1>1, <1>3, <1>4 DEF TrapTypes, Timers
<1>6. \A i \in 1..Len(nested') : Expected(nested'[i].vec)
  BY <1>1, <1>2, <1>3 DEF HandledOK, TrapTypes
<1>7. HandledOK' /\ CallingOK'
  BY <1>1, <1>5, <1>6 DEF HandledOK, CallingOK, Masked, Expected
<1> QED
  BY <1>5, <1>7 DEF TrapTableInv, NoUnhandledTrap

LEMMA StepTakeIrq ==
    ASSUME TrapTableInv, NEW l \in Lines, TakeIrq(l)
    PROVE  TrapTableInv'
<1>1. /\ stage \notin {"reset", "panic", "halt"} /\ ~Masked(l) /\ EntersTrap(16 + l)
      /\ UNCHANGED <<board, stage, isr, oldIsr, bare, maskRegister, calling>>
  BY DEF TakeIrq, tableVars
<1>2. stage = "run" /\ 16 + l \in Vecs
  BY <1>1, LinesAre DEF TrapTableInv, TrapTypes
<1>3. Expected(16 + l)
  BY <1>1, <1>2 DEF TrapTableInv, HandledOK
<1> QED
  BY <1>1, <1>2, <1>3, TrapEntered

LEMMA StepTakeSynchronous ==
    ASSUME TrapTableInv, NEW v \in Vecs, TakeSynchronous(v)
    PROVE  TrapTableInv'
BY TrapEntered DEF TakeSynchronous, Expected, tableVars, Idle, InThread

LEMMA StepBadTrap == TrapTableInv /\ BadTrap => TrapTableInv'
<1> SUFFICES ASSUME TrapTableInv, BadTrap PROVE TrapTableInv'
  OBVIOUS
<1>1. TrapTypes' /\ stage' = "halt"
  BY DEF TrapTableInv, TrapTypes, BadTrap, tableVars
<1> QED
  BY <1>1 DEF TrapTableInv, NoUnhandledTrap

\* The trap on top goes on.
LEMMA TopMoves ==
    ASSUME TrapTableInv, nested # <<>>, NEW step \in {"check", "call", "clear", "exit"}, Moves(step)
    PROVE  /\ nested' \in Seq(TrapsTaken) /\ Len(nested') = Len(nested)
           /\ \A i \in 1..Len(nested') : nested'[i].vec = nested[i].vec
<1>1. nested \in Seq(TrapsTaken) /\ Len(nested) \in 1..Len(nested)
  BY DEF TrapTableInv, TrapTypes
<1>2. \A f \in TrapsTaken : /\ [f EXCEPT !.at = step] \in TrapsTaken
                           /\ [f EXCEPT !.at = step].vec = f.vec
  BY DEF TrapsTaken
<1>3. nested' = [nested EXCEPT ![Len(nested)] = [nested[Len(nested)] EXCEPT !.at = step]]
  BY DEF Moves
<1>4. nested' \in Seq(TrapsTaken) /\ Len(nested') = Len(nested)
  BY <1>1, <1>2, <1>3
<1> QED
  BY <1>1, <1>2, <1>3, <1>4

\* The trap on top is one that is expected.
LEMMA TopHandled ==
    ASSUME TrapTableInv, NEW step, At(step)
    PROVE  /\ stage = "run" /\ nested # <<>> /\ CallingOK /\ HandledOK /\ TrapTypes
           /\ Last(nested) \in TrapsTaken /\ Expected(Last(nested).vec)
<1>1. /\ stage = "run" /\ nested # <<>> /\ TrapTypes /\ CallingOK /\ HandledOK
  BY DEF At, TrapTableInv
<1>2. Last(nested) = nested[Len(nested)] /\ Len(nested) \in 1..Len(nested)
  BY <1>1 DEF Last, TrapTypes
<1> QED
  BY <1>1, <1>2 DEF TrapTypes, HandledOK

LEMMA StepFindsHandler == TrapTableInv /\ FindsHandler => TrapTableInv'
<1> SUFFICES ASSUME TrapTableInv, FindsHandler PROVE TrapTableInv'
  OBVIOUS
<1>1. At("check") /\ UNCHANGED <<board, fpu, isr, oldIsr, bare, maskRegister, irqPending, pil, calling>>
  BY DEF FindsHandler, tableVars
<1>2. /\ nested # <<>> /\ CallingOK /\ HandledOK /\ TrapTypes /\ stage = "run"
      /\ Expected(Last(nested).vec)
  BY <1>1, TopHandled
<1>3. CASE isr[Last(nested).vec] = "NULL"
  <2>1. stage' = "panic" /\ nested' = nested
    BY <1>3 DEF FindsHandler
  <2>2. Last(nested').vec <= 16 \/ Last(nested').vec \in bare'
    BY <1>1, <1>2, <1>3, <2>1 DEF Expected
  <2>3. TrapTypes'
    BY <1>1, <1>2, <2>1 DEF TrapTypes
  <2> QED
    BY <2>1, <2>2, <2>3 DEF TrapTableInv, NoUnhandledTrap
<1> SUFFICES ASSUME isr[Last(nested).vec] # "NULL" PROVE TrapTableInv'
  BY <1>3
<1>s. Moves("call") /\ stage' = stage
  BY DEF FindsHandler
<1>4. /\ nested' \in Seq(TrapsTaken) /\ Len(nested') = Len(nested)
      /\ \A i \in 1..Len(nested') : nested'[i].vec = nested[i].vec
  BY <1>2, <1>s, TopMoves
<1>5. TrapTypes' /\ Timers' = Timers
  BY <1>1, <1>2, <1>s, <1>4 DEF TrapTypes, Timers
<1>6. HandledOK' /\ CallingOK'
  BY <1>1, <1>2, <1>4, <1>5 DEF HandledOK, CallingOK, Masked, Expected
<1> QED
  BY <1>2, <1>s, <1>5, <1>6 DEF TrapTableInv, NoUnhandledTrap

LEMMA StepRunsHandler ==
    ASSUME OneVectorPerLine, TrapTableInv, RunsHandler
    PROVE  TrapTableInv'
<1>1. /\ At("call") /\ Moves("clear")
      /\ UNCHANGED <<board, stage, fpu, isr, oldIsr, bare, irqPending, calling>>
  BY DEF RunsHandler, tableVars
<1>2. /\ nested # <<>> /\ CallingOK /\ HandledOK /\ TrapTypes /\ stage = "run"
      /\ Last(nested).vec \in Vecs
  BY <1>1, TopHandled DEF TrapsTaken
<1>3. /\ nested' \in Seq(TrapsTaken) /\ Len(nested') = Len(nested)
      /\ \A i \in 1..Len(nested') : nested'[i].vec = nested[i].vec
  BY <1>1, <1>2, TopMoves
<1>4. TrapTypes' /\ Timers' = Timers
  BY <1>1, <1>2, <1>3 DEF RunsHandler, TrapTypes, Timers
<1>5. \/ maskRegister' = maskRegister
      \/ /\ maskRegister' = MaskAfter(maskRegister, "enable", Timers.clock)
         /\ isr[Last(nested).vec] = "OS_TimerISR"
  BY DEF RunsHandler
<1>6. \A l \in Lines : ~Masked(l)' => Expected(16 + l)
  <2>1. CASE maskRegister' = maskRegister
    BY <1>1, <1>2, <2>1 DEF Masked, HandledOK
  <2>2. CASE /\ maskRegister' = MaskAfter(maskRegister, "enable", Timers.clock)
             /\ isr[Last(nested).vec] = "OS_TimerISR"
    <3>1. Timers.clock \in Vecs => isr[Timers.clock] # "NULL"
      BY <1>2, <2>2 DEF HandledOK
    <3>2. Timers.clock \in {24, 25, 29}
      BY <1>2, ClockIs DEF TrapTypes
    <3>3. \A l \in Lines : Masked(l)' <=> (l # Line(Timers.clock) /\ Masked(l))
      BY <1>1, <1>2, <2>2, MaskIs DEF TrapTypes
    <3>4. Line(24) = 8 /\ Line(25) = 9 /\ Line(29) = 13
      BY DEF Line
    <3>5. 16 + Line(Timers.clock) = Timers.clock
      BY <3>2, <3>4
    <3> QED
      BY <1>2, <3>1, <3>3, <3>5, LinesAre DEF HandledOK, Expected
  <2> QED
    BY <1>5, <2>1, <2>2
<1>7. HandledOK' /\ CallingOK'
  BY <1>1, <1>2, <1>3, <1>4, <1>6 DEF HandledOK, CallingOK, Expected
<1> QED
  BY <1>1, <1>2, <1>4, <1>7 DEF TrapTableInv, NoUnhandledTrap

LEMMA StepClearInterrupt == TrapTableInv /\ ClearInterrupt => TrapTableInv'
<1> SUFFICES ASSUME TrapTableInv, ClearInterrupt PROVE TrapTableInv'
  OBVIOUS
<1>1. /\ At("clear") /\ Moves("exit") /\ pil' = 0
      /\ UNCHANGED <<board, stage, fpu, isr, oldIsr, bare, maskRegister, calling>>
  BY DEF ClearInterrupt, tableVars
<1>2. /\ nested # <<>> /\ CallingOK /\ HandledOK /\ TrapTypes /\ stage = "run"
  BY <1>1, TopHandled
<1>3. /\ nested' \in Seq(TrapsTaken) /\ Len(nested') = Len(nested)
      /\ \A i \in 1..Len(nested') : nested'[i].vec = nested[i].vec
  BY <1>1, <1>2, TopMoves
<1>4. TrapTypes' /\ Timers' = Timers
  BY <1>1, <1>2, <1>3 DEF TrapTypes, Timers
<1>5. HandledOK' /\ CallingOK'
  BY <1>1, <1>2, <1>3, <1>4 DEF HandledOK, CallingOK, Masked, Expected
<1> QED
  BY <1>1, <1>2, <1>4, <1>5 DEF TrapTableInv, NoUnhandledTrap

LEMMA StepIrqExit == TrapTableInv /\ IrqExit => TrapTableInv'
<1> SUFFICES ASSUME TrapTableInv, IrqExit PROVE TrapTableInv'
  OBVIOUS
<1>1. /\ At("exit") /\ nested' = Front(nested) /\ pil' = Last(nested).pil
      /\ UNCHANGED <<board, stage, fpu, isr, oldIsr, bare, maskRegister, irqPending, calling>>
  BY DEF IrqExit, tableVars
<1>2. /\ nested # <<>> /\ CallingOK /\ HandledOK /\ TrapTypes /\ stage = "run"
      /\ pil' \in 0..15
  BY <1>1, TopHandled DEF TrapsTaken
<1>3. /\ nested' \in Seq(TrapsTaken) /\ Len(nested') = Len(nested) - 1
      /\ \A i \in 1..Len(nested') : nested'[i] = nested[i] /\ i \in 1..Len(nested)
  <2> DEFINE n == Len(nested)
             k == n - 1
  <2>1. nested' = SubSeq(nested, 1, k)
    BY <1>1 DEF Front
  <2>2. nested \in Seq(TrapsTaken) /\ n \in Nat /\ k \in 0..n /\ \A i \in 1..k : i \in 1..n
    BY <1>2 DEF TrapTypes
  <2> HIDE DEF k
  <2>3. /\ SubSeq(nested, 1, k) \in Seq(TrapsTaken) /\ Len(SubSeq(nested, 1, k)) = k
        /\ \A i \in 1..k : SubSeq(nested, 1, k)[i] = nested[i]
    BY <2>2
  <2> QED
    BY <2>1, <2>2, <2>3 DEF k
<1>4. TrapTypes' /\ Timers' = Timers
  BY <1>1, <1>2, <1>3 DEF TrapTypes, Timers
<1>5. HandledOK' /\ CallingOK'
  BY <1>1, <1>2, <1>3, <1>4 DEF HandledOK, CallingOK, Masked, Expected
<1> QED
  BY <1>1, <1>2, <1>4, <1>5 DEF TrapTableInv, NoUnhandledTrap

\* Every step of the system keeps the invariant.
LEMMA TrapTableNextKeeps ==
    OneVectorPerLine => (TrapTableInv /\ [TrapTableNext]_trapTableVars => TrapTableInv')
<1> SUFFICES ASSUME OneVectorPerLine, TrapTableInv, [TrapTableNext]_trapTableVars
             PROVE  TrapTableInv'
  OBVIOUS
<1>1. pil \in 0..15
  BY DEF TrapTableInv, TrapTypes
<1>2. CASE UNCHANGED trapTableVars
  BY <1>1, <1>2, TrapsStutter DEF trapTableVars, tableVars, TrapsUntouched
<1>3. CASE CPU_DisableIRQ \/ CPU_EnableIRQ
  BY <1>3, TrapsStutter DEF CPU_DisableIRQ, CPU_EnableIRQ, SetsPil, tableVars, TrapsUntouched
<1>4. CASE \E l \in Lines : DeviceRaises(l)
  BY <1>1, <1>4, TrapsStutter DEF DeviceRaises, tableVars, TrapsUntouched
<1>5. CASE SystemReset \/ LoadFpu \/ OS_TrapInit \/ OS_TimeInit
  BY <1>5, StepSystemReset, StepLoadFpu, StepTrapInit, StepTimeInit
<1>6. CASE \E v \in OwnVecs : RegisterIRQ(v) \/ RestoreIRQ(v) \/ \E op \in {"mask", "enable"} : IntrLock(v, op)
  BY <1>6, StepRegisterIRQ, StepRestoreIRQ, StepIntrLock
<1>7. CASE RegisterWrites \/ RegisterEnables \/ \E l \in Lines : TakeIrq(l)
  BY <1>7, StepRegisterWrites, StepRegisterEnables, StepTakeIrq
<1>8. CASE BadTrap \/ \E v \in Vecs : TakeSynchronous(v)
  BY <1>8, StepTakeSynchronous, StepBadTrap
<1>9. CASE FindsHandler \/ RunsHandler \/ ClearInterrupt \/ IrqExit
  BY <1>9, StepFindsHandler, StepRunsHandler, StepClearInterrupt, StepIrqExit
<1> QED
  BY <1>2, <1>3, <1>4, <1>5, <1>6, <1>7, <1>8, <1>9 DEF TrapTableNext

\* Where the vectors in play have lines of their own, the kernel never panics for
\* want of a handler on an interrupt that was not unlocked without one, whatever a
\* thread registers, restores, locks and unlocks while interrupts are pending and
\* nest.
THEOREM HandlersCorrect ==
    ASSUME OneVectorPerLine
    PROVE  TrapTableSpec => []NoUnhandledTrap
<1>1. TrapsAtReset => TrapTableInv
  BY TrapsInit
<1>2. TrapTableInv /\ [TrapTableNext]_trapTableVars => TrapTableInv'
  BY TrapTableNextKeeps
<1>3. TrapTableInv => NoUnhandledTrap
  BY DEF TrapTableInv
<1> QED
  BY <1>1, <1>2, <1>3, PTL DEF TrapTableSpec

----------------------------------------------------------------------------
(* The register windows of the SPARC (SparcWindows).  The windows from the  *)
(* current one to the right up to the invalid one hold the youngest frames  *)
(* of the thread that runs, its memory the older ones; a thread that does   *)
(* not run has its trap frame in the TCB and the frames below in memory.    *)

\* The window that lies j to the right of c.
WindowAt(c, j) == (c + j) % Windows

WindowValues == {Junk} \cup (Tasks \X Nat \X {0, 1})
Cpus == [cwp : W, wim : SUBSET W, win : [W -> WindowValues]]
Memories == [Tasks -> [1..MaxFrames -> WindowValues]]
Activations == [kind : {"call", "trap"}, colour : {0, 1}]

\* The frame of thread t at depth d of its calls st.
FrameOf(t, st, d) == <<t, d, st[d].colour>>
InMemory(m, t, st, n) == \A d \in 1..n : m[t][d] = FrameOf(t, st, d)

\* With CONFIG_FAST_MODE the windows hold the k youngest frames.
FastHolds(s, m, t, st, k) ==
    /\ k \in 1..(Windows - 1) /\ k <= Len(st)
    /\ s.wim = {WindowAt(s.cwp, k)}
    /\ \A j \in 0..(k - 1) : s.win[WindowAt(s.cwp, j)] = FrameOf(t, st, Len(st) - j)
    /\ InMemory(m, t, st, Len(st) - k)

\* Without it, the youngest.
SlowHolds(s, m, t, st) ==
    /\ s.wim = OnlyValid(s.cwp)
    /\ s.win[s.cwp] = FrameOf(t, st, Len(st))
    /\ InMemory(m, t, st, Len(st) - 1)

KeptFrames(t, m, c, st) ==
    /\ Len(st) \in 2..(MaxFrames + 1)
    /\ c[t] = FrameOf(t, st, Len(st))
    /\ InMemory(m, t, st, Len(st) - 1)

WindowTypes ==
    /\ fast \in BOOLEAN
    /\ cpu \in Cpus
    /\ memory \in Memories
    /\ context \in [Tasks -> WindowValues]
    /\ calls \in [Tasks -> Seq(Activations)]
    /\ running \in Tasks

WindowInv ==
    /\ WindowTypes
    /\ \A t \in Tasks : Len(calls[t]) >= 1 /\ calls[t][1].kind = "call"
    /\ Len(calls[running]) <= MaxFrames
    /\ fast => \E k \in 1..(Windows - 1) :
                  FastHolds(cpu, memory, running, calls[running], k)
    /\ ~fast => SlowHolds(cpu, memory, running, calls[running])
    /\ \A t \in Tasks \ {running} : KeptFrames(t, memory, context, calls[t])

\* The ring of the windows.
LEMMA WindowAtIs ==
    ASSUME NEW c \in W, NEW j \in 0..Windows
    PROVE  WindowAt(c, j) = IF c + j < Windows THEN c + j ELSE c + j - Windows
<1>1. Windows \in Nat /\ Windows >= 3 /\ c \in Nat /\ c < Windows
  BY WindowAssumption DEF W
<1>2. CASE c + j < Windows
  BY <1>1, <1>2 DEF WindowAt
<1>3. CASE ~(c + j < Windows) /\ c + j - Windows < Windows
  BY <1>1, <1>3 DEF WindowAt
<1> QED
  BY <1>1, <1>2, <1>3

LEMMA LeftIs ==
    ASSUME NEW c \in W
    PROVE  /\ Left(c) = IF c = 0 THEN Windows - 1 ELSE c - 1
           /\ Right(c) = IF c = Windows - 1 THEN 0 ELSE c + 1
<1>1. Windows \in Nat /\ Windows >= 3 /\ c \in Nat /\ c < Windows
  BY WindowAssumption DEF W
<1>2. Left(c) = WindowAt(c, Windows - 1) /\ Right(c) = WindowAt(c, 1)
  BY <1>1 DEF Left, Right, WindowAt
<1> QED
  BY <1>1, <1>2, WindowAtIs

LEMMA WindowRing ==
    ASSUME NEW c \in W
    PROVE  /\ Left(c) \in W /\ Right(c) \in W
           /\ Left(c) # c /\ Right(c) # c /\ Left(c) # Right(c)
           /\ Right(Left(c)) = c /\ Left(Right(c)) = c
           /\ WindowAt(c, 0) = c /\ WindowAt(c, 1) = Right(c)
           /\ WindowAt(c, Windows - 1) = Left(c)
           /\ \A j \in 0..Windows : WindowAt(c, j) \in W
<1>1. Windows \in Nat /\ Windows >= 3 /\ c \in Nat /\ c < Windows
  BY WindowAssumption DEF W
<1>2. Left(c) \in W /\ Right(c) \in W
  BY <1>1, LeftIs DEF W
<1>3. Left(c) # c /\ Right(c) # c /\ Left(c) # Right(c)
  BY <1>1, LeftIs
<1>4. Right(Left(c)) = c /\ Left(Right(c)) = c
  BY <1>1, <1>2, LeftIs
<1>5. WindowAt(c, 0) = c /\ WindowAt(c, 1) = Right(c) /\ WindowAt(c, Windows - 1) = Left(c)
  BY <1>1, LeftIs, WindowAtIs
<1>6. \A j \in 0..Windows : WindowAt(c, j) \in W
  BY <1>1, WindowAtIs DEF W
<1> QED
  BY <1>2, <1>3, <1>4, <1>5, <1>6

LEMMA WindowSteps ==
    ASSUME NEW c \in W, NEW j \in 0..(Windows - 1)
    PROVE  /\ WindowAt(Left(c), j + 1) = WindowAt(c, j)
           /\ WindowAt(Right(c), j) = WindowAt(c, j + 1)
           /\ Right(WindowAt(c, j)) = WindowAt(c, j + 1)
           /\ Left(WindowAt(c, j + 1)) = WindowAt(c, j)
<1>1. Windows \in Nat /\ Windows >= 3 /\ c \in Nat /\ c < Windows
  BY WindowAssumption DEF W
<1>2. Left(c) \in W /\ Right(c) \in W /\ WindowAt(c, j) \in W /\ WindowAt(c, j + 1) \in W
  BY <1>1, WindowRing
<1>3. WindowAt(Left(c), j + 1) = WindowAt(c, j)
  <2> DEFINE l == Left(c)
  <2>1. l = IF c = 0 THEN Windows - 1 ELSE c - 1
    BY LeftIs
  <2>2. l \in W /\ j + 1 \in 0..Windows /\ j \in 0..Windows
    BY <1>1, <1>2
  <2> HIDE DEF l
  <2>3. WindowAt(l, j + 1) = IF l + (j + 1) < Windows THEN l + (j + 1) ELSE l + (j + 1) - Windows
    BY <2>2, WindowAtIs
  <2>4. WindowAt(c, j) = IF c + j < Windows THEN c + j ELSE c + j - Windows
    BY <2>2, WindowAtIs
  <2>5. WindowAt(l, j + 1) = WindowAt(c, j)
    BY <1>1, <2>1, <2>2, <2>3, <2>4
  <2> QED
    BY <2>5 DEF l
<1>4. WindowAt(Right(c), j) = WindowAt(c, j + 1)
  BY <1>1, <1>2, WindowAtIs, LeftIs
<1>5. Right(WindowAt(c, j)) = WindowAt(c, j + 1)
  BY <1>1, <1>2, WindowAtIs, LeftIs
<1>6. Left(WindowAt(c, j + 1)) = WindowAt(c, j)
  BY <1>1, <1>2, WindowAtIs, LeftIs
<1> QED
  BY <1>3, <1>4, <1>5, <1>6

LEMMA WindowsDiffer ==
    ASSUME NEW c \in W, NEW i \in 0..(Windows - 1), NEW j \in 0..(Windows - 1), i # j
    PROVE  WindowAt(c, i) # WindowAt(c, j)
<1>1. Windows \in Nat /\ Windows >= 3 /\ c \in Nat /\ c < Windows
  BY WindowAssumption DEF W
<1> QED
  BY <1>1, WindowAtIs

LEMMA FrameParts ==
    ASSUME NEW t, NEW st, NEW d
    PROVE  /\ FrameOf(t, st, d) # Junk
           /\ FrameOf(t, st, d)[1] = t /\ FrameOf(t, st, d)[2] = d
  BY DEF FrameOf, Junk

\* Memory q is m after the frames of thread t at depths ds have been stored.
Stored(q, m, t, st, ds) ==
    /\ q \in Memories
    /\ \A u \in Tasks, d \in 1..MaxFrames :
          q[u][d] = IF u = t /\ d \in ds THEN FrameOf(t, st, d) ELSE m[u][d]

\* What a spill of windows with different frames of one thread stores.
LEMMA SpillStores ==
    ASSUME NEW s \in Cpus, NEW m \in Memories, NEW t \in Tasks, NEW st,
           NEW ws \in SUBSET W, NEW depth \in [ws -> Nat],
           \A w \in ws : s.win[w] = FrameOf(t, st, depth[w]),
           \A v, w \in ws : depth[v] = depth[w] => v = w
    PROVE  Stored(Spill(m, s, ws), m, t, st, {depth[w] : w \in ws})
<1> DEFINE Hit(u, d, w) == s.win[w] # Junk /\ s.win[w][1] = u /\ s.win[w][2] = d
           Put(u, d) == IF \E w \in ws : Hit(u, d, w)
                        THEN s.win[CHOOSE w \in ws : Hit(u, d, w)] ELSE m[u][d]
<1>1. Spill(m, s, ws) = [u \in Tasks |-> [d \in 1..MaxFrames |-> Put(u, d)]]
  BY DEF Spill
<1>2. \A u \in Tasks, d \in 1..MaxFrames : Spill(m, s, ws)[u][d] = Put(u, d)
  BY <1>1
<1>3. \A u, d : \A w \in ws : Hit(u, d, w) <=> u = t /\ d = depth[w]
  <2>1. \A w \in ws : s.win[w] # Junk /\ s.win[w][1] = t /\ s.win[w][2] = depth[w]
    BY FrameParts
  <2> QED
    BY <2>1
<1>4. \A w \in ws : s.win[w] \in WindowValues
  BY DEF Cpus
<1> HIDE DEF Hit
<1>5. ASSUME NEW u \in Tasks, NEW d \in 1..MaxFrames
      PROVE  Put(u, d) \in WindowValues
  <2>1. m[u][d] \in WindowValues
    BY ONLY m \in Memories, u \in Tasks, d \in 1..MaxFrames DEF Memories
  <2>2. (\E w \in ws : Hit(u, d, w)) => (CHOOSE w \in ws : Hit(u, d, w)) \in ws
    OBVIOUS
  <2> QED
    BY <2>1, <2>2, <1>4
<1>6. ASSUME NEW u \in Tasks, NEW d \in 1..MaxFrames,
             ~(u = t /\ d \in {depth[w] : w \in ws})
      PROVE  Put(u, d) = m[u][d]
  BY <1>3, <1>6
<1>7. ASSUME NEW w \in ws
      PROVE  Put(t, depth[w]) = FrameOf(t, st, depth[w])
  <2>1. Hit(t, depth[w], w)
    BY <1>3
  <2>2. \A v \in ws : Hit(t, depth[w], v) => v = w
    BY <1>3
  <2>3. (CHOOSE v \in ws : Hit(t, depth[w], v)) = w
    BY <2>1, <2>2
  <2> QED
    BY <2>1, <2>3
<1> HIDE DEF Put
<1>8. Spill(m, s, ws) \in Memories
  BY <1>1, <1>5 DEF Memories
<1>9. ASSUME NEW u \in Tasks, NEW d \in 1..MaxFrames
      PROVE  Put(u, d) = IF u = t /\ d \in {depth[w] : w \in ws}
                         THEN FrameOf(t, st, d) ELSE m[u][d]
  BY <1>6, <1>7
<1> QED
  BY <1>2, <1>8, <1>9 DEF Stored

LEMMA SpillOne ==
    ASSUME NEW s \in Cpus, NEW m \in Memories, NEW t \in Tasks, NEW st,
           NEW w \in W, NEW b \in Nat, s.win[w] = FrameOf(t, st, b)
    PROVE  Stored(Spill(m, s, {w}), m, t, st, {b})
<1> DEFINE ws == {w}
           depth == [v \in ws |-> b]
<1>1. ws \in SUBSET W /\ depth \in [ws -> Nat] /\ (\A v \in ws : v = w)
  BY WindowAssumption
<1>2. \A v \in ws : depth[v] = b
  OBVIOUS
<1>3. {depth[v] : v \in ws} = {b}
  OBVIOUS
<1> HIDE DEF depth, ws
<1>4. \A v \in ws : s.win[v] = FrameOf(t, st, depth[v])
  BY <1>1, <1>2
<1>5. \A u, v \in ws : depth[u] = depth[v] => u = v
  BY <1>1
<1>6. Stored(Spill(m, s, ws), m, t, st, {depth[v] : v \in ws})
  BY <1>1, <1>4, <1>5, SpillStores
<1> QED
  BY <1>3, <1>6 DEF ws

\* A call while the window to the left is valid.
LEMMA FastPush ==
    ASSUME NEW s \in Cpus, NEW m, NEW t \in Tasks, NEW st \in Seq(Activations),
           NEW k, FastHolds(s, m, t, st, k), k < Windows - 1,
           NEW a \in Activations, NEW v \in WindowValues, v = <<t, Len(st) + 1, a.colour>>
    PROVE  /\ Entered(s, s.wim, v) \in Cpus
           /\ FastHolds(Entered(s, s.wim, v), m, t, Append(st, a), k + 1)
<1> DEFINE e == Entered(s, s.wim, v)
           c == s.cwp
           st2 == Append(st, a)
           n == Len(st)
<1>1. Windows \in Nat /\ Windows >= 3 /\ n \in Nat /\ k \in 1..(Windows - 2) /\ k <= n
  BY WindowAssumption DEF FastHolds
<1>2. c \in W /\ s.wim \in SUBSET W /\ s.win \in [W -> WindowValues]
  BY DEF Cpus
<1>3. Left(c) \in W
  BY <1>2, WindowRing
<1>4. e.cwp = Left(c) /\ e.wim = s.wim /\ e.win = [s.win EXCEPT ![Left(c)] = v]
  BY DEF Entered
<1>5. e \in Cpus
  BY <1>2, <1>3 DEF Entered, Cpus
<1>6. e.wim = {WindowAt(Left(c), k + 1)}
  <2>1. WindowAt(Left(c), k + 1) = WindowAt(c, k)
    BY <1>1, <1>2, WindowSteps
  <2>2. s.wim = {WindowAt(c, k)}
    BY DEF FastHolds
  <2> QED
    BY <2>1, <2>2, <1>4
<1>7. Len(st2) = n + 1 /\ (\A d \in 1..n : st2[d] = st[d]) /\ st2[n + 1] = a
  OBVIOUS
<1>8. \A d \in 1..n : FrameOf(t, st2, d) = FrameOf(t, st, d)
  BY <1>7 DEF FrameOf
<1>9. FrameOf(t, st2, n + 1) = v
  BY <1>7 DEF FrameOf
<1> HIDE DEF e, st2, n
<1>10. ASSUME NEW j \in 0..k
       PROVE  e.win[WindowAt(Left(c), j)] = FrameOf(t, st2, n + 1 - j)
  <2>1. CASE j = 0
    <3>1. WindowAt(Left(c), 0) = Left(c)
      BY <1>3, WindowRing
    <3>2. e.win[Left(c)] = v
      BY <1>2, <1>3, <1>4
    <3>3. n + 1 - j = n + 1
      BY <2>1, <1>1
    <3> QED
      BY <2>1, <3>1, <3>2, <3>3, <1>9
  <2>2. CASE j # 0
    <3> DEFINE i == j - 1
    <3>1. /\ i \in 0..(k - 1) /\ j = i + 1 /\ n + 1 - j = n - i /\ n - i \in 1..n
          /\ i \in 0..(Windows - 1)
      BY <2>2, <1>1
    <3> HIDE DEF i
    <3>2. WindowAt(Left(c), i + 1) = WindowAt(c, i)
      BY <3>1, <1>2, WindowSteps
    <3>3. WindowAt(c, i) # WindowAt(c, Windows - 1)
      <4>1. Windows - 1 \in 0..(Windows - 1) /\ i # Windows - 1
        BY <3>1, <1>1
      <4> QED
        BY <3>1, <4>1, <1>2, WindowsDiffer
    <3>4. WindowAt(c, i) # Left(c) /\ WindowAt(c, i) \in W
      BY <3>1, <3>3, <1>1, <1>2, WindowRing
    <3>5. e.win[WindowAt(c, i)] = s.win[WindowAt(c, i)]
      BY <3>4, <1>2, <1>3, <1>4
    <3>6. s.win[WindowAt(c, i)] = FrameOf(t, st, n - i)
      BY <3>1 DEF FastHolds, n
    <3> QED
      BY <3>1, <3>2, <3>5, <3>6, <1>8
  <2> QED
    BY <2>1, <2>2
<1>11. InMemory(m, t, st2, n - k)
  BY <1>1, <1>8 DEF InMemory, FastHolds, n
<1>12. FastHolds(e, m, t, st2, k + 1)
  <2> DEFINE top == k + 1
  <2>1. /\ Len(st2) - top = n - k /\ top <= Len(st2) /\ top \in 1..(Windows - 1)
        /\ top - 1 = k /\ Len(st2) = n + 1
    BY <1>1, <1>7
  <2>2. e.wim = {WindowAt(e.cwp, top)}
    BY <1>4, <1>6
  <2> HIDE DEF top
  <2>3. ASSUME NEW j \in 0..(top - 1)
        PROVE  e.win[WindowAt(e.cwp, j)] = FrameOf(t, st2, Len(st2) - j)
    <3>1. j \in 0..k /\ e.cwp = Left(c) /\ Len(st2) - j = n + 1 - j
      BY <1>1, <1>4, <2>1
    <3> QED
      BY <1>10, <3>1
  <2>4. FastHolds(e, m, t, st2, top)
    BY <2>1, <2>2, <2>3, <1>11 DEF FastHolds
  <2> QED
    BY <2>4 DEF top
<1> QED
  BY <1>5, <1>12 DEF e, st2

\* Room is made for one: the window left of the invalid one is spilled and
\* becomes the invalid one.
LEMMA FastOverflow ==
    ASSUME NEW s \in Cpus, NEW m \in Memories, NEW t \in Tasks, NEW st \in Seq(Activations),
           FastHolds(s, m, t, st, Windows - 1), Len(st) <= MaxFrames
    PROVE  /\ \E ds : Stored(OverflowMemory(m, s), m, t, st, ds)
           /\ [s EXCEPT !.wim = OverflowWim(s)] \in Cpus
           /\ FastHolds([s EXCEPT !.wim = OverflowWim(s)], OverflowMemory(m, s), t, st,
                        Windows - 2)
<1> DEFINE c == s.cwp
           x == WindowAt(c, Windows - 2)
           n == Len(st)
           b == n - (Windows - 2)
           o == [s EXCEPT !.wim = OverflowWim(s)]
           q == OverflowMemory(m, s)
<1>1. /\ Windows \in Nat /\ Windows >= 3 /\ n \in Nat /\ Windows - 1 <= n
      /\ MaxFrames \in Nat /\ n <= MaxFrames
  BY WindowAssumption DEF FastHolds
<1>2. c \in W /\ s.wim \in SUBSET W /\ s.win \in [W -> WindowValues]
  BY DEF Cpus
<1>3. x \in W /\ b \in 1..MaxFrames /\ b \in 1..n
  <2>1. Windows - 2 \in 0..Windows /\ b \in 1..MaxFrames /\ b \in 1..n
    BY <1>1
  <2> QED
    BY <2>1, <1>2, WindowRing
<1>4. OverflowWim(s) = {x}
  <2>1. s.wim = {WindowAt(c, Windows - 1)}
    BY DEF FastHolds
  <2>2. Left(WindowAt(c, (Windows - 2) + 1)) = x
    BY <1>1, <1>2, WindowSteps
  <2>3. (Windows - 2) + 1 = Windows - 1
    BY <1>1
  <2> QED
    BY <2>1, <2>2, <2>3 DEF OverflowWim
<1>5. s.win[x] = FrameOf(t, st, b)
  BY <1>1 DEF FastHolds
<1>7. o \in Cpus /\ o.cwp = c /\ o.win = s.win /\ o.wim = {x}
  BY <1>2, <1>3, <1>4 DEF Cpus
<1> HIDE DEF x, b, n, o, q
<1>8. Stored(q, m, t, st, {b})
  BY <1>3, <1>4, <1>5, SpillOne DEF OverflowMemory, q
<1>9. InMemory(q, t, st, n - (Windows - 2))
  <2>1. ASSUME NEW d \in 1..(n - (Windows - 2)) PROVE q[t][d] = FrameOf(t, st, d)
    <3>1. CASE d = b
      BY <3>1, <1>3, <1>8 DEF Stored
    <3>2. CASE d # b
      <4>1. d \in 1..(n - (Windows - 1)) /\ d \in 1..MaxFrames
        BY <3>2, <1>1 DEF b
      <4>2. m[t][d] = FrameOf(t, st, d)
        BY <4>1 DEF FastHolds, InMemory, n
      <4> QED
        BY <4>1, <4>2, <3>2, <1>8 DEF Stored
    <3> QED
      BY <3>1, <3>2
  <2> QED
    BY <2>1 DEF InMemory
<1>10. FastHolds(o, q, t, st, Windows - 2)
  <2>1. \A j \in 0..((Windows - 2) - 1) : o.win[WindowAt(c, j)] = FrameOf(t, st, n - j)
    BY <1>1, <1>7 DEF FastHolds, n
  <2> QED
    BY <2>1, <1>1, <1>7, <1>9 DEF FastHolds, n, x
<1> QED
  BY <1>7, <1>8, <1>10 DEF o, q

\* The frame below is filled from memory into the window to the right.
LEMMA FastUnderflow ==
    ASSUME NEW s \in Cpus, NEW m \in Memories, NEW t \in Tasks, NEW st \in Seq(Activations),
           FastHolds(s, m, t, st, 1), Len(st) >= 2, Len(st) - 1 <= MaxFrames
    PROVE  /\ Underflow(s, m, t, Len(st) - 1) \in Cpus
           /\ FastHolds(Underflow(s, m, t, Len(st) - 1), m, t, st, 2)
<1> DEFINE c == s.cwp
           l == Left(c)
           r == Right(c)
           n == Len(st)
           u == Underflow(s, m, t, n - 1)
           v == m[t][n - 1]
<1>1. /\ Windows \in Nat /\ Windows >= 3 /\ n \in Nat /\ n >= 2
      /\ MaxFrames \in Nat /\ n - 1 <= MaxFrames
  BY WindowAssumption
<1>2. c \in W /\ s.wim \in SUBSET W /\ s.win \in [W -> WindowValues]
  BY DEF Cpus
<1>3. v = FrameOf(t, st, n - 1) /\ v \in WindowValues
  BY <1>1 DEF FastHolds, InMemory, Memories
<1>4. /\ l \in W /\ r \in W /\ l # c /\ r # c /\ l # r
      /\ WindowAt(c, 0) = c /\ WindowAt(c, 1) = r /\ Right(r) = WindowAt(c, 2)
      /\ Right(r) \in W
  <2>1. Right(WindowAt(c, 1)) = WindowAt(c, 1 + 1)
    BY <1>1, <1>2, WindowSteps
  <2> QED
    BY <2>1, <1>1, <1>2, WindowRing
<1>5. s.wim = {r}
  BY <1>4 DEF FastHolds
<1>6. s.win[c] = FrameOf(t, st, n)
  BY <1>1, <1>4 DEF FastHolds
<1>7. {Right(w) : w \in s.wim} = {WindowAt(c, 2)}
  BY <1>4, <1>5
<1>8. u = [s EXCEPT !.wim = {WindowAt(c, 2)}, !.win = [s.win EXCEPT ![l] = Junk, ![r] = v]]
  BY <1>7 DEF Underflow
<1> HIDE DEF l, r, n, u, v
<1>9. [s.win EXCEPT ![l] = Junk, ![r] = v] \in [W -> WindowValues]
  BY <1>2, <1>3, <1>4 DEF WindowValues
<1>10. /\ u \in Cpus /\ u.cwp = c /\ u.wim = {WindowAt(c, 2)}
       /\ u.win = [s.win EXCEPT ![l] = Junk, ![r] = v]
  BY <1>2, <1>4, <1>8, <1>9 DEF Cpus
<1>11. u.win[c] = FrameOf(t, st, n) /\ u.win[r] = FrameOf(t, st, n - 1)
  BY <1>2, <1>3, <1>4, <1>6, <1>10
<1>12. \A j \in 0..(2 - 1) : u.win[WindowAt(c, j)] = FrameOf(t, st, n - j)
  <2>1. \A j \in 0..(2 - 1) : j = 0 \/ j = 1
    OBVIOUS
  <2> QED
    BY <2>1, <1>1, <1>4, <1>11
<1>13. InMemory(m, t, st, n - 2)
  BY <1>1 DEF FastHolds, InMemory, n
<1>14. FastHolds(u, m, t, st, 2)
  BY <1>1, <1>10, <1>12, <1>13 DEF FastHolds, n
<1> QED
  BY <1>10, <1>14 DEF u, n

\* A return to a frame that is in its window.
LEMMA FastPop ==
    ASSUME NEW s \in Cpus, NEW m, NEW t \in Tasks, NEW st \in Seq(Activations),
           NEW k, FastHolds(s, m, t, st, k), k >= 2
    PROVE  /\ BackFrom(s) \in Cpus
           /\ FastHolds(BackFrom(s), m, t, Front(st), k - 1)
<1> DEFINE c == s.cwp
           r == Right(c)
           n == Len(st)
           p == n - 1
           st2 == Front(st)
           b == BackFrom(s)
<1>1. /\ Windows \in Nat /\ Windows >= 3 /\ n \in Nat /\ k \in 2..(Windows - 1) /\ k <= n
      /\ p \in 1..n
  BY WindowAssumption DEF FastHolds
<1>2. c \in W /\ s.wim \in SUBSET W /\ s.win \in [W -> WindowValues]
  BY DEF Cpus
<1>3. r \in W
  BY <1>2, WindowRing
<1>4. b \in Cpus /\ b.cwp = r /\ b.wim = s.wim /\ b.win = s.win
  BY <1>2, <1>3 DEF Cpus, BackFrom
<1>5. st2 = SubSeq(st, 1, p)
  BY DEF Front
<1> HIDE DEF p, st2
<1>6. Len(st2) = p /\ \A d \in 1..p : st2[d] = st[d]
  BY <1>1, <1>5
<1>7. \A d \in 1..p : FrameOf(t, st2, d) = FrameOf(t, st, d)
  BY <1>6 DEF FrameOf
<1>8. WindowAt(c, k) = WindowAt(r, k - 1)
  <2>1. WindowAt(r, k - 1) = WindowAt(c, (k - 1) + 1)
    BY <1>1, <1>2, WindowSteps
  <2> QED
    BY <2>1, <1>1
<1> HIDE DEF r, b
<1>9. ASSUME NEW j \in 0..((k - 1) - 1)
      PROVE  b.win[WindowAt(r, j)] = FrameOf(t, st2, p - j)
  <2> DEFINE i == j + 1
  <2>1. i \in 0..(k - 1) /\ i = j + 1 /\ j \in 0..(Windows - 1) /\ p - j = n - i /\ p - j \in 1..p
    BY <1>1 DEF p
  <2> HIDE DEF i
  <2>2. WindowAt(r, j) = WindowAt(c, i)
    BY <2>1, <1>2, WindowSteps DEF r
  <2>3. s.win[WindowAt(c, i)] = FrameOf(t, st, n - i)
    BY <2>1 DEF FastHolds
  <2> QED
    BY <2>1, <2>2, <2>3, <1>4, <1>7
<1>10. InMemory(m, t, st2, p - (k - 1))
  <2>1. p - (k - 1) = n - k /\ \A d \in 1..(n - k) : d \in 1..p
    BY <1>1 DEF p
  <2>2. InMemory(m, t, st, n - k)
    BY DEF FastHolds
  <2> QED
    BY <2>1, <2>2, <1>7 DEF InMemory
<1>11. k - 1 \in 1..(Windows - 1) /\ k - 1 <= p
  BY <1>1 DEF p
<1>12. b.wim = {WindowAt(r, k - 1)}
  BY <1>4, <1>8 DEF FastHolds
<1>13. FastHolds(b, m, t, st2, k - 1)
  BY <1>4, <1>6, <1>9, <1>10, <1>11, <1>12 DEF FastHolds
<1> QED
  BY <1>4, <1>13 DEF b, st2

\* What is stored for one thread leaves the stacks of the others as they are.
LEMMA StoredOthers ==
    ASSUME NEW q, NEW m, NEW t, NEW st, NEW ds, Stored(q, m, t, st, ds),
           NEW u \in Tasks, u # t, NEW su, NEW n \in Nat, n <= MaxFrames,
           InMemory(m, u, su, n)
    PROVE  InMemory(q, u, su, n)
<1>1. \A d \in 1..n : d \in 1..MaxFrames
  BY WindowAssumption
<1> QED
  BY <1>1 DEF Stored, InMemory

\* Into a window to the left, with CONFIG_FAST_MODE: of a call and of a trap.
EnterMemory(m, s) == IF Left(s.cwp) \in s.wim THEN OverflowMemory(m, s) ELSE m
EnterWim(s) == IF Left(s.cwp) \in s.wim THEN OverflowWim(s) ELSE s.wim

LEMMA FastEnter ==
    ASSUME NEW s \in Cpus, NEW m \in Memories, NEW t \in Tasks, NEW st \in Seq(Activations),
           NEW k, FastHolds(s, m, t, st, k), Len(st) <= MaxFrames,
           NEW a \in Activations, NEW v \in WindowValues, v = <<t, Len(st) + 1, a.colour>>
    PROVE  /\ \E ds : Stored(EnterMemory(m, s), m, t, st, ds)
           /\ Entered(s, EnterWim(s), v) \in Cpus
           /\ \E i \in 1..(Windows - 1) :
                 FastHolds(Entered(s, EnterWim(s), v), EnterMemory(m, s), t, Append(st, a), i)
<1>1. Windows \in Nat /\ Windows >= 3 /\ k \in 1..(Windows - 1) /\ s.cwp \in W
  BY WindowAssumption DEF FastHolds, Cpus
<1>2. Left(s.cwp) = WindowAt(s.cwp, Windows - 1) /\ s.wim = {WindowAt(s.cwp, k)}
  BY <1>1, WindowRing DEF FastHolds
<1>3. CASE k = Windows - 1
  <2> DEFINE o == [s EXCEPT !.wim = OverflowWim(s)]
             q == OverflowMemory(m, s)
             h == Windows - 2
  <2>1. EnterMemory(m, s) = q /\ EnterWim(s) = OverflowWim(s)
    BY <1>2, <1>3 DEF EnterMemory, EnterWim
  <2>2. /\ \E ds : Stored(q, m, t, st, ds)
        /\ o \in Cpus
        /\ FastHolds(o, q, t, st, h)
    BY <1>3, FastOverflow
  <2>3. o.cwp = s.cwp /\ o.win = s.win /\ o.wim = OverflowWim(s)
    BY DEF Cpus
  <2>4. Entered(s, OverflowWim(s), v) = Entered(o, o.wim, v)
    BY <2>3 DEF Entered
  <2>5. h < Windows - 1 /\ h + 1 \in 1..(Windows - 1)
    BY <1>1
  <2> HIDE DEF o, q, h
  <2>6. /\ Entered(o, o.wim, v) \in Cpus
        /\ FastHolds(Entered(o, o.wim, v), q, t, Append(st, a), h + 1)
    BY <2>2, <2>5, FastPush
  <2> QED
    BY <2>1, <2>2, <2>4, <2>5, <2>6
<1>4. CASE k # Windows - 1
  <2>1. Left(s.cwp) \notin s.wim
    BY <1>1, <1>2, <1>4, WindowsDiffer
  <2>2. EnterMemory(m, s) = m /\ EnterWim(s) = s.wim
    BY <2>1 DEF EnterMemory, EnterWim
  <2>3. Stored(m, m, t, st, {})
    BY DEF Stored
  <2>4. /\ Entered(s, s.wim, v) \in Cpus
        /\ FastHolds(Entered(s, s.wim, v), m, t, Append(st, a), k + 1)
    BY <1>1, <1>4, FastPush
  <2>5. k + 1 \in 1..(Windows - 1)
    BY <1>1, <1>4
  <2> QED
    BY <2>2, <2>3, <2>4, <2>5
<1> QED
  BY <1>3, <1>4

\* What save_frame_loop stores: all frames below the current one are in memory.
LEMMA UsedWindowsAre ==
    ASSUME NEW s \in Cpus, NEW k \in 1..(Windows - 1), s.wim = {WindowAt(s.cwp, k)}
    PROVE  UsedWindows(s) = {WindowAt(s.cwp, i) : i \in 1..(k - 1)}
<1> DEFINE c == s.cwp
<1>1. Windows \in Nat /\ Windows >= 3 /\ c \in W
  BY WindowAssumption DEF Cpus
<1>2. UsedWindows(s) = {w \in W : \E i \in 1..(Windows - 1) :
                            w = WindowAt(c, i) /\ \A j \in 1..i : WindowAt(c, j) \notin s.wim}
  BY DEF UsedWindows, WindowAt
<1>3. \A j \in 1..(Windows - 1) : WindowAt(c, j) \notin s.wim <=> j # k
  BY <1>1, WindowsDiffer
<1> HIDE DEF c
<1>4. \A i \in 1..(Windows - 1) :
         (\A j \in 1..i : WindowAt(c, j) \notin s.wim) <=> i \in 1..(k - 1)
  <2> SUFFICES ASSUME NEW i \in 1..(Windows - 1)
               PROVE (\A j \in 1..i : WindowAt(c, j) \notin s.wim) <=> i \in 1..(k - 1)
    OBVIOUS
  <2>1. \A j \in 1..i : j \in 1..(Windows - 1)
    BY <1>1
  <2>2. (\A j \in 1..i : WindowAt(c, j) \notin s.wim) <=> \A j \in 1..i : j # k
    BY <2>1, <1>3
  <2>3. (\A j \in 1..i : j # k) <=> i \in 1..(k - 1)
    BY <1>1
  <2> QED
    BY <2>2, <2>3
<1>5. \A i \in 1..(k - 1) : WindowAt(c, i) \in W /\ i \in 1..(Windows - 1)
  BY <1>1, WindowRing
<1> QED
  BY <1>2, <1>4, <1>5 DEF c

LEMMA FastFlush ==
    ASSUME NEW s \in Cpus, NEW m \in Memories, NEW t \in Tasks, NEW st \in Seq(Activations),
           NEW k, FastHolds(s, m, t, st, k), Len(st) <= MaxFrames + 1
    PROVE  /\ \E ds : Stored(Spill(m, s, UsedWindows(s)), m, t, st, ds)
           /\ InMemory(Spill(m, s, UsedWindows(s)), t, st, Len(st) - 1)
<1> DEFINE c == s.cwp
           n == Len(st)
           ws == UsedWindows(s)
           q == Spill(m, s, ws)
<1>1. /\ Windows \in Nat /\ Windows >= 3 /\ n \in Nat /\ k \in 1..(Windows - 1) /\ k <= n
      /\ MaxFrames \in Nat /\ n <= MaxFrames + 1 /\ c \in W
  BY WindowAssumption DEF FastHolds, Cpus
<1>2. ws = {WindowAt(c, i) : i \in 1..(k - 1)}
  BY <1>1, UsedWindowsAre DEF FastHolds
<1>3. \A i \in 1..(k - 1) : /\ s.win[WindowAt(c, i)] = FrameOf(t, st, n - i)
                            /\ WindowAt(c, i) \in W /\ n - i \in Nat
  BY <1>1, WindowRing DEF FastHolds
<1> HIDE DEF ws
<1> DEFINE place == [w \in ws |-> CHOOSE i \in 1..(k - 1) : w = WindowAt(c, i)]
           depth == [w \in ws |-> n - place[w]]
<1>4. \A w \in ws : place[w] \in 1..(k - 1) /\ w = WindowAt(c, place[w])
  BY <1>2
<1>5. \A w \in ws : depth[w] = n - place[w]
  OBVIOUS
<1> HIDE DEF place
<1>6. depth \in [ws -> Nat]
  BY <1>1, <1>4
<1> HIDE DEF depth
<1>7. ws \in SUBSET W
  BY <1>2, <1>3
<1>8. \A w \in ws : s.win[w] = FrameOf(t, st, depth[w])
  BY <1>3, <1>4, <1>5
<1>9. \A v, w \in ws : depth[v] = depth[w] => v = w
  <2> SUFFICES ASSUME NEW v \in ws, NEW w \in ws, depth[v] = depth[w] PROVE v = w
    OBVIOUS
  <2>1. place[v] = place[w]
    BY <1>1, <1>4, <1>5
  <2> QED
    BY <2>1, <1>4
<1> DEFINE ds == {depth[w] : w \in ws}
<1>10. Stored(q, m, t, st, ds)
  BY <1>6, <1>7, <1>8, <1>9, SpillStores
<1>11. \A i \in 1..(k - 1) : n - i \in ds
  <2> SUFFICES ASSUME NEW i \in 1..(k - 1) PROVE n - i \in ds
    OBVIOUS
  <2> DEFINE w == WindowAt(c, i)
  <2>1. w \in ws
    BY <1>2
  <2>2. place[w] = i
    <3>1. place[w] \in 1..(k - 1) /\ WindowAt(c, i) = WindowAt(c, place[w])
      BY <2>1, <1>4
    <3>2. i \in 0..(Windows - 1) /\ place[w] \in 0..(Windows - 1)
      BY <3>1, <1>1
    <3> QED
      BY <3>1, <3>2, <1>1, WindowsDiffer
  <2> QED
    BY <2>1, <2>2, <1>5
<1> HIDE DEF ds, q
<1>12. ASSUME NEW d \in 1..(n - 1) PROVE q[t][d] = FrameOf(t, st, d)
  <2>0. d \in 1..MaxFrames
    BY <1>1
  <2>1. CASE d \in ds
    BY <2>0, <2>1, <1>10 DEF Stored
  <2>2. CASE d \notin ds
    <3> DEFINE i == n - d
    <3>1. i \in Nat \ {0} /\ d = n - i
      BY <1>1
    <3>2. i \notin 1..(k - 1)
      BY <3>1, <2>2, <1>11
    <3>3. d \in 1..(n - k)
      BY <3>1, <3>2, <1>1
    <3>4. m[t][d] = FrameOf(t, st, d)
      BY <3>3 DEF FastHolds, InMemory
    <3> QED
      BY <3>4, <2>0, <2>2, <1>10 DEF Stored
  <2> QED
    BY <2>1, <2>2
<1> QED
  BY <1>10, <1>12 DEF InMemory, q, ws

\* The heir's trap frame takes the place of the current one, the frame below it
\* is filled and becomes the current one.
Loaded(s, v) == [s EXCEPT !.wim = {Right(s.cwp)}, !.win = [@ EXCEPT ![s.cwp] = v]]

LEMMA FastLoad ==
    ASSUME NEW s \in Cpus, NEW m \in Memories, NEW t \in Tasks, NEW st \in Seq(Activations),
           Len(st) \in 2..(MaxFrames + 1), InMemory(m, t, st, Len(st) - 1),
           NEW v \in WindowValues, v = FrameOf(t, st, Len(st))
    PROVE  /\ BackFrom(Underflow(Loaded(s, v), m, t, Len(st) - 1)) \in Cpus
           /\ FastHolds(BackFrom(Underflow(Loaded(s, v), m, t, Len(st) - 1)), m, t, Front(st), 1)
<1> DEFINE l == Loaded(s, v)
           u == Underflow(l, m, t, Len(st) - 1)
<1>1. /\ Windows \in Nat /\ Windows >= 3 /\ MaxFrames \in Nat /\ Len(st) \in Nat
      /\ Len(st) >= 2 /\ Len(st) - 1 <= MaxFrames
  BY WindowAssumption
<1>2. s.cwp \in W /\ s.wim \in SUBSET W /\ s.win \in [W -> WindowValues]
  BY DEF Cpus
<1>3. Right(s.cwp) \in W /\ Right(s.cwp) = WindowAt(s.cwp, 1) /\ WindowAt(s.cwp, 0) = s.cwp
  BY <1>2, WindowRing
<1>4. /\ l \in Cpus /\ l.cwp = s.cwp /\ l.wim = {Right(s.cwp)}
      /\ l.win = [s.win EXCEPT ![s.cwp] = v]
  BY <1>2, <1>3 DEF Loaded, Cpus
<1> HIDE DEF l
<1>5. FastHolds(l, m, t, st, 1)
  <2>1. \A j \in 0..(1 - 1) : l.win[WindowAt(l.cwp, j)] = FrameOf(t, st, Len(st) - j)
    BY <1>1, <1>2, <1>3, <1>4
  <2>2. l.wim = {WindowAt(l.cwp, 1)}
    BY <1>3, <1>4
  <2>3. 1 \in 1..(Windows - 1) /\ 1 <= Len(st)
    BY <1>1
  <2> QED
    BY <2>1, <2>2, <2>3 DEF FastHolds
<1>6. u \in Cpus /\ FastHolds(u, m, t, st, 2)
  BY <1>1, <1>4, <1>5, FastUnderflow
<1> HIDE DEF u
<1>7. BackFrom(u) \in Cpus /\ FastHolds(BackFrom(u), m, t, Front(st), 2 - 1)
  BY <1>6, FastPop
<1>8. 2 - 1 = 1
  OBVIOUS
<1> QED
  BY <1>7, <1>8 DEF u, l

\* Without CONFIG_FAST_MODE: a call or a trap, then a return or a load.
LEMMA SlowPush ==
    ASSUME NEW s \in Cpus, NEW m \in Memories, NEW t \in Tasks, NEW st \in Seq(Activations),
           SlowHolds(s, m, t, st), Len(st) \in 1..MaxFrames,
           NEW a \in Activations, NEW v \in WindowValues, v = <<t, Len(st) + 1, a.colour>>
    PROVE  /\ \E ds : Stored(Spill(m, s, {s.cwp}), m, t, st, ds)
           /\ Entered(s, OnlyValid(Left(s.cwp)), v) \in Cpus
           /\ SlowHolds(Entered(s, OnlyValid(Left(s.cwp)), v), Spill(m, s, {s.cwp}), t,
                        Append(st, a))
<1> DEFINE c == s.cwp
           n == Len(st)
           st2 == Append(st, a)
           q == Spill(m, s, {c})
           e == Entered(s, OnlyValid(Left(c)), v)
<1>1. n \in Nat /\ n \in 1..MaxFrames /\ MaxFrames \in Nat
  BY WindowAssumption
<1>2. c \in W /\ s.wim \in SUBSET W /\ s.win \in [W -> WindowValues] /\ Left(c) \in W
  BY WindowRing DEF Cpus
<1>3. Stored(q, m, t, st, {n})
  BY <1>1, <1>2, SpillOne DEF SlowHolds
<1>4. /\ e \in Cpus /\ e.cwp = Left(c) /\ e.wim = OnlyValid(Left(c))
      /\ e.win = [s.win EXCEPT ![Left(c)] = v]
  BY <1>2 DEF Entered, OnlyValid, Cpus
<1>5. Len(st2) = n + 1 /\ (\A d \in 1..n : st2[d] = st[d]) /\ st2[n + 1] = a
  OBVIOUS
<1>6. e.win[Left(c)] = FrameOf(t, st2, n + 1)
  BY <1>2, <1>4, <1>5 DEF FrameOf
<1> HIDE DEF q, e, st2
<1>7. InMemory(q, t, st2, (n + 1) - 1)
  <2> SUFFICES ASSUME NEW d \in 1..n PROVE q[t][d] = FrameOf(t, st2, d)
    BY <1>1 DEF InMemory
  <2>0. d \in 1..MaxFrames /\ FrameOf(t, st2, d) = FrameOf(t, st, d)
    BY <1>1, <1>5 DEF FrameOf
  <2>1. CASE d = n
    BY <2>0, <2>1, <1>3 DEF Stored
  <2>2. CASE d # n
    <3>1. m[t][d] = FrameOf(t, st, d)
      BY <2>2, <1>1 DEF SlowHolds, InMemory
    <3> QED
      BY <2>0, <2>2, <3>1, <1>3 DEF Stored
  <2> QED
    BY <2>1, <2>2
<1>8. SlowHolds(e, q, t, st2)
  BY <1>4, <1>5, <1>6, <1>7 DEF SlowHolds
<1> QED
  BY <1>3, <1>4, <1>8 DEF q, e, st2

LEMMA SlowFill ==
    ASSUME NEW s \in Cpus, NEW m \in Memories, NEW t \in Tasks, NEW st \in Seq(Activations),
           Len(st) \in 2..(MaxFrames + 1), InMemory(m, t, st, Len(st) - 1)
    PROVE  /\ BackFrom(Underflow2(s, m, t, Len(st) - 1)) \in Cpus
           /\ SlowHolds(BackFrom(Underflow2(s, m, t, Len(st) - 1)), m, t, Front(st))
<1> DEFINE c == s.cwp
           l == Left(c)
           r == Right(c)
           n == Len(st)
           p == n - 1
           v == m[t][p]
           u == Underflow2(s, m, t, p)
           b == BackFrom(u)
           st2 == Front(st)
<1>1. n \in Nat /\ p \in 1..MaxFrames /\ p \in 1..n /\ MaxFrames \in Nat
  BY WindowAssumption
<1>2. c \in W /\ s.wim \in SUBSET W /\ s.win \in [W -> WindowValues]
  BY DEF Cpus
<1>3. l \in W /\ r \in W /\ l # r
  BY <1>2, WindowRing
<1>4. v = FrameOf(t, st, p) /\ v \in WindowValues
  BY <1>1 DEF InMemory, Memories
<1>5. u = [s EXCEPT !.wim = OnlyValid(r), !.win = [s.win EXCEPT ![l] = Junk, ![r] = v]]
  BY DEF Underflow2
<1>6. st2 = SubSeq(st, 1, p)
  BY DEF Front
<1> HIDE DEF l, r, p, v, u, st2
<1>7. Len(st2) = p /\ \A d \in 1..p : st2[d] = st[d]
  BY <1>1, <1>6
<1>8. \A d \in 1..p : FrameOf(t, st2, d) = FrameOf(t, st, d)
  BY <1>7 DEF FrameOf
<1>9. [s.win EXCEPT ![l] = Junk, ![r] = v] \in [W -> WindowValues]
  BY <1>2, <1>3, <1>4 DEF WindowValues
<1>10. OnlyValid(r) \in SUBSET W
  BY DEF OnlyValid
<1>11. /\ u \in Cpus /\ u.cwp = c /\ u.wim = OnlyValid(r)
       /\ u.win = [s.win EXCEPT ![l] = Junk, ![r] = v]
  BY <1>2, <1>5, <1>9, <1>10 DEF Cpus
<1>12. b \in Cpus /\ b.cwp = r /\ b.wim = OnlyValid(r) /\ b.win = u.win
  BY <1>3, <1>11 DEF BackFrom, Cpus, r
<1>13. b.win[r] = FrameOf(t, st2, p)
  BY <1>1, <1>2, <1>3, <1>4, <1>8, <1>11, <1>12
<1>14. InMemory(m, t, st2, p - 1)
  <2>1. \A d \in 1..(p - 1) : d \in 1..p /\ d \in 1..(n - 1)
    BY <1>1 DEF p
  <2> QED
    BY <2>1, <1>8 DEF InMemory
<1> HIDE DEF b
<1>15. SlowHolds(b, m, t, st2)
  BY <1>7, <1>12, <1>13, <1>14 DEF SlowHolds
<1> QED
  BY <1>12, <1>15 DEF b, u, p, st2

\* The steps of the thread that runs.
LEMMA RunnerInv ==
    ASSUME WindowInv, NEW st \in Seq(Activations), NEW ds,
           UNCHANGED <<fast, context, running>>,
           calls' = [calls EXCEPT ![running] = st],
           Len(st) \in 1..MaxFrames, st[1].kind = "call",
           Stored(memory', memory, running, calls[running], ds),
           cpu' \in Cpus,
           fast => \E k \in 1..(Windows - 1) : FastHolds(cpu', memory', running, st, k),
           ~fast => SlowHolds(cpu', memory', running, st)
    PROVE  WindowInv'
<1>1. MaxFrames \in Nat \ {0}
  BY WindowAssumption
<1>2. calls \in [Tasks -> Seq(Activations)] /\ running \in Tasks
  BY DEF WindowInv, WindowTypes
<1>3. calls' \in [Tasks -> Seq(Activations)] /\ calls'[running] = st
  BY <1>2
<1>4. \A u \in Tasks \ {running} : calls'[u] = calls[u]
  BY <1>2
<1>5. memory' \in Memories
  BY DEF Stored
<1>6. WindowTypes'
  BY <1>3, <1>5 DEF WindowInv, WindowTypes
<1>7. ASSUME NEW u \in Tasks \ {running}
      PROVE  KeptFrames(u, memory', context', calls'[u])
  <2> DEFINE su == calls[u]
             n == Len(su) - 1
  <2>1. KeptFrames(u, memory, context, su)
    BY DEF WindowInv
  <2>2. n \in Nat /\ n <= MaxFrames
    BY <1>1, <2>1 DEF KeptFrames
  <2>3. InMemory(memory, u, su, n) /\ u # running
    BY <2>1 DEF KeptFrames
  <2> HIDE DEF su, n
  <2>4. InMemory(memory', u, su, n)
    BY <2>2, <2>3, StoredOthers
  <2> QED
    BY <2>1, <2>4, <1>4 DEF KeptFrames, su, n
<1>8. \A u \in Tasks : Len(calls'[u]) >= 1 /\ calls'[u][1].kind = "call"
  <2>1. \A u \in Tasks \ {running} : Len(calls'[u]) >= 1 /\ calls'[u][1].kind = "call"
    BY <1>4 DEF WindowInv
  <2>2. Len(st) >= 1
    OBVIOUS
  <2> QED
    BY <1>3, <2>1, <2>2
<1>9. Len(st) <= MaxFrames
  OBVIOUS
<1> QED
  BY <1>2, <1>3, <1>6, <1>7, <1>8, <1>9 DEF WindowInv

\* The steps that leave the registers of the running thread for those of an heir.
LEMMA SwitchInv ==
    ASSUME WindowInv, NEW heir \in Tasks, heir # running, NEW sr \in Seq(Activations),
           NEW st, NEW ds, NEW v \in WindowValues,
           UNCHANGED fast, running' = heir,
           calls' = [[calls EXCEPT ![running] = sr] EXCEPT ![heir] = Front(@)],
           context' = [context EXCEPT ![running] = v], v = FrameOf(running, sr, Len(sr)),
           Len(sr) \in 2..(MaxFrames + 1), sr[1].kind = "call",
           Stored(memory', memory, running, st, ds),
           InMemory(memory', running, sr, Len(sr) - 1),
           cpu' \in Cpus,
           fast => FastHolds(cpu', memory', heir, Front(calls[heir]), 1),
           ~fast => SlowHolds(cpu', memory', heir, Front(calls[heir]))
    PROVE  WindowInv'
<1>1. MaxFrames \in Nat \ {0} /\ Windows \in Nat /\ Windows >= 3
  BY WindowAssumption
<1>2. /\ calls \in [Tasks -> Seq(Activations)] /\ running \in Tasks
      /\ context \in [Tasks -> WindowValues]
  BY DEF WindowInv, WindowTypes
<1> DEFINE sh == calls[heir]
           p == Len(sh) - 1
           s2 == Front(sh)
<1>3. KeptFrames(heir, memory, context, sh) /\ sh \in Seq(Activations)
  BY <1>2 DEF WindowInv
<1>4. p \in 1..Len(sh) /\ p \in 1..MaxFrames
  BY <1>1, <1>3 DEF KeptFrames
<1>5. s2 = SubSeq(sh, 1, p)
  BY DEF Front
<1>6. sh[1].kind = "call"
  BY <1>2 DEF WindowInv
<1> HIDE DEF sh, p, s2
<1>7. s2 \in Seq(Activations) /\ Len(s2) = p /\ s2[1] = sh[1]
  <2>1. sh \in Seq(Activations) /\ p \in 1..Len(sh)
    BY <1>3, <1>4
  <2> QED
    BY <2>1, <1>5
<1> USE DEF sh
<1>8. /\ calls' \in [Tasks -> Seq(Activations)]
      /\ calls'[running] = sr /\ calls'[heir] = s2
      /\ \A u \in Tasks : u # running /\ u # heir => calls'[u] = calls[u]
  BY <1>2, <1>7 DEF s2
<1>9. /\ context' \in [Tasks -> WindowValues] /\ context'[running] = v
      /\ \A u \in Tasks : u # running => context'[u] = context[u]
  BY <1>2
<1>10. WindowTypes'
  BY <1>8, <1>9 DEF WindowInv, WindowTypes, Stored
<1>11. ASSUME NEW u \in Tasks, u # heir
       PROVE  KeptFrames(u, memory', context', calls'[u])
  <2>1. CASE u = running
    BY <2>1, <1>8, <1>9 DEF KeptFrames
  <2>2. CASE u # running
    <3> DEFINE su == calls[u]
               n == Len(su) - 1
    <3>1. KeptFrames(u, memory, context, su)
      BY <2>2 DEF WindowInv
    <3>2. n \in Nat /\ n <= MaxFrames
      BY <1>1, <3>1 DEF KeptFrames
    <3>3. InMemory(memory, u, su, n)
      BY <3>1 DEF KeptFrames
    <3> HIDE DEF su, n
    <3>4. InMemory(memory', u, su, n)
      BY <2>2, <3>2, <3>3, StoredOthers
    <3> QED
      BY <2>2, <3>1, <3>4, <1>8, <1>9, <1>11 DEF KeptFrames, su, n
  <2> QED
    BY <2>1, <2>2
<1>12. \A u \in Tasks : Len(calls'[u]) >= 1 /\ calls'[u][1].kind = "call"
  <2>1. \A u \in Tasks : u # running /\ u # heir =>
           Len(calls'[u]) >= 1 /\ calls'[u][1].kind = "call"
    BY <1>8 DEF WindowInv
  <2>2. Len(sr) >= 1 /\ Len(s2) >= 1
    BY <1>1, <1>4, <1>7
  <2> QED
    BY <1>6, <1>7, <1>8, <2>1, <2>2
<1>13. Len(calls'[running']) <= MaxFrames
  BY <1>4, <1>7, <1>8
<1>14. /\ fast' => \E k \in 1..(Windows - 1) : FastHolds(cpu', memory', running', calls'[running'], k)
       /\ ~fast' => SlowHolds(cpu', memory', running', calls'[running'])
  <2>1. 1 \in 1..(Windows - 1)
    BY <1>1
  <2> QED
    BY <2>1, <1>8 DEF s2
<1> QED
  BY <1>10, <1>11, <1>12, <1>13, <1>14 DEF WindowInv

\* Pushed onto the stack of the thread that runs.
LEMMA PushedStack ==
    ASSUME WindowInv, NEW a \in Activations, Depth(running) < MaxFrames,
           NEW st, st = Append(calls[running], a)
    PROVE  /\ st \in Seq(Activations) /\ Len(st) \in 2..MaxFrames /\ st[1].kind = "call"
           /\ Len(st) = Depth(running) + 1
           /\ calls[running] \in Seq(Activations) /\ Len(calls[running]) \in 1..MaxFrames
           /\ <<running, Depth(running) + 1, a.colour>> \in WindowValues
<1>1. MaxFrames \in Nat \ {0} /\ running \in Tasks /\ calls[running] \in Seq(Activations)
  BY WindowAssumption DEF WindowInv, WindowTypes
<1>2. Len(calls[running]) >= 1 /\ calls[running][1].kind = "call"
  BY <1>1 DEF WindowInv
<1>3. a.colour \in {0, 1}
  BY DEF Activations
<1>4. <<running, Depth(running) + 1, a.colour>> \in WindowValues
  BY <1>1, <1>3 DEF WindowValues, Depth
<1>5. Len(st) = Len(calls[running]) + 1 /\ st[1] = calls[running][1] /\ st \in Seq(Activations)
  BY <1>1, <1>2
<1> QED
  BY <1>1, <1>2, <1>4, <1>5 DEF Depth

\* A call and an interrupt enter a window in the same way.
LEMMA StepEnter ==
    ASSUME WindowInv, NEW a \in Activations, Depth(running) < MaxFrames,
           NEW v, v = <<running, Depth(running) + 1, a.colour>>,
           UNCHANGED <<fast, context, running>>, Pushed(running, a),
           fast => /\ memory' = EnterMemory(memory, cpu)
                   /\ cpu' = Entered(cpu, EnterWim(cpu), v),
           ~fast => /\ memory' = Spill(memory, cpu, {cpu.cwp})
                    /\ cpu' = Entered(cpu, OnlyValid(Left(cpu.cwp)), v)
    PROVE  WindowInv'
<1> DEFINE sc == calls[running]
           st == Append(sc, a)
<1>1. /\ st \in Seq(Activations) /\ Len(st) \in 1..MaxFrames /\ st[1].kind = "call"
      /\ sc \in Seq(Activations) /\ Len(sc) \in 1..MaxFrames /\ v \in WindowValues
      /\ v = <<running, Len(sc) + 1, a.colour>>
  <2>1. st = Append(calls[running], a)
    OBVIOUS
  <2> HIDE DEF st
  <2>2. /\ st \in Seq(Activations) /\ Len(st) \in 2..MaxFrames /\ st[1].kind = "call"
        /\ calls[running] \in Seq(Activations) /\ Len(calls[running]) \in 1..MaxFrames
        /\ <<running, Depth(running) + 1, a.colour>> \in WindowValues
    BY <2>1, PushedStack
  <2> QED
    BY <2>2 DEF Depth
<1>2. cpu \in Cpus /\ memory \in Memories /\ running \in Tasks /\ Len(sc) <= MaxFrames
  BY <1>1, WindowAssumption DEF WindowInv, WindowTypes
<1>3. calls' = [calls EXCEPT ![running] = st]
  BY DEF Pushed
<1> HIDE DEF st, sc
<1>4. CASE fast
  <2>1. PICK k \in 1..(Windows - 1) : FastHolds(cpu, memory, running, sc, k)
    BY <1>4 DEF WindowInv, sc
  <2>2. /\ \E ds : Stored(memory', memory, running, sc, ds)
        /\ cpu' \in Cpus
        /\ \E i \in 1..(Windows - 1) : FastHolds(cpu', memory', running, st, i)
    <3>1. st = Append(sc, a) /\ sc \in Seq(Activations)
      BY <1>1 DEF st
    <3>2. /\ \E ds : Stored(EnterMemory(memory, cpu), memory, running, sc, ds)
          /\ Entered(cpu, EnterWim(cpu), v) \in Cpus
          /\ \E i \in 1..(Windows - 1) :
                FastHolds(Entered(cpu, EnterWim(cpu), v), EnterMemory(memory, cpu), running,
                          Append(sc, a), i)
      BY <1>1, <1>2, <2>1, <3>1, FastEnter
    <3> QED
      BY <1>4, <3>1, <3>2
  <2> QED
    BY <1>1, <1>3, <1>4, <2>2, RunnerInv DEF sc
<1>5. CASE ~fast
  <2>1. SlowHolds(cpu, memory, running, sc)
    BY <1>5 DEF WindowInv, sc
  <2>2. /\ \E ds : Stored(memory', memory, running, sc, ds)
        /\ cpu' \in Cpus
        /\ SlowHolds(cpu', memory', running, st)
    BY <1>1, <1>2, <1>5, <2>1, SlowPush DEF st
  <2> QED
    BY <1>1, <1>3, <1>5, <2>2, RunnerInv DEF sc
<1> QED
  BY <1>4, <1>5

LEMMA StepCall == WindowInv /\ Call => WindowInv'
<1> SUFFICES ASSUME WindowInv, Call PROVE WindowInv'
  OBVIOUS
<1>1. PICK colour \in {0, 1} :
         LET frame == <<running, Depth(running) + 1, colour>> IN
         /\ Pushed(running, [kind |-> "call", colour |-> colour])
         /\ IF ~fast
            THEN /\ memory' = Spill(memory, cpu, {cpu.cwp})
                 /\ cpu' = Entered(cpu, Overflow2(cpu), frame)
            ELSE IF Left(cpu.cwp) \in cpu.wim
            THEN /\ memory' = OverflowMemory(memory, cpu)
                 /\ cpu' = Entered(cpu, OverflowWim(cpu), frame)
            ELSE /\ cpu' = Entered(cpu, cpu.wim, frame)
                 /\ UNCHANGED memory
  BY DEF Call
<1> DEFINE a == [kind |-> "call", colour |-> colour]
           v == <<running, Depth(running) + 1, colour>>
<1>2. a \in Activations /\ v = <<running, Depth(running) + 1, a.colour>>
  BY DEF Activations
<1>3. fast => memory' = EnterMemory(memory, cpu) /\ cpu' = Entered(cpu, EnterWim(cpu), v)
  BY <1>1 DEF EnterMemory, EnterWim
<1>4. ~fast => /\ memory' = Spill(memory, cpu, {cpu.cwp})
               /\ cpu' = Entered(cpu, OnlyValid(Left(cpu.cwp)), v)
  BY <1>1 DEF Overflow2
<1>5. Pushed(running, a) /\ Depth(running) < MaxFrames /\ UNCHANGED <<fast, context, running>>
  BY <1>1 DEF Call
<1> HIDE DEF a, v
<1> QED
  BY <1>2, <1>3, <1>4, <1>5, StepEnter

LEMMA StepInterruptEntry == WindowInv /\ Interrupt => WindowInv'
<1> SUFFICES ASSUME WindowInv, Interrupt PROVE WindowInv'
  OBVIOUS
<1> DEFINE a == [kind |-> "trap", colour |-> 0]
<1>1. a \in Activations /\ TrapFrame = <<running, Depth(running) + 1, a.colour>>
  BY DEF Activations, TrapFrame
<1>2. fast => /\ memory' = EnterMemory(memory, cpu)
              /\ cpu' = Entered(cpu, EnterWim(cpu), TrapFrame)
  BY DEF Interrupt, IrqEntry, EnterMemory, EnterWim
<1>3. ~fast => /\ memory' = Spill(memory, cpu, {cpu.cwp})
               /\ cpu' = Entered(cpu, OnlyValid(Left(cpu.cwp)), TrapFrame)
  BY DEF Interrupt, IrqEntry2
<1>4. Pushed(running, a) /\ Depth(running) < MaxFrames /\ UNCHANGED <<fast, context, running>>
  BY DEF Interrupt
<1> HIDE DEF a
<1> QED
  BY <1>1, <1>2, <1>3, <1>4, StepEnter

\* The stack of the thread that runs, if it can return.
LEMMA PoppedStack ==
    ASSUME WindowInv, Depth(running) > 1
    PROVE  /\ calls[running] \in Seq(Activations) /\ Len(calls[running]) \in 2..MaxFrames
           /\ Front(calls[running]) \in Seq(Activations)
           /\ Len(Front(calls[running])) \in 1..MaxFrames
           /\ Front(calls[running])[1].kind = "call"
<1> DEFINE sc == calls[running]
           p == Len(sc) - 1
           f == Front(sc)
<1>1. sc \in Seq(Activations) /\ Len(sc) \in 2..MaxFrames /\ sc[1].kind = "call"
  BY WindowAssumption DEF WindowInv, WindowTypes, Depth
<1>2. p \in 1..Len(sc) /\ p \in 1..MaxFrames /\ f = SubSeq(sc, 1, p)
  BY <1>1, WindowAssumption DEF Front
<1> HIDE DEF p, f
<1>3. f \in Seq(Activations) /\ Len(f) = p /\ f[1] = sc[1]
  BY <1>1, <1>2
<1> QED
  BY <1>1, <1>2, <1>3 DEF f

\* Back to the frame below, from windows s that hold it.
LEMMA StepBack ==
    ASSUME WindowInv, Depth(running) > 1,
           UNCHANGED <<fast, memory, context, running>>,
           calls' = [calls EXCEPT ![running] = Front(@)],
           cpu' \in Cpus,
           fast => \E k \in 1..(Windows - 1) :
                      FastHolds(cpu', memory, running, Front(calls[running]), k),
           ~fast => SlowHolds(cpu', memory, running, Front(calls[running]))
    PROVE  WindowInv'
<1> DEFINE st == Front(calls[running])
<1>1. st \in Seq(Activations) /\ Len(st) \in 1..MaxFrames /\ st[1].kind = "call"
  BY PoppedStack
<1>2. Stored(memory', memory, running, calls[running], {})
  BY DEF Stored, WindowInv, WindowTypes
<1>3. calls' = [calls EXCEPT ![running] = st] /\ memory' = memory
  OBVIOUS
<1>4. /\ fast => \E k \in 1..(Windows - 1) : FastHolds(cpu', memory', running, st, k)
      /\ ~fast => SlowHolds(cpu', memory', running, st)
  OBVIOUS
<1> HIDE DEF st
<1> QED
  BY <1>1, <1>2, <1>3, <1>4, RunnerInv

\* The windows s, when the frame below the current one is in them.
LEMMA FilledBelow ==
    ASSUME WindowInv, fast, Depth(running) > 1,
           NEW k \in 1..(Windows - 1), FastHolds(cpu, memory, running, calls[running], k)
    PROVE  LET s == RestoreSave(cpu, memory, running, Depth(running) - 1)
           IN /\ s \in Cpus
              /\ \E i \in 2..(Windows - 1) : FastHolds(s, memory, running, calls[running], i)
<1> DEFINE sc == calls[running]
           s == RestoreSave(cpu, memory, running, Depth(running) - 1)
<1>1. /\ Windows \in Nat /\ Windows >= 3 /\ MaxFrames \in Nat
      /\ cpu \in Cpus /\ memory \in Memories /\ running \in Tasks
      /\ sc \in Seq(Activations) /\ Len(sc) \in 2..MaxFrames /\ Depth(running) = Len(sc)
  BY WindowAssumption, PoppedStack DEF WindowInv, WindowTypes, Depth
<1>2. cpu.cwp \in W
  BY <1>1 DEF Cpus
<1>3. Right(cpu.cwp) = WindowAt(cpu.cwp, 1) /\ cpu.wim = {WindowAt(cpu.cwp, k)}
  BY <1>2, WindowRing DEF FastHolds
<1>4. CASE k = 1
  <2>1. s = Underflow(cpu, memory, running, Len(sc) - 1)
    BY <1>1, <1>3, <1>4 DEF RestoreSave
  <2>2. Len(sc) >= 2 /\ Len(sc) - 1 <= MaxFrames /\ FastHolds(cpu, memory, running, sc, 1)
    BY <1>1, <1>4
  <2> HIDE DEF sc
  <2>3. /\ Underflow(cpu, memory, running, Len(sc) - 1) \in Cpus
        /\ FastHolds(Underflow(cpu, memory, running, Len(sc) - 1), memory, running, sc, 2)
    BY <2>2, <1>1, FastUnderflow
  <2>4. 2 \in 2..(Windows - 1)
    BY <1>1
  <2> QED
    BY <2>1, <2>3, <2>4 DEF sc
<1>5. CASE k # 1
  <2>1. WindowAt(cpu.cwp, k) # WindowAt(cpu.cwp, 1)
    BY <1>1, <1>2, <1>5, WindowsDiffer
  <2>2. s = cpu
    BY <2>1, <1>3 DEF RestoreSave
  <2>3. k \in 2..(Windows - 1)
    BY <1>1, <1>5
  <2> QED
    BY <2>2, <2>3, <1>1
<1> QED
  BY <1>4, <1>5

LEMMA BackHolds ==
    ASSUME NEW s \in Cpus, NEW m, NEW t \in Tasks, NEW st \in Seq(Activations),
           NEW i \in 2..(Windows - 1), FastHolds(s, m, t, st, i)
    PROVE  /\ BackFrom(s) \in Cpus
           /\ \E k \in 1..(Windows - 1) : FastHolds(BackFrom(s), m, t, Front(st), k)
<1>1. i >= 2 /\ i - 1 \in 1..(Windows - 1)
  BY WindowAssumption
<1>2. BackFrom(s) \in Cpus /\ FastHolds(BackFrom(s), m, t, Front(st), i - 1)
  BY <1>1, FastPop
<1> QED
  BY <1>1, <1>2

LEMMA StepReturnCall == WindowInv /\ Return => WindowInv'
<1> SUFFICES ASSUME WindowInv, Return PROVE WindowInv'
  OBVIOUS
<1> DEFINE sc == calls[running]
           d == Depth(running) - 1
<1>1. /\ Depth(running) > 1 /\ UNCHANGED <<fast, memory, context, running>>
      /\ calls' = [calls EXCEPT ![running] = Front(@)]
  BY DEF Return
<1>2. /\ cpu \in Cpus /\ memory \in Memories /\ running \in Tasks
      /\ sc \in Seq(Activations) /\ Len(sc) \in 2..(MaxFrames + 1) /\ d = Len(sc) - 1
  BY <1>1, PoppedStack, WindowAssumption DEF WindowInv, WindowTypes, Depth
<1>3. CASE fast
  <2> DEFINE s == RestoreSave(cpu, memory, running, d)
  <2>1. cpu' = BackFrom(s)
    BY <1>3 DEF Return, RestoreSave
  <2>2. s \in Cpus /\ \E i \in 2..(Windows - 1) : FastHolds(s, memory, running, sc, i)
    BY <1>1, <1>3, FilledBelow DEF WindowInv
  <2> HIDE DEF s, sc
  <2>3. cpu' \in Cpus /\ \E k \in 1..(Windows - 1) : FastHolds(cpu', memory, running, Front(sc), k)
    BY <1>2, <2>1, <2>2, BackHolds
  <2> QED
    BY <1>1, <1>3, <2>3, StepBack DEF sc
<1>4. CASE ~fast
  <2>1. cpu' = BackFrom(Underflow2(cpu, memory, running, Len(sc) - 1))
    BY <1>2, <1>4 DEF Return
  <2>2. InMemory(memory, running, sc, Len(sc) - 1)
    BY <1>4 DEF WindowInv, SlowHolds
  <2> HIDE DEF sc
  <2>3. cpu' \in Cpus /\ SlowHolds(cpu', memory, running, Front(sc))
    BY <1>2, <2>1, <2>2, SlowFill
  <2> QED
    BY <1>1, <1>4, <2>3, StepBack DEF sc
<1> QED
  BY <1>3, <1>4

LEMMA StepWindowStutter ==
    WindowInv /\ UNCHANGED <<fast, cpu, memory, context, calls, running>> => WindowInv'
  BY DEF WindowInv, WindowTypes

\* A return from a trap that meets an invalid window changes nothing but the
\* mode of the processor.
LEMMA StepTrapBack ==
    ASSUME WindowInv, Depth(running) > 1, NEW s, ReturnFromTrap(s),
           UNCHANGED <<fast, memory, context, running>>,
           Right(s.cwp) \notin s.wim =>
              /\ BackFrom(s) \in Cpus
              /\ fast => \E k \in 1..(Windows - 1) :
                            FastHolds(BackFrom(s), memory, running, Front(calls[running]), k)
              /\ ~fast => SlowHolds(BackFrom(s), memory, running, Front(calls[running]))
    PROVE  WindowInv'
<1>1. CASE Right(s.cwp) \in s.wim
  BY <1>1, StepWindowStutter DEF ReturnFromTrap
<1>2. CASE Right(s.cwp) \notin s.wim
  <2>1. cpu' = BackFrom(s) /\ calls' = [calls EXCEPT ![running] = Front(@)]
    BY <1>2 DEF ReturnFromTrap
  <2> QED
    BY <1>2, <2>1, StepBack
<1> QED
  BY <1>1, <1>2

\* The WIM that isr2.S computes: either it is that of the underflow handler, or all
\* windows are invalid, which is so in the last window.
LEMMA ShiftedBit ==
    ASSUME NEW s \in Cpus, NEW m, NEW t, NEW d
    PROVE  LET u == ShiftedWim(s, m, t, d)
           IN /\ Right(u.cwp) \notin u.wim => u = Underflow2(s, m, t, d)
              /\ Right(u.cwp) \in u.wim => s.cwp = Windows - 1
<1> DEFINE v == Underflow2(s, m, t, d)
           u == ShiftedWim(s, m, t, d)
<1>1. s.cwp \in W /\ Windows \in Nat /\ Windows >= 3
  BY WindowAssumption DEF Cpus
<1>2. /\ v.cwp = s.cwp /\ v.wim = W \ {Right(s.cwp)}
      /\ v = [v EXCEPT !.wim = W \ {Right(s.cwp)}] /\ u = [v EXCEPT !.wim = W \ {s.cwp + 1}]
      /\ u.cwp = v.cwp /\ u.wim = W \ {s.cwp + 1}
  BY DEF Underflow2, ShiftedWim, Cpus, OnlyValid
<1> HIDE DEF u, v
<1>3. Right(s.cwp) = (IF s.cwp = Windows - 1 THEN 0 ELSE s.cwp + 1) /\ Right(s.cwp) \in W
  BY <1>1, LeftIs DEF W
<1>4. CASE s.cwp = Windows - 1
  <2>1. Right(u.cwp) = 0 /\ s.cwp + 1 # 0
    BY <1>1, <1>2, <1>3, <1>4
  <2>2. 0 \in W /\ 0 # s.cwp + 1
    BY <1>1, <2>1 DEF W
  <2>3. Right(u.cwp) \in u.wim
    BY <1>2, <2>1, <2>2
  <2> QED
    BY <1>4, <2>3 DEF u
<1>5. CASE s.cwp # Windows - 1
  <2>1. Right(s.cwp) = s.cwp + 1
    BY <1>3, <1>5
  <2>2. u.wim = W \ {Right(s.cwp)}
    BY <1>2, <2>1
  <2>3. u = v
    BY <1>2, <2>1
  <2>4. Right(u.cwp) \notin u.wim
    BY <1>2, <2>2
  <2> QED
    BY <2>3, <2>4 DEF u, v
<1> QED
  BY <1>4, <1>5 DEF u, v

LEMMA StepInterruptReturn == WindowInv /\ InterruptReturn => WindowInv'
<1> SUFFICES ASSUME WindowInv, InterruptReturn PROVE WindowInv'
  OBVIOUS
<1> DEFINE sc == calls[running]
           d == Depth(running) - 1
<1>1. Depth(running) > 1 /\ UNCHANGED <<fast, memory, context, running>>
  BY DEF InterruptReturn
<1>2. /\ cpu \in Cpus /\ memory \in Memories /\ running \in Tasks
      /\ sc \in Seq(Activations) /\ Len(sc) \in 2..(MaxFrames + 1) /\ d = Len(sc) - 1
      /\ Windows \in Nat /\ Windows >= 3 /\ cpu.cwp \in W
  BY <1>1, PoppedStack, WindowAssumption DEF WindowInv, WindowTypes, Depth, Cpus
<1>3. CASE NestedReturn
  <2>1. PICK k \in 1..(Windows - 1) : FastHolds(cpu, memory, running, sc, k)
    BY <1>3 DEF WindowInv, NestedReturn
  <2>2. Right(cpu.cwp) \notin cpu.wim => k \in 2..(Windows - 1)
    <3>1. k = 1 => Right(cpu.cwp) \in cpu.wim
      BY <1>2, <2>1, WindowRing DEF FastHolds
    <3> QED
      BY <3>1, <1>2
  <2> HIDE DEF sc
  <2>3. Right(cpu.cwp) \notin cpu.wim =>
           /\ BackFrom(cpu) \in Cpus
           /\ \E i \in 1..(Windows - 1) : FastHolds(BackFrom(cpu), memory, running, Front(sc), i)
    BY <1>2, <2>1, <2>2, BackHolds
  <2> QED
    BY <1>1, <1>3, <2>3, StepTrapBack DEF NestedReturn, sc
<1>4. CASE SameTaskReturn
  <2> DEFINE s == RestoreSave(cpu, memory, running, d)
  <2>1. s \in Cpus /\ \E i \in 2..(Windows - 1) : FastHolds(s, memory, running, sc, i)
    BY <1>1, <1>4, FilledBelow DEF WindowInv, SameTaskReturn
  <2>2. fast /\ ReturnFromTrap(s)
    BY <1>4 DEF SameTaskReturn
  <2> HIDE DEF s, sc
  <2>3. BackFrom(s) \in Cpus /\ \E k \in 1..(Windows - 1) :
                                   FastHolds(BackFrom(s), memory, running, Front(sc), k)
    BY <1>2, <2>1, BackHolds
  <2> QED
    BY <1>1, <2>2, <2>3, StepTrapBack DEF sc
<1>5. CASE TrapReturn2
  <2> DEFINE u == Underflow2(cpu, memory, running, Len(sc) - 1)
             s == ShiftedWim(cpu, memory, running, Len(sc) - 1)
  <2>1. ~fast /\ ReturnFromTrap(s)
    BY <1>2, <1>5 DEF TrapReturn2
  <2>2. InMemory(memory, running, sc, Len(sc) - 1)
    BY <2>1 DEF WindowInv, SlowHolds
  <2>3. Right(s.cwp) \notin s.wim => s = u
    BY <1>2, ShiftedBit
  <2> HIDE DEF sc
  <2>4. BackFrom(u) \in Cpus /\ SlowHolds(BackFrom(u), memory, running, Front(sc))
    BY <1>2, <2>2, SlowFill
  <2> HIDE DEF s, u
  <2>5. Right(s.cwp) \notin s.wim =>
           BackFrom(s) \in Cpus /\ SlowHolds(BackFrom(s), memory, running, Front(sc))
    BY <2>3, <2>4
  <2> QED
    BY <1>1, <2>1, <2>5, StepTrapBack DEF sc
<1> QED
  BY <1>3, <1>4, <1>5 DEF InterruptReturn

\* The current frame is a trap frame of a thread whose stack is sr, in windows
\* s; the windows below it go to memory and the heir's come in.
LEMMA FastSwitch ==
    ASSUME WindowInv, fast, NEW heir \in Tasks, heir # running,
           NEW sr \in Seq(Activations), Len(sr) \in 2..MaxFrames, sr[1].kind = "call",
           NEW s \in Cpus, NEW k, FastHolds(s, memory, running, sr, k),
           ContextSwitch(s, memory, heir), UNCHANGED fast,
           Switched(heir, [calls EXCEPT ![running] = sr])
    PROVE  WindowInv'
<1> DEFINE q == Spill(memory, s, UsedWindows(s))
           v == s.win[s.cwp]
           sh == calls[heir]
           vh == context[heir]
<1>1. /\ memory \in Memories /\ running \in Tasks /\ MaxFrames \in Nat /\ Windows \in Nat
      /\ Windows >= 3 /\ calls \in [Tasks -> Seq(Activations)] /\ sh \in Seq(Activations)
      /\ context \in [Tasks -> WindowValues] /\ vh \in WindowValues
      /\ s.cwp \in W /\ s.win \in [W -> WindowValues]
  BY WindowAssumption DEF WindowInv, WindowTypes, Cpus
<1>2. v = FrameOf(running, sr, Len(sr)) /\ v \in WindowValues
  <2>1. WindowAt(s.cwp, 0) = s.cwp
    BY <1>1, WindowRing
  <2>2. 0 \in 0..(k - 1)
    BY DEF FastHolds
  <2> QED
    BY <2>1, <2>2, <1>1 DEF FastHolds
<1>3. Len(sr) <= MaxFrames + 1
  BY <1>1
<1>4. (\E ds : Stored(q, memory, running, sr, ds)) /\ InMemory(q, running, sr, Len(sr) - 1)
  BY <1>1, <1>3, FastFlush
<1>5. /\ memory' = q /\ context' = [context EXCEPT ![running] = v] /\ running' = heir
      /\ calls' = [[calls EXCEPT ![running] = sr] EXCEPT ![heir] = Front(@)]
  BY DEF ContextSwitch, Switched
<1>6. cpu' = BackFrom(Underflow(Loaded(s, vh), q, heir, Len(sh) - 1))
  <2>1. [context EXCEPT ![running] = v][heir] = vh
    BY <1>1
  <2> QED
    BY <2>1 DEF ContextSwitch, Loaded, Depth
<1>7. KeptFrames(heir, memory, context, sh)
  BY DEF WindowInv
<1>8. q \in Memories
  BY <1>4 DEF Stored
<1>9. vh = FrameOf(heir, sh, Len(sh)) /\ Len(sh) \in 2..(MaxFrames + 1)
  BY <1>7 DEF KeptFrames
<1> HIDE DEF q, v, vh, sh
<1>10. InMemory(q, heir, sh, Len(sh) - 1)
  <2>1. Len(sh) - 1 \in Nat /\ Len(sh) - 1 <= MaxFrames
    BY <1>1, <1>9
  <2>2. InMemory(memory, heir, sh, Len(sh) - 1)
    BY <1>7 DEF KeptFrames
  <2> QED
    BY <1>4, <2>1, <2>2, StoredOthers
<1>11. cpu' \in Cpus /\ FastHolds(cpu', q, heir, Front(sh), 1)
  BY <1>1, <1>6, <1>8, <1>9, <1>10, FastLoad
<1>12. Len(sr) \in 2..(MaxFrames + 1)
  BY <1>1
<1> QED
  BY <1>2, <1>4, <1>5, <1>11, <1>12, SwitchInv DEF sh

\* The same without CONFIG_FAST_MODE; the frames below are in memory m already.
LEMMA SlowSwitch ==
    ASSUME WindowInv, ~fast, NEW heir \in Tasks, heir # running,
           NEW sr \in Seq(Activations), Len(sr) \in 2..MaxFrames, sr[1].kind = "call",
           NEW s \in Cpus, NEW m, SlowHolds(s, m, running, sr),
           NEW st, NEW ds, Stored(m, memory, running, st, ds),
           ContextSwitch2(s, m, heir), UNCHANGED fast,
           Switched(heir, [calls EXCEPT ![running] = sr])
    PROVE  WindowInv'
<1> DEFINE v == s.win[s.cwp]
           sh == calls[heir]
           vh == context[heir]
           l == [s EXCEPT !.win = [@ EXCEPT ![s.cwp] = vh]]
<1>1. /\ memory \in Memories /\ running \in Tasks /\ MaxFrames \in Nat
      /\ calls \in [Tasks -> Seq(Activations)] /\ sh \in Seq(Activations)
      /\ context \in [Tasks -> WindowValues] /\ vh \in WindowValues
      /\ s.cwp \in W /\ s.win \in [W -> WindowValues] /\ s.wim \in SUBSET W
  BY WindowAssumption DEF WindowInv, WindowTypes, Cpus
<1>2. v = FrameOf(running, sr, Len(sr)) /\ v \in WindowValues
  BY <1>1 DEF SlowHolds
<1>3. InMemory(m, running, sr, Len(sr) - 1)
  BY DEF SlowHolds
<1>4. /\ memory' = m /\ context' = [context EXCEPT ![running] = v] /\ running' = heir
      /\ calls' = [[calls EXCEPT ![running] = sr] EXCEPT ![heir] = Front(@)]
  BY DEF ContextSwitch2, Switched
<1>5. cpu' = BackFrom(Underflow2(l, m, heir, Len(sh) - 1))
  <2>1. [context EXCEPT ![running] = v][heir] = vh
    BY <1>1
  <2> QED
    BY <2>1 DEF ContextSwitch2, Depth
<1>6. l \in Cpus
  BY <1>1 DEF Cpus
<1>7. KeptFrames(heir, memory, context, sh)
  BY DEF WindowInv
<1>8. m \in Memories /\ Len(sh) \in 2..(MaxFrames + 1)
  BY <1>7 DEF Stored, KeptFrames
<1> HIDE DEF v, vh, sh, l
<1>9. InMemory(m, heir, sh, Len(sh) - 1)
  <2>1. Len(sh) - 1 \in Nat /\ Len(sh) - 1 <= MaxFrames
    BY <1>1, <1>8
  <2>2. InMemory(memory, heir, sh, Len(sh) - 1)
    BY <1>7 DEF KeptFrames
  <2> QED
    BY <2>1, <2>2, StoredOthers
<1>10. cpu' \in Cpus /\ SlowHolds(cpu', m, heir, Front(sh))
  BY <1>1, <1>5, <1>6, <1>8, <1>9, SlowFill
<1>11. Len(sr) \in 2..(MaxFrames + 1)
  BY <1>1
<1> QED
  BY <1>2, <1>3, <1>4, <1>10, <1>11, SwitchInv DEF sh

LEMMA StepSwitchFromInterrupt == WindowInv /\ SwitchFromInterrupt => WindowInv'
<1> SUFFICES ASSUME WindowInv, SwitchFromInterrupt PROVE WindowInv'
  OBVIOUS
<1> DEFINE sc == calls[running]
<1>1. PICK heir \in Tasks \ {running} :
         /\ IF fast
            THEN ContextSwitch(RestoreSave(cpu, memory, running, Depth(running) - 1), memory, heir)
            ELSE ContextSwitch2(cpu, memory, heir)
         /\ Switched(heir, calls)
  BY DEF SwitchFromInterrupt
<1>2. OnTrap(running) /\ UNCHANGED fast
  BY DEF SwitchFromInterrupt
<1>3. Depth(running) > 1
  <2>1. Len(sc) \in Nat /\ Len(sc) >= 1 /\ sc[1].kind = "call"
    BY DEF WindowInv, WindowTypes
  <2> QED
    BY <2>1, <1>2 DEF OnTrap, Depth
<1>4. /\ sc \in Seq(Activations) /\ Len(sc) \in 2..MaxFrames /\ sc[1].kind = "call"
      /\ cpu \in Cpus /\ memory \in Memories
  BY <1>3, PoppedStack DEF WindowInv, WindowTypes
<1>5. [calls EXCEPT ![running] = sc] = calls
  BY DEF WindowInv, WindowTypes
<1>6. CASE fast
  <2> DEFINE s == RestoreSave(cpu, memory, running, Depth(running) - 1)
  <2>1. s \in Cpus /\ \E i \in 2..(Windows - 1) : FastHolds(s, memory, running, sc, i)
    BY <1>3, <1>6, FilledBelow DEF WindowInv
  <2>2. ContextSwitch(s, memory, heir)
    BY <1>1, <1>6
  <2> HIDE DEF s, sc
  <2> QED
    BY <1>1, <1>2, <1>4, <1>5, <1>6, <2>1, <2>2, FastSwitch
<1>7. CASE ~fast
  <2>1. Stored(memory, memory, running, sc, {})
    BY <1>4 DEF Stored
  <2>2. SlowHolds(cpu, memory, running, sc) /\ ContextSwitch2(cpu, memory, heir)
    BY <1>1, <1>7 DEF WindowInv
  <2> HIDE DEF sc
  <2> QED
    BY <1>1, <1>2, <1>4, <1>5, <1>7, <2>1, <2>2, SlowSwitch
<1> QED
  BY <1>6, <1>7

LEMMA StepSchedule == WindowInv /\ SYS_Schedule => WindowInv'
<1> SUFFICES ASSUME WindowInv, SYS_Schedule PROVE WindowInv'
  OBVIOUS
<1> DEFINE sc == calls[running]
           a == [kind |-> "trap", colour |-> 0]
           sr == Append(sc, a)
<1>1. Depth(running) < MaxFrames /\ UNCHANGED fast
  BY DEF SYS_Schedule
<1>2. a \in Activations /\ TrapFrame = <<running, Depth(running) + 1, a.colour>>
  BY DEF Activations, TrapFrame
<1>3. /\ sr \in Seq(Activations) /\ Len(sr) \in 2..MaxFrames /\ sr[1].kind = "call"
      /\ sc \in Seq(Activations) /\ Len(sc) \in 1..MaxFrames /\ TrapFrame \in WindowValues
  <2>1. sr = Append(calls[running], a)
    OBVIOUS
  <2> HIDE DEF sr, a
  <2> QED
    BY <1>1, <1>2, <2>1, PushedStack
<1>4. TrapFrame = <<running, Len(sc) + 1, a.colour>>
  BY <1>2 DEF Depth
<1>5. /\ cpu \in Cpus /\ memory \in Memories /\ running \in Tasks /\ cpu.cwp \in W
      /\ Windows \in Nat /\ Windows >= 3 /\ calls \in [Tasks -> Seq(Activations)]
      /\ Len(sc) <= MaxFrames
  BY <1>3, WindowAssumption DEF WindowInv, WindowTypes, Cpus
<1>6. [calls EXCEPT ![running] = Append(@, a)] = [calls EXCEPT ![running] = sr]
  BY <1>5
<1>7. CASE ScheduleCall
  <2>1. PICK k \in 1..(Windows - 1) : FastHolds(cpu, memory, running, sc, k)
    BY <1>7 DEF WindowInv, ScheduleCall
  <2>2. CASE Left(cpu.cwp) \in cpu.wim
    BY <1>1, <1>7, <2>2, StepWindowStutter DEF ScheduleCall
  <2>3. CASE Left(cpu.cwp) \notin cpu.wim
    <3> DEFINE s == Entered(cpu, cpu.wim, TrapFrame)
    <3>1. PICK heir \in Tasks \ {running} :
             /\ ContextSwitch(s, memory, heir)
             /\ Switched(heir, [calls EXCEPT ![running] = sr])
      BY <1>6, <1>7, <2>3 DEF ScheduleCall
    <3>2. k < Windows - 1
      <4>1. Left(cpu.cwp) = WindowAt(cpu.cwp, Windows - 1) /\ cpu.wim = {WindowAt(cpu.cwp, k)}
        BY <1>5, <2>1, WindowRing DEF FastHolds
      <4> QED
        BY <4>1, <2>3, <1>5
    <3>3. fast
      BY <1>7 DEF ScheduleCall
    <3> HIDE DEF sc, a, s
    <3>4. s \in Cpus /\ FastHolds(s, memory, running, sr, k + 1)
      BY <1>2, <1>3, <1>4, <1>5, <2>1, <3>2, FastPush DEF s
    <3> HIDE DEF sr
    <3> QED
      BY <1>1, <1>3, <3>1, <3>3, <3>4, FastSwitch
  <2> QED
    BY <2>2, <2>3
<1>8. CASE ScheduleCall2
  <2> DEFINE s == Entered(cpu, OnlyValid(Left(cpu.cwp)), TrapFrame)
             q == Spill(memory, cpu, {cpu.cwp})
  <2>1. PICK heir \in Tasks \ {running} :
           /\ ContextSwitch2(s, q, heir)
           /\ Switched(heir, [calls EXCEPT ![running] = sr])
    BY <1>6, <1>8 DEF ScheduleCall2
  <2>2. ~fast /\ SlowHolds(cpu, memory, running, sc)
    BY <1>8 DEF WindowInv, ScheduleCall2
  <2> HIDE DEF sc, a
  <2>3. /\ \E ds : Stored(q, memory, running, sc, ds)
        /\ s \in Cpus /\ SlowHolds(s, q, running, sr)
    BY <1>2, <1>3, <1>4, <1>5, <2>2, SlowPush
  <2> HIDE DEF sr, s, q
  <2> QED
    BY <1>1, <1>3, <2>1, <2>2, <2>3, SlowSwitch
<1> QED
  BY <1>7, <1>8 DEF SYS_Schedule

LEMMA WindowInvInit == WindowInit => WindowInv
<1> SUFFICES ASSUME WindowInit PROVE WindowInv
  OBVIOUS
<1> DEFINE bottom == [kind |-> "call", colour |-> 0]
           trap == [kind |-> "trap", colour |-> 0]
<1>1. Windows \in Nat /\ Windows >= 3 /\ MaxFrames \in Nat \ {0}
  BY WindowAssumption
<1>2. running \in Tasks /\ fast \in BOOLEAN
  BY DEF WindowInit
<1>3. 0 \in W /\ 1 \in W /\ WindowAt(0, 1) = 1 /\ WindowAt(0, 0) = 0
  <2>1. 0 \in W /\ 1 \in W
    BY <1>1 DEF W
  <2>2. Right(0) = 1
    BY <1>1, <2>1, LeftIs
  <2> QED
    BY <2>1, <2>2, WindowRing
<1>4. \A t \in Tasks : <<t, 1, 0>> \in WindowValues /\ <<t, 2, 0>> \in WindowValues
  BY DEF WindowValues
<1>5. Junk \in WindowValues
  BY DEF WindowValues
<1>6. /\ cpu.cwp = 0 /\ cpu.wim = (IF fast THEN {1} ELSE OnlyValid(0))
      /\ cpu.win[0] = <<running, 1, 0>> /\ cpu \in Cpus
  <2>1. [w \in W |-> IF w = 0 THEN <<running, 1, 0>> ELSE Junk] \in [W -> WindowValues]
    BY <1>2, <1>4, <1>5
  <2>2. {1} \in SUBSET W /\ OnlyValid(0) \in SUBSET W
    BY <1>3 DEF OnlyValid
  <2> QED
    BY <1>3, <2>1, <2>2 DEF WindowInit, Cpus
<1>7. memory \in Memories /\ \A t \in Tasks : memory[t][1] = <<t, 1, 0>>
  <2> DEFINE stack(t) == [d \in 1..MaxFrames |-> IF d = 1 THEN <<t, 1, 0>> ELSE Junk]
  <2>1. memory = [t \in Tasks |-> stack(t)]
    BY DEF WindowInit
  <2>2. ASSUME NEW t \in Tasks
        PROVE  stack(t) \in [1..MaxFrames -> WindowValues] /\ stack(t)[1] = <<t, 1, 0>>
    <3> DEFINE v == <<t, 1, 0>>
    <3>1. v \in WindowValues
      BY DEF WindowValues
    <3>2. 1 \in 1..MaxFrames
      BY <1>1
    <3>3. stack(t) = [d \in 1..MaxFrames |-> IF d = 1 THEN v ELSE Junk]
      OBVIOUS
    <3> HIDE DEF v, stack
    <3>4. stack(t) \in [1..MaxFrames -> WindowValues] /\ stack(t)[1] = v
      BY <3>1, <3>2, <3>3, <1>5
    <3> QED
      BY <3>4 DEF v
  <2> HIDE DEF stack
  <2> QED
    BY <2>1, <2>2 DEF Memories
<1>8. context \in [Tasks -> WindowValues] /\ \A t \in Tasks : context[t] = <<t, 2, 0>>
  BY <1>4 DEF WindowInit, WindowContextInit
<1>9. /\ bottom \in Activations /\ trap \in Activations
      /\ bottom.kind = "call" /\ bottom.colour = 0 /\ trap.colour = 0
  BY DEF Activations
<1>10. calls = [t \in Tasks |-> IF t = running THEN <<bottom>> ELSE <<bottom, trap>>]
  BY DEF WindowInit
<1> HIDE DEF bottom, trap
<1>11. <<bottom>> \in Seq(Activations) /\ <<bottom, trap>> \in Seq(Activations)
  BY <1>9
<1>12. calls \in [Tasks -> Seq(Activations)]
  BY <1>10, <1>11
<1>13. calls[running] = <<bottom>> /\ \A t \in Tasks \ {running} : calls[t] = <<bottom, trap>>
  BY <1>2, <1>10
<1>14. WindowTypes
  BY <1>2, <1>6, <1>7, <1>8, <1>12 DEF WindowTypes
<1>15. /\ Len(calls[running]) = 1 /\ calls[running][1] = bottom
       /\ \A t \in Tasks \ {running} :
             Len(calls[t]) = 2 /\ calls[t][1] = bottom /\ calls[t][2] = trap
  BY <1>13
<1>16. FrameOf(running, calls[running], 1) = <<running, 1, 0>>
  BY <1>9, <1>15 DEF FrameOf
<1>17. fast => FastHolds(cpu, memory, running, calls[running], 1)
  BY <1>1, <1>3, <1>6, <1>15, <1>16 DEF FastHolds, InMemory
<1>18. ~fast => SlowHolds(cpu, memory, running, calls[running])
  BY <1>6, <1>15, <1>16 DEF SlowHolds, InMemory
<1>19. \A t \in Tasks \ {running} : KeptFrames(t, memory, context, calls[t])
  <2> SUFFICES ASSUME NEW t \in Tasks \ {running}
               PROVE  KeptFrames(t, memory, context, calls[t])
    OBVIOUS
  <2> DEFINE st == calls[t]
  <2>1. Len(st) = 2 /\ st[1].colour = 0 /\ st[2].colour = 0
    BY <1>9, <1>15
  <2>2. context[t] = <<t, 2, 0>> /\ memory[t][1] = <<t, 1, 0>>
    BY <1>7, <1>8
  <2> HIDE DEF st
  <2>3. FrameOf(t, st, 1) = <<t, 1, 0>> /\ FrameOf(t, st, 2) = <<t, 2, 0>>
    BY <2>1 DEF FrameOf
  <2>4. InMemory(memory, t, st, 1)
    BY <2>2, <2>3 DEF InMemory
  <2>5. Len(st) \in 2..(MaxFrames + 1) /\ Len(st) - 1 = 1
    BY <1>1, <2>1
  <2>6. KeptFrames(t, memory, context, st)
    BY <2>1, <2>2, <2>3, <2>4, <2>5 DEF KeptFrames
  <2> QED
    BY <2>6 DEF st
<1>20. \A t \in Tasks : Len(calls[t]) >= 1 /\ calls[t][1].kind = "call"
  BY <1>9, <1>15
<1>21. 1 \in 1..(Windows - 1)
  BY <1>1
<1> QED
  BY <1>1, <1>14, <1>15, <1>17, <1>18, <1>19, <1>20, <1>21 DEF WindowInv

LEMMA WindowInvNext == WindowInv /\ [WindowNext]_windowVars => WindowInv'
<1> SUFFICES ASSUME WindowInv, [WindowNext]_windowVars PROVE WindowInv'
  OBVIOUS
<1>1. CASE UNCHANGED windowVars
  BY <1>1, StepWindowStutter DEF windowVars
<1> QED
  BY <1>1, StepCall, StepReturnCall, StepInterruptEntry, StepInterruptReturn,
     StepSwitchFromInterrupt, StepSchedule DEF WindowNext

\* Where the processor stops in a return from an interrupt.
StopInv == errorMode = "rett" /\ ~fast => cpu.cwp = Windows - 1

LEMMA StopInvNext == WindowInv /\ StopInv /\ [WindowNext]_windowVars => StopInv'
<1> SUFFICES ASSUME WindowInv, StopInv, [WindowNext]_windowVars PROVE StopInv'
  OBVIOUS
<1>1. CASE UNCHANGED windowVars
  BY <1>1 DEF windowVars, StopInv
<1>2. CASE WindowNext
  <2>1. errorMode = "no"
    BY <1>2 DEF WindowNext
  <2>2. CASE Call \/ Return \/ Interrupt \/ SwitchFromInterrupt
    BY <2>1, <2>2 DEF Call, Return, Interrupt, SwitchFromInterrupt, StopInv
  <2>3. CASE SYS_Schedule
    BY <2>1, <2>3 DEF SYS_Schedule, ScheduleCall, ScheduleCall2, StopInv
  <2>4. CASE InterruptReturn
    <3>1. CASE NestedReturn \/ SameTaskReturn
      BY <2>4, <3>1 DEF InterruptReturn, NestedReturn, SameTaskReturn, StopInv
    <3>2. CASE TrapReturn2
      <4> DEFINE s == ShiftedWim(cpu, memory, running, Depth(running) - 1)
      <4>1. cpu \in Cpus /\ ReturnFromTrap(s)
        BY <3>2 DEF WindowInv, WindowTypes, TrapReturn2
      <4>2. Right(s.cwp) \in s.wim => cpu.cwp = Windows - 1
        BY <4>1, ShiftedBit
      <4> HIDE DEF s
      <4> QED
        BY <2>1, <4>1, <4>2 DEF ReturnFromTrap, StopInv
    <3> QED
      BY <2>4, <3>1, <3>2 DEF InterruptReturn
  <2> QED
    BY <1>2, <2>2, <2>3, <2>4 DEF WindowNext
<1> QED
  BY <1>1, <1>2

\* For any number of windows from 3 on, threads, calls and nested interrupts,
\* in both forms of the HAL: a frame that becomes current again after what
\* spilled it, interrupted it or switched threads finds its own registers, and
\* isr2.S stops the processor only on a return from the last window.
THEOREM RegistersCorrect == WindowSpec => []RegistersSurvive
<1>1. WindowInit => WindowInv
  BY WindowInvInit
<1>2. WindowInv /\ [WindowNext]_windowVars => WindowInv'
  BY WindowInvNext
<1>3. WindowInv /\ StopInv => RegistersSurvive
  <2> SUFFICES ASSUME WindowInv PROVE cpu.win[cpu.cwp] = FrameOf(running, calls[running], Len(calls[running]))
    BY DEF RegistersSurvive, StopInv, Frame, FrameOf, Depth
  <2>1. CASE fast
    <3>1. PICK k \in 1..(Windows - 1) : FastHolds(cpu, memory, running, calls[running], k)
      BY <2>1 DEF WindowInv
    <3>2. WindowAt(cpu.cwp, 0) = cpu.cwp
      BY WindowRing DEF WindowInv, WindowTypes, Cpus
    <3>3. 0 \in 0..(k - 1) /\ Len(calls[running]) \in Nat
      BY DEF WindowInv, WindowTypes
    <3> QED
      BY <3>1, <3>2, <3>3 DEF FastHolds
  <2>2. CASE ~fast
    BY <2>2 DEF WindowInv, SlowHolds
  <2> QED
    BY <2>1, <2>2
<1>4. WindowInit => StopInv
  BY DEF WindowInit, StopInv
<1>5. WindowInv /\ StopInv /\ [WindowNext]_windowVars => StopInv'
  BY StopInvNext
<1> QED
  BY <1>1, <1>2, <1>3, <1>4, <1>5, PTL DEF WindowSpec
=============================================================================
