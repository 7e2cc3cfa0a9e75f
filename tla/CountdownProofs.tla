--------------------------- MODULE CountdownProofs ---------------------------
(***************************************************************************)
(* Proofs about Countdown for every number of countdowns and every base.   *)
(* The counter of running countdowns is compared with the set of entries   *)
(* marked RUN; each action's effect on that set is a lemma, and the rest   *)
(* is arithmetic on cardinalities.  The last section proves that every     *)
(* step is one of CountdownAbs, under the mapping of MCCountdown: hours,   *)
(* minutes and seconds are one number, from which the borrow takes 1.      *)
(***************************************************************************)
EXTENDS MCCountdown, FiniteSetTheorems, TLAPS

-----------------------------------------------------------------------------
(* Types.                                                                  *)

\* Clamping a number between 0 and hi gives a number between 0 and hi.
LEMMA ClampType ==
    ASSUME NEW x \in Int, NEW hi \in Nat
    PROVE  Clamp(x, hi) \in 0..hi
BY DEF Clamp

\* A reloaded entry is a stopped entry of the right type.
LEMMA StoppedType ==
    ASSUME NEW cd \in CountdownT
    PROVE  Stopped(cd) \in CountdownT /\ Stopped(cd).state = "STOP"
BY DEF Stopped, CountdownT

\* Taking a second from an entry that has one left keeps its type and state.
LEMMA DecrementedType ==
    ASSUME NEW cd \in CountdownT, ~AtZero(cd)
    PROVE  Decremented(cd) \in CountdownT /\ Decremented(cd).state = cd.state
<1> DEFINE s == Borrow(cd.s, TRUE)
           m == Borrow(cd.m, cd.s = 0)
           h == Borrow(cd.h, cd.s = 0 /\ cd.m = 0)
<1>1. cd.h \in 0..MaxHour /\ cd.m \in 0..(Base - 1) /\ cd.s \in 0..(Base - 1)
  BY DEF CountdownT
<1>2. s \in 0..(Base - 1) /\ m \in 0..(Base - 1)
  BY <1>1, BaseAssumption DEF Borrow
<1>3. h \in 0..MaxHour
  BY <1>1, BaseAssumption DEF Borrow, AtZero
<1>4. Decremented(cd) = [cd EXCEPT !.s = s, !.m = m, !.h = h]
  BY DEF Decremented
<1> HIDE DEF s, m, h
<1> QED BY <1>2, <1>3, <1>4 DEF CountdownT

\* One pass over an entry keeps its type (no field is left negative), and it
\* is RUN afterwards exactly when it was RUN and had time left.
LEMMA DecEffect ==
    ASSUME NEW cd \in CountdownT
    PROVE  /\ svc_countdown_dec(cd) \in CountdownT
           /\ svc_countdown_dec(cd).state = "RUN" <=> cd.state = "RUN" /\ ~AtZero(cd)
BY StoppedType, DecrementedType DEF svc_countdown_dec

\* An entry given a new time has the right type and its old state.
LEMMA EditedType ==
    ASSUME NEW cd \in CountdownT,
           NEW h \in 0..MaxHour, NEW m \in 0..(Base - 1), NEW s \in 0..(Base - 1)
    PROVE  /\ Edited(cd, h, m, s) \in CountdownT
           /\ Edited(cd, h, m, s).state = cd.state
BY DEF CountdownT, Edited

\* The guarded decrement stays in uint8_t.
LEMMA MinusType ==
    ASSUME countdowns_running \in 0..255, NEW k \in Nat
    PROVE  /\ Minus(k) \in 0..255
           /\ countdowns_running >= k => Minus(k) = countdowns_running - k
           /\ countdowns_running < k => Minus(k) = 0
BY DEF Minus

\* Running is a subset of the indices, hence finite.
LEMMA RunningFinite ==
    /\ IsFiniteSet(Running)
    /\ Cardinality(Running) \in 0..N
    /\ \A i \in Countdowns \ Running : Cardinality(Running) < N
<1>1. IsFiniteSet(Countdowns) /\ Cardinality(Countdowns) = N
  BY FS_Interval, NAssumption DEF Countdowns
<1>2. Running \in SUBSET Countdowns
  BY DEF Running
<1>3. IsFiniteSet(Running) /\ Cardinality(Running) <= N
      /\ (N = Cardinality(Running) => Countdowns = Running)
  BY <1>1, <1>2, FS_Subset
<1> QED BY <1>3, FS_CardinalityType, NAssumption

\* The pass stops a finite set of entries, no more than there are running.
LEMMA ExpiringFinite ==
    /\ IsFiniteSet(Expiring)
    /\ Cardinality(Expiring) \in Nat
    /\ Cardinality(Running \ Expiring) = Cardinality(Running) - Cardinality(Expiring)
    /\ Cardinality(Running \ Expiring) \in Nat
<1>1. Expiring \in SUBSET Running
  BY DEF Expiring
<1>2. IsFiniteSet(Expiring) /\ Cardinality(Expiring) \in Nat
  BY <1>1, RunningFinite, FS_Subset, FS_CardinalityType
<1>3. Running \cap Expiring = Expiring
  BY <1>1
<1>4. Cardinality(Running \ Expiring) = Cardinality(Running) - Cardinality(Expiring)
      /\ IsFiniteSet(Running \ Expiring)
  BY <1>3, RunningFinite, FS_Difference
<1> QED BY <1>2, <1>4, FS_CardinalityType

-----------------------------------------------------------------------------
(* What each action does to the table, the set of running entries and the  *)
(* counter.                                                                *)

\* Starting marks one more entry; there are at most 255, so the counter does
\* not wrap.
LEMMA StartStep ==
    ASSUME TypeOK, NEW i \in Countdowns, svc_countdowns[i].state = "STOP",
           svc_countdown_start(i), countdowns_running <= Cardinality(Running)
    PROVE  /\ TypeOK'
           /\ Cardinality(Running)' = Cardinality(Running) + 1
           /\ countdowns_running' = countdowns_running + 1
<1> USE DEF TypeOK
<1>1. i \notin Running /\ Cardinality(Running) < N
  BY RunningFinite DEF Running
<1>2. countdowns_running' = countdowns_running + 1 /\ countdowns_running' \in 0..255
  <2>1. countdowns_running + 1 \in 0..255
    BY <1>1, RunningFinite, NAssumption
  <2> QED BY <2>1 DEF svc_countdown_start
<1>3. svc_countdowns' \in [Countdowns -> CountdownT]
  BY DEF svc_countdown_start, CountdownT
<1>4. Running' = Running \union {i}
  BY DEF svc_countdown_start, Running, CountdownT
<1>5. Cardinality(Running') = Cardinality(Running) + 1
  BY <1>1, <1>4, RunningFinite, FS_AddElement
<1> QED BY <1>2, <1>3, <1>5 DEF svc_countdown_start

\* Stopping a running entry unmarks it.
LEMMA StopStep ==
    ASSUME TypeOK, NEW i \in Countdowns, svc_countdowns[i].state # "STOP",
           svc_countdown_stop(i)
    PROVE  /\ TypeOK'
           /\ Cardinality(Running)' = Cardinality(Running) - 1
           /\ countdowns_running' = Minus(1)
<1> USE DEF TypeOK
<1>1. i \in Running
  BY DEF Running, CountdownT
<1>2. svc_countdowns' = [svc_countdowns EXCEPT ![i] = Stopped(svc_countdowns[i])]
  BY DEF svc_countdown_stop
<1>3. Stopped(svc_countdowns[i]) \in CountdownT
      /\ Stopped(svc_countdowns[i]).state = "STOP"
  BY StoppedType
<1>4. svc_countdowns' \in [Countdowns -> CountdownT]
  BY <1>2, <1>3
<1>5. Running' = Running \ {i}
  BY <1>2, <1>3 DEF Running
<1>6. Cardinality(Running') = Cardinality(Running) - 1
  BY <1>1, <1>5, RunningFinite, FS_RemoveElement
<1> QED BY <1>4, <1>6, MinusType DEF svc_countdown_stop

\* Whatever digit is moved, the entry is given a time the editor allows.
LEMMA TimeSet ==
    ASSUME TypeOK, NEW i \in Countdowns, NEW step \in Steps, time_set(i, step)
    PROVE  \E h \in 0..MaxHour, m \in 0..(Base - 1), s \in 0..(Base - 1) :
               svc_countdown_set_time(i, h, m, s)
<1> USE DEF TypeOK
<1>1. /\ svc_countdowns[i].h \in 0..MaxHour
      /\ svc_countdowns[i].m \in 0..(Base - 1)
      /\ svc_countdowns[i].s \in 0..(Base - 1)
  BY DEF CountdownT
<1>2. step \in Int /\ MaxHour \in Nat /\ Base - 1 \in Nat
  BY BaseAssumption DEF Steps
<1>3. /\ Clamp(svc_countdowns[i].h + step, MaxHour) \in 0..MaxHour
      /\ Clamp(svc_countdowns[i].m + step, Base - 1) \in 0..(Base - 1)
      /\ Clamp(svc_countdowns[i].s + step, Base - 1) \in 0..(Base - 1)
  <2>1. /\ svc_countdowns[i].h + step \in Int
        /\ svc_countdowns[i].m + step \in Int
        /\ svc_countdowns[i].s + step \in Int
    BY <1>1, <1>2
  <2> QED BY <1>2, <2>1, ClampType
<1>4. QED
  <2> DEFINE cd == svc_countdowns[i]
             ch == Clamp(cd.h + step, MaxHour)
             cm == Clamp(cd.m + step, Base - 1)
             cs == Clamp(cd.s + step, Base - 1)
  <2>1. \/ svc_countdown_set_time(i, ch, cd.m, cd.s)
        \/ svc_countdown_set_time(i, cd.h, cm, cd.s)
        \/ svc_countdown_set_time(i, cd.h, cd.m, cs)
    BY Zenon DEF time_set
  <2>2. /\ cd.h \in 0..MaxHour /\ cd.m \in 0..(Base - 1) /\ cd.s \in 0..(Base - 1)
        /\ ch \in 0..MaxHour /\ cm \in 0..(Base - 1) /\ cs \in 0..(Base - 1)
    BY <1>1, <1>3
  <2> HIDE DEF cd, ch, cm, cs
  <2> QED BY <2>1, <2>2, Zenon

\* Editing a time touches neither the states nor the counter.
LEMMA EditStep ==
    ASSUME TypeOK, NEW i \in Countdowns, NEW step \in Steps, time_set(i, step)
    PROVE  /\ TypeOK'
           /\ Running' = Running
           /\ countdowns_running' = countdowns_running
<1> USE DEF TypeOK
<1>5. PICK h \in 0..MaxHour, m \in 0..(Base - 1), s \in 0..(Base - 1) :
          svc_countdown_set_time(i, h, m, s)
  BY TimeSet
<1>6. svc_countdowns' \in [Countdowns -> CountdownT]
      /\ \A j \in Countdowns : svc_countdowns'[j].state = svc_countdowns[j].state
  <2>1. svc_countdowns' = [svc_countdowns EXCEPT ![i] = Edited(svc_countdowns[i], h, m, s)]
    BY <1>5 DEF svc_countdown_set_time
  <2>2. /\ Edited(svc_countdowns[i], h, m, s) \in CountdownT
        /\ Edited(svc_countdowns[i], h, m, s).state = svc_countdowns[i].state
    BY EditedType
  <2> QED BY <2>1, <2>2
<1>7. Running' = Running
  BY <1>6 DEF Running
<1> QED BY <1>5, <1>6, <1>7 DEF svc_countdown_set_time

\* The pass unmarks the entries that were at zero.
LEMMA ProcessStep ==
    ASSUME TypeOK, svc_countdown_process
    PROVE  /\ TypeOK'
           /\ Running' = Running \ Expiring
           /\ countdowns_running' = Minus(Cardinality(Expiring))
<1> USE DEF TypeOK
<1>1. \A i \in Countdowns : svc_countdowns'[i] = svc_countdown_dec(svc_countdowns[i])
  BY DEF svc_countdown_process
<1>2. svc_countdowns' \in [Countdowns -> CountdownT]
  BY DecEffect DEF svc_countdown_process
<1>3. countdowns_running' = Minus(Cardinality(Expiring))
      /\ countdowns_running' \in 0..255
  BY ExpiringFinite, MinusType DEF svc_countdown_process
<1>4. countdown_pending' \in Countdowns \union {NO_COUNTDOWN_PENDING}
  BY DEF svc_countdown_process, Expiring, Running
<1>5. Running' = Running \ Expiring
  BY <1>1, DecEffect DEF Running, Expiring
<1> QED BY <1>2, <1>3, <1>4, <1>5

-----------------------------------------------------------------------------
(* NeverOvercounts, with and without resets.                               *)

\* The inductive invariant: TypeOK is needed for the sets to be finite.
CountInv == TypeOK /\ NeverOvercounts

LEMMA InitRunning == Init => TypeOK /\ Running = {} /\ countdowns_running = 0
<1> SUFFICES ASSUME Init PROVE TypeOK /\ Running = {} /\ countdowns_running = 0
  OBVIOUS
<1>1. 0 \in 0..MaxHour /\ 0 \in 0..(Base - 1) /\ FirstSeconds \in 0..(Base - 1)
  BY BaseAssumption
<1>2. svc_countdowns \in [Countdowns -> CountdownT]
  BY <1>1 DEF Init, CountdownT
<1>3. Running = {}
  BY DEF Init, Running
<1> QED BY <1>2, <1>3 DEF Init, TypeOK

LEMMA CountInvInit == Init => CountInv
BY InitRunning, FS_EmptySet DEF CountInv, NeverOvercounts

LEMMA CountInvStep == CountInv /\ [NextWithResets]_vars => CountInv'
<1> SUFFICES ASSUME CountInv, [NextWithResets]_vars PROVE CountInv'
  OBVIOUS
<1> USE DEF CountInv, NeverOvercounts
<1>0. countdowns_running \in 0..255
      /\ Cardinality(Running) \in Nat /\ Cardinality(Expiring) \in Nat
      /\ Cardinality(Running \ Expiring) = Cardinality(Running) - Cardinality(Expiring)
      /\ Cardinality(Running \ Expiring) \in Nat
  BY RunningFinite, ExpiringFinite, NAssumption DEF TypeOK
<1>1. ASSUME NEW i \in Countdowns, start_stop(i) PROVE CountInv'
  <2>1. CASE svc_countdowns[i].state = "STOP" /\ svc_countdown_start(i)
    BY <1>0, <2>1, StartStep
  <2>2. CASE svc_countdowns[i].state # "STOP" /\ svc_countdown_stop(i)
    <3>1. i \in Running
      BY <2>2 DEF TypeOK, Running, CountdownT
    <3>2. Cardinality(Running) # 0
      BY <3>1, RunningFinite, FS_EmptySet
    <3> QED BY <1>0, <2>2, <3>2, StopStep, MinusType
  <2> QED BY <1>1, <2>1, <2>2 DEF start_stop
<1>2. ASSUME NEW i \in Countdowns, NEW step \in Steps, time_set(i, step)
      PROVE  CountInv'
  BY <1>2, EditStep
<1>3. CASE svc_countdown_clear_pending
  BY <1>3 DEF svc_countdown_clear_pending, TypeOK, Running
<1>4. CASE svc_countdown_process
  <2>1. TypeOK' /\ Running' = Running \ Expiring
        /\ countdowns_running' = Minus(Cardinality(Expiring))
    BY <1>4, ProcessStep
  <2> QED BY <1>0, <2>1, MinusType
<1>5. CASE Reset
  <2>1. TypeOK' /\ Running' = Running /\ countdowns_running' = 0
    BY <1>5 DEF Reset, TypeOK, Running
  <2> QED BY <1>0, <2>1
<1>6. CASE UNCHANGED vars
  BY <1>6 DEF vars, TypeOK, Running
<1> QED BY <1>1, <1>2, <1>3, <1>4, <1>5, <1>6 DEF NextWithResets, Next

\* Every variable keeps its type, resets or not (the bytes of countdown.c).
THEOREM TypeCorrect == SpecWithResets => []TypeOK
<1>1. CountInv => TypeOK
  BY DEF CountInv
<1> QED BY <1>1, CountInvInit, CountInvStep, PTL DEF SpecWithResets

\* countdowns_running never exceeds the number of entries marked RUN, for any
\* number of countdowns, whatever the user and the resets do.
THEOREM CounterNeverAbove == SpecWithResets => []NeverOvercounts
<1>1. CountInv => NeverOvercounts
  BY DEF CountInv
<1> QED BY <1>1, CountInvInit, CountInvStep, PTL DEF SpecWithResets

\* The difference between the two is a number, before and after a step.
UncountedIsInt == Uncounted \in Int

LEMMA UncountedType == CountInv => UncountedIsInt
BY RunningFinite, NAssumption DEF CountInv, TypeOK, Uncounted, UncountedIsInt

LEMMA UncountedTypeNext == CountInv /\ [NextWithResets]_vars => UncountedIsInt'
BY UncountedType, CountInvStep, PTL

\* Only a reset loses count of running countdowns: starting, stopping,
\* editing, acknowledging and expiring never make the difference larger.
THEOREM LossOnlyByReset == SpecWithResets => OnlyResetsLoseCount
<1> DEFINE Lossless == Uncounted' > Uncounted
               => countdowns_running' = 0 /\ svc_countdowns' = svc_countdowns
<1>1. CountInv /\ [NextWithResets]_vars => [Lossless]_vars
  <2> SUFFICES ASSUME CountInv, NextWithResets, ~Reset PROVE Uncounted' <= Uncounted
    <3>1. ASSUME CountInv, NextWithResets, Reset PROVE Lossless
      BY <3>1 DEF Reset
    <3> QED BY <3>1, UncountedType, UncountedTypeNext DEF UncountedIsInt
  <2> USE DEF CountInv, NeverOvercounts, Uncounted
  <2>0. countdowns_running \in 0..255
        /\ Cardinality(Running) \in Nat /\ Cardinality(Expiring) \in Nat
        /\ Cardinality(Running \ Expiring) = Cardinality(Running) - Cardinality(Expiring)
        /\ Cardinality(Running \ Expiring) \in Nat
    BY RunningFinite, ExpiringFinite, NAssumption DEF TypeOK
  <2>1. ASSUME NEW i \in Countdowns, start_stop(i) PROVE Uncounted' <= Uncounted
    <3>1. CASE svc_countdowns[i].state = "STOP" /\ svc_countdown_start(i)
      BY <2>0, <3>1, StartStep
    <3>2. CASE svc_countdowns[i].state # "STOP" /\ svc_countdown_stop(i)
      <4>1. countdowns_running' = Minus(1)
            /\ Cardinality(Running)' = Cardinality(Running) - 1
        BY <3>2, StopStep
      <4> QED BY <2>0, <4>1, MinusType DEF TypeOK
    <3> QED BY <2>1, <3>1, <3>2 DEF start_stop
  <2>2. ASSUME NEW i \in Countdowns, NEW step \in Steps, time_set(i, step)
        PROVE  Uncounted' <= Uncounted
    BY <2>0, <2>2, EditStep
  <2>3. CASE svc_countdown_clear_pending
    BY <2>0, <2>3 DEF svc_countdown_clear_pending, Running
  <2>4. CASE svc_countdown_process
    <3>1. Running' = Running \ Expiring
          /\ countdowns_running' = Minus(Cardinality(Expiring))
      BY <2>4, ProcessStep
    <3> QED BY <2>0, <3>1, MinusType
  <2> QED BY <2>1, <2>2, <2>3, <2>4 DEF NextWithResets, Next
<1> QED BY <1>1, CountInvInit, CountInvStep, PTL DEF SpecWithResets, OnlyResetsLoseCount

-----------------------------------------------------------------------------
(* CounterExact, without resets.                                           *)

ExactInv == TypeOK /\ CounterExact

LEMMA ExactInvInit == Init => ExactInv
BY InitRunning, FS_EmptySet DEF ExactInv, CounterExact

LEMMA ExactInvStep == ExactInv /\ [Next]_vars => ExactInv'
<1> SUFFICES ASSUME ExactInv, [Next]_vars PROVE ExactInv'
  OBVIOUS
<1> USE DEF ExactInv, CounterExact
<1>0. countdowns_running \in 0..255
      /\ Cardinality(Running) \in Nat /\ Cardinality(Expiring) \in Nat
      /\ Cardinality(Running \ Expiring) = Cardinality(Running) - Cardinality(Expiring)
      /\ Cardinality(Running \ Expiring) \in Nat
  BY RunningFinite, ExpiringFinite, NAssumption DEF TypeOK
<1>1. ASSUME NEW i \in Countdowns, start_stop(i) PROVE ExactInv'
  <2>1. CASE svc_countdowns[i].state = "STOP" /\ svc_countdown_start(i)
    BY <1>0, <2>1, StartStep
  <2>2. CASE svc_countdowns[i].state # "STOP" /\ svc_countdown_stop(i)
    <3>1. i \in Running
      BY <2>2 DEF TypeOK, Running, CountdownT
    <3>2. Cardinality(Running) # 0
      BY <3>1, RunningFinite, FS_EmptySet
    <3> QED BY <1>0, <2>2, <3>2, StopStep, MinusType
  <2> QED BY <1>1, <2>1, <2>2 DEF start_stop
<1>2. ASSUME NEW i \in Countdowns, NEW step \in Steps, time_set(i, step)
      PROVE  ExactInv'
  BY <1>2, EditStep
<1>3. CASE svc_countdown_clear_pending
  BY <1>3 DEF svc_countdown_clear_pending, TypeOK, Running
<1>4. CASE svc_countdown_process
  <2>1. TypeOK' /\ Running' = Running \ Expiring
        /\ countdowns_running' = Minus(Cardinality(Expiring))
    BY <1>4, ProcessStep
  <2> QED BY <1>0, <2>1, MinusType
<1>5. CASE UNCHANGED vars
  BY <1>5 DEF vars, TypeOK, Running
<1> QED BY <1>1, <1>2, <1>3, <1>4, <1>5 DEF Next

\* As long as the watch is not reset the counter is the number of entries
\* marked RUN, so no running countdown is ever skipped by the pass.
THEOREM CounterIsExact == Spec => []CounterExact
<1>1. ExactInv => CounterExact
  BY DEF ExactInv
<1> QED BY <1>1, ExactInvInit, ExactInvStep, PTL DEF Spec

-----------------------------------------------------------------------------
(* The service implements CountdownAbs.                                    *)

\* The exact counter is what makes svc_countdown_process look at the entries;
\* it is exact until a reset finds one running.
RefInv == CountInv /\ lost \in BOOLEAN /\ (~lost => CounterExact)

LEMMA RefInvInit == MCInit => RefInv
BY CountInvInit, ExactInvInit DEF MCInit, ExactInv, RefInv

LEMMA RefInvStep == RefInv /\ [MCNext]_MCvars => RefInv'
<1> SUFFICES ASSUME RefInv, [MCNext]_MCvars PROVE RefInv'
  OBVIOUS
<1> USE DEF RefInv
<1>1. CountInv'
  BY CountInvStep DEF MCNext, MCvars, NextWithResets
<1>2. CASE Next /\ UNCHANGED lost
  BY <1>1, <1>2, ExactInvStep DEF ExactInv, CountInv
<1>3. CASE Reset /\ lost' = (lost \/ Running # {})
  <2>1. lost' \in BOOLEAN /\ (~lost' => Running = {})
    BY <1>3
  <2>2. Running = {} => CounterExact'
    BY <1>3, FS_EmptySet DEF Reset, CounterExact, Running
  <2> QED BY <1>1, <2>1, <2>2
<1>4. CASE UNCHANGED MCvars
  BY <1>1, <1>4 DEF MCvars, vars, CounterExact, Running
<1> QED BY <1>2, <1>3, <1>4 DEF MCNext

\* Times as numbers of seconds.
Longest == InSeconds(MaxHour, Base - 1, Base - 1)

LEMMA TimesMonotone ==
    ASSUME NEW a \in Nat, NEW b \in Nat, NEW c \in Nat, a <= b
    PROVE  a * c \in Nat /\ a * c <= b * c
<1>1. PICK d \in Nat : b = a + d
  <2>1. b - a \in Nat /\ b = a + (b - a)
    OBVIOUS
  <2> QED BY <2>1
<1>2. a * c \in Nat /\ d * c \in Nat /\ b * c = a * c + d * c
  BY <1>1
<1> QED BY <1>2

LEMMA SecondsType ==
    ASSUME NEW h \in 0..MaxHour, NEW m \in 0..(Base - 1), NEW s \in 0..(Base - 1)
    PROVE  /\ InSeconds(h, m, s) \in 0..Longest
           /\ InSeconds(h, m, s) = 0 <=> h = 0 /\ m = 0 /\ s = 0
<1> DEFINE a == h * Base
           b == MaxHour * Base
           c == (a + m) * Base
           d == (b + (Base - 1)) * Base
<1>1. a \in Nat /\ b \in Nat /\ a <= b
  BY TimesMonotone, BaseAssumption
<1>2. h = 0 <=> a = 0
  <2>1. h > 0 => Base <= a
    <3>1. h > 0 => 1 * Base <= h * Base
      BY TimesMonotone, BaseAssumption
    <3> QED BY <3>1, BaseAssumption
  <2>2. h = 0 => a = 0
    BY BaseAssumption
  <2> QED BY <2>1, <2>2, BaseAssumption
<1> HIDE DEF a, b
<1>3. c \in Nat /\ d \in Nat /\ c <= d
  <2>1. a + m \in Nat /\ b + (Base - 1) \in Nat /\ a + m <= b + (Base - 1) /\ Base \in Nat
    BY <1>1, BaseAssumption
  <2> QED BY <2>1, TimesMonotone
<1>4. a + m = 0 <=> c = 0
  <2>1. a + m \in Nat
    BY <1>1, BaseAssumption
  <2>2. a + m > 0 => 1 * Base <= c
    BY <2>1, TimesMonotone, BaseAssumption
  <2> QED BY <2>1, <2>2, BaseAssumption
<1> HIDE DEF c, d
<1>5. InSeconds(h, m, s) = c + s /\ Longest = d + (Base - 1)
  BY DEF InSeconds, Longest, a, b, c, d
<1> QED BY <1>1, <1>2, <1>3, <1>4, <1>5, BaseAssumption

\* The borrow through three fields takes away one second.
LEMMA SecondTaken ==
    ASSUME NEW cd \in CountdownT, ~AtZero(cd)
    PROVE  LET t == Decremented(cd) IN
           /\ InSeconds(t.h, t.m, t.s) = InSeconds(cd.h, cd.m, cd.s) - 1
           /\ t.sh = cd.sh /\ t.sm = cd.sm /\ t.ss = cd.ss
<1> DEFINE s == Borrow(cd.s, TRUE)
           m == Borrow(cd.m, cd.s = 0)
           h == Borrow(cd.h, cd.s = 0 /\ cd.m = 0)
           t == Decremented(cd)
<1> SUFFICES /\ InSeconds(t.h, t.m, t.s) = InSeconds(cd.h, cd.m, cd.s) - 1
             /\ t.sh = cd.sh /\ t.sm = cd.sm /\ t.ss = cd.ss
  OBVIOUS
<1>1. t.h = h /\ t.m = m /\ t.s = s /\ t.sh = cd.sh /\ t.sm = cd.sm /\ t.ss = cd.ss
  BY DEF Decremented, CountdownT
<1>2. cd.h \in 0..MaxHour /\ cd.m \in 0..(Base - 1) /\ cd.s \in 0..(Base - 1) /\ Base \in Nat
  BY BaseAssumption DEF CountdownT
<1>3. \A x \in Int : (x - 1) * Base = x * Base - Base
  BY <1>2
<1>4. cd.h * Base \in Int /\ MaxHour \in Nat
  BY <1>2, BaseAssumption
<1> DEFINE before == (cd.h * Base + cd.m) * Base
           after == (h * Base + m) * Base
<1>5. before \in Int /\ after + s = before + cd.s - 1
  <2>1. before \in Int
    BY <1>2, <1>4
  <2>2. CASE cd.s # 0
    <3>1. s = cd.s - 1 /\ m = cd.m /\ h = cd.h
      BY <2>2 DEF Borrow
    <3>2. after = before
      BY <3>1
    <3> HIDE DEF before, after, s, m, h
    <3> QED BY <1>2, <2>1, <3>1, <3>2
  <2>3. CASE cd.s = 0 /\ cd.m # 0
    <3>1. s = Base - 1 /\ m = cd.m - 1 /\ h = cd.h
      BY <2>3 DEF Borrow
    <3>2. cd.h * Base + cd.m \in Int /\ h * Base + m = (cd.h * Base + cd.m) - 1
      BY <1>2, <1>4, <3>1
    <3>3. after = before - Base
      BY <1>3, <3>2
    <3> HIDE DEF before, after, s, m, h
    <3> QED BY <1>2, <2>1, <2>3, <3>1, <3>3
  <2>4. CASE cd.s = 0 /\ cd.m = 0
    <3>1. s = Base - 1 /\ m = Base - 1 /\ h = cd.h - 1
      BY <2>4 DEF Borrow, AtZero
    <3>2. h * Base = cd.h * Base - Base
      BY <1>2, <1>3, <3>1
    <3>3. h * Base + m = (cd.h * Base + cd.m) - 1 /\ cd.h * Base + cd.m \in Int
      BY <1>2, <1>4, <2>4, <3>1, <3>2
    <3>4. after = before - Base
      BY <1>3, <3>3
    <3> HIDE DEF before, after, s, m, h
    <3> QED BY <1>2, <2>1, <2>4, <3>1, <3>4
  <2> QED BY <2>2, <2>3, <2>4
<1>6. InSeconds(t.h, t.m, t.s) = after + s /\ InSeconds(cd.h, cd.m, cd.s) = before + cd.s
  BY <1>1 DEF InSeconds
<1> HIDE DEF before, after, s, m, h, t
<1> QED BY <1>1, <1>2, <1>5, <1>6

LEMMA BarTypes ==
    ASSUME TypeOK, NEW i \in Countdowns
    PROVE  /\ remainingBar[i] \in 0..Longest /\ reloadBar[i] \in 0..Longest
           /\ remainingBar[i] = 0 <=> AtZero(svc_countdowns[i])
<1>1. svc_countdowns[i] \in CountdownT
  BY DEF TypeOK
<1>2. /\ svc_countdowns[i].h \in 0..MaxHour /\ svc_countdowns[i].sh \in 0..MaxHour
      /\ svc_countdowns[i].m \in 0..(Base - 1) /\ svc_countdowns[i].sm \in 0..(Base - 1)
      /\ svc_countdowns[i].s \in 0..(Base - 1) /\ svc_countdowns[i].ss \in 0..(Base - 1)
  BY <1>1 DEF CountdownT
<1> QED BY <1>2, SecondsType DEF remainingBar, reloadBar, AtZero

LEMMA AbsStart ==
    ASSUME RefInv, NEW i \in Countdowns, svc_countdowns[i].state = "STOP", svc_countdown_start(i)
    PROVE  Abs!Start(i)
<1> USE DEF RefInv, CountInv, TypeOK
<1>1. svc_countdowns' = [svc_countdowns EXCEPT ![i].state = "RUN"] /\ countdown_pending' = countdown_pending
  BY DEF svc_countdown_start
<1>2. \A j \in Countdowns :
         /\ svc_countdowns'[j].h = svc_countdowns[j].h /\ svc_countdowns'[j].sh = svc_countdowns[j].sh
         /\ svc_countdowns'[j].m = svc_countdowns[j].m /\ svc_countdowns'[j].sm = svc_countdowns[j].sm
         /\ svc_countdowns'[j].s = svc_countdowns[j].s /\ svc_countdowns'[j].ss = svc_countdowns[j].ss
  BY <1>1 DEF CountdownT
<1>3. remainingBar' = remainingBar /\ reloadBar' = reloadBar
  BY <1>2 DEF remainingBar, reloadBar
<1>4. i \notin Running /\ Running' = Running \union {i}
  BY <1>1 DEF Running, CountdownT
<1> QED BY <1>1, <1>3, <1>4 DEF Abs!Start

LEMMA AbsStop ==
    ASSUME RefInv, NEW i \in Countdowns, svc_countdowns[i].state # "STOP", svc_countdown_stop(i)
    PROVE  Abs!Stop(i)
<1> USE DEF RefInv, CountInv, TypeOK
<1> DEFINE cd == svc_countdowns[i]
           t == Stopped(cd)
<1>1. svc_countdowns' = [svc_countdowns EXCEPT ![i] = t] /\ countdown_pending' = countdown_pending
  BY DEF svc_countdown_stop
<1>2. /\ t.state = "STOP" /\ t.h = cd.sh /\ t.m = cd.sm /\ t.s = cd.ss
      /\ t.sh = cd.sh /\ t.sm = cd.sm /\ t.ss = cd.ss
  BY DEF Stopped, CountdownT
<1> HIDE DEF t
<1>3. svc_countdowns'[i] = t /\ \A j \in Countdowns \ {i} : svc_countdowns'[j] = svc_countdowns[j]
  BY <1>1
<1>4. i \in Running /\ Running' = Running \ {i}
  BY <1>2, <1>3 DEF Running, CountdownT
<1>5. remainingBar' = [remainingBar EXCEPT ![i] = reloadBar[i]]
  BY <1>2, <1>3 DEF remainingBar, reloadBar
<1>6. reloadBar' = reloadBar
  BY <1>2, <1>3 DEF reloadBar
<1> QED BY <1>1, <1>4, <1>5, <1>6 DEF Abs!Stop

LEMMA AbsSet ==
    ASSUME RefInv, NEW i \in Countdowns, NEW step \in Steps, time_set(i, step)
    PROVE  Abs!Set(i)
<1> USE DEF RefInv, CountInv, TypeOK
<1>1. PICK h \in 0..MaxHour, m \in 0..(Base - 1), s \in 0..(Base - 1) :
          svc_countdown_set_time(i, h, m, s)
  BY TimeSet
<1> DEFINE cd == svc_countdowns[i]
           t == Edited(cd, h, m, s)
           time == InSeconds(h, m, s)
<1>2. svc_countdowns' = [svc_countdowns EXCEPT ![i] = t] /\ countdown_pending' = countdown_pending
  BY <1>1 DEF svc_countdown_set_time
<1>3. /\ t.state = cd.state /\ t.h = h /\ t.m = m /\ t.s = s /\ t.sh = h /\ t.sm = m /\ t.ss = s
  BY DEF Edited, CountdownT
<1> HIDE DEF t
<1>4. svc_countdowns'[i] = t /\ \A j \in Countdowns \ {i} : svc_countdowns'[j] = svc_countdowns[j]
  BY <1>2
<1>5. Running' = Running
  BY <1>3, <1>4 DEF Running
<1>6. /\ remainingBar' = [remainingBar EXCEPT ![i] = time]
      /\ reloadBar' = [reloadBar EXCEPT ![i] = time]
  BY <1>3, <1>4 DEF remainingBar, reloadBar
<1>7. time \in 0..Longest
  BY SecondsType
<1> HIDE DEF time
<1> QED BY <1>2, <1>5, <1>6, <1>7 DEF Abs!Set, Longest

\* One pass of the table is one second for the running countdowns.
LEMMA AbsSecond ==
    ASSUME RefInv, ~lost, svc_countdown_process, UNCHANGED lost
    PROVE  Abs!Second
<1> USE DEF RefInv, CountInv
<1>1. Running # {}
  <2>1. Cardinality(Running) > 0
    BY DEF svc_countdown_process, CounterExact
  <2> QED BY <2>1, FS_EmptySet
<1>2. Abs!Expired = Expiring
  BY BarTypes DEF Abs!Expired, Expiring, Running
<1>3. Running' = Running \ Expiring
  BY ProcessStep
<1>4. \A i \in Countdowns : svc_countdowns'[i] = svc_countdown_dec(svc_countdowns[i])
  BY DEF svc_countdown_process
<1>5. ASSUME NEW i \in Countdowns
      PROVE  /\ reloadBar'[i] = reloadBar[i]
             /\ remainingBar'[i] = IF i \in Expiring THEN reloadBar[i]
                                   ELSE IF i \in Running THEN remainingBar[i] - 1
                                   ELSE remainingBar[i]
  <2> DEFINE cd == svc_countdowns[i]
  <2>1. cd \in CountdownT /\ svc_countdowns'[i] = svc_countdown_dec(cd)
    BY <1>4 DEF TypeOK
  <2>2. CASE i \notin Running
    BY <2>1, <2>2 DEF svc_countdown_dec, Running, Expiring, remainingBar, reloadBar
  <2>3. CASE i \in Expiring
    <3>1. svc_countdowns'[i] = Stopped(cd)
      BY <2>1, <2>3 DEF svc_countdown_dec, Running, Expiring
    <3>2. /\ Stopped(cd).h = cd.sh /\ Stopped(cd).m = cd.sm /\ Stopped(cd).s = cd.ss
          /\ Stopped(cd).sh = cd.sh /\ Stopped(cd).sm = cd.sm /\ Stopped(cd).ss = cd.ss
      BY <2>1 DEF Stopped, CountdownT
    <3> QED BY <2>3, <3>1, <3>2 DEF remainingBar, reloadBar
  <2>4. CASE i \in Running \ Expiring
    <3>1. svc_countdowns'[i] = Decremented(cd) /\ ~AtZero(cd)
      BY <2>1, <2>4 DEF svc_countdown_dec, Running, Expiring
    <3>2. LET t == Decremented(cd) IN
          /\ InSeconds(t.h, t.m, t.s) = InSeconds(cd.h, cd.m, cd.s) - 1
          /\ t.sh = cd.sh /\ t.sm = cd.sm /\ t.ss = cd.ss
      BY <2>1, <3>1, SecondTaken
    <3> QED BY <2>4, <3>1, <3>2 DEF remainingBar, reloadBar
  <2> QED BY <2>2, <2>3, <2>4
<1>6. reloadBar' = reloadBar
  <2>1. reloadBar = [i \in Countdowns |-> reloadBar[i]] /\ reloadBar' = [i \in Countdowns |-> reloadBar'[i]]
    BY DEF reloadBar
  <2> QED BY <1>5, <2>1
<1>7. remainingBar' = [i \in Countdowns |->
          IF i \in Expiring THEN reloadBar[i]
          ELSE IF i \in Running THEN remainingBar[i] - 1 ELSE remainingBar[i]]
  <2>1. remainingBar' = [i \in Countdowns |-> remainingBar'[i]]
    BY DEF remainingBar
  <2> HIDE DEF remainingBar
  <2> QED BY <1>5, <2>1
<1>8. countdown_pending' \in IF Expiring = {} THEN {countdown_pending} ELSE Expiring
  BY DEF svc_countdown_process
<1> QED BY <1>1, <1>2, <1>3, <1>6, <1>7, <1>8 DEF Abs!Second

LEMMA AbsInit == MCInit => Abs!Init
<1> SUFFICES ASSUME MCInit PROVE Abs!Init
  OBVIOUS
<1>1. TypeOK /\ Running = {} /\ lost = FALSE /\ countdown_pending = NO_COUNTDOWN_PENDING
  BY InitRunning DEF MCInit, Init
<1>2. remainingBar \in [Countdowns -> 0..Longest] /\ reloadBar \in [Countdowns -> 0..Longest]
  <2>1. \A i \in Countdowns : remainingBar[i] \in 0..Longest /\ reloadBar[i] \in 0..Longest
    BY <1>1, BarTypes
  <2>2. /\ remainingBar = [i \in Countdowns |-> remainingBar[i]]
        /\ reloadBar = [i \in Countdowns |-> reloadBar[i]]
    BY DEF remainingBar, reloadBar
  <2> QED BY <2>1, <2>2
<1> QED BY <1>1, <1>2 DEF Abs!Init, Longest

\* A step of the service, seen in seconds.
LEMMA AbsStep == RefInv /\ [MCNext]_MCvars => [Abs!Next]_Abs!vars
<1> SUFFICES ASSUME RefInv, [MCNext]_MCvars PROVE Abs!Next \/ UNCHANGED Abs!vars
  OBVIOUS
<1>1. ASSUME lost' PROVE Abs!Next
  BY <1>1 DEF Abs!Next
<1>2. ASSUME ~lost, lost' = lost, Abs!Kept PROVE Abs!Next
  BY <1>2 DEF Abs!Next
<1>3. CASE Next /\ UNCHANGED lost
  <2>1. CASE lost
    BY <1>1, <1>3, <2>1
  <2>2. CASE ~lost
    <3>1. ASSUME NEW i \in Countdowns, start_stop(i) PROVE Abs!Kept
      BY <3>1, AbsStart, AbsStop DEF start_stop, Abs!Kept
    <3>2. ASSUME NEW i \in Countdowns, NEW step \in Steps, time_set(i, step) PROVE Abs!Kept
      BY <3>2, AbsSet DEF Abs!Kept
    <3>3. ASSUME svc_countdown_clear_pending PROVE Abs!Kept
      BY <3>3 DEF svc_countdown_clear_pending, Abs!Kept, Abs!Acknowledge, remainingBar,
                  reloadBar, Running
    <3>4. ASSUME svc_countdown_process PROVE Abs!Kept
      BY <1>3, <2>2, <3>4, AbsSecond DEF Abs!Kept
    <3> QED BY <1>2, <1>3, <2>2, <3>1, <3>2, <3>3, <3>4 DEF Next
  <2> QED BY <2>1, <2>2
<1>4. CASE Reset /\ lost' = (lost \/ Running # {})
  <2>1. CASE lost \/ Running # {}
    BY <1>1, <1>4, <2>1
  <2>2. CASE ~lost /\ Running = {}
    <3>1. lost' = lost
      BY <1>4, <2>2 DEF RefInv
    <3>2. Abs!Restart
      BY <1>4, <2>2 DEF Reset, Abs!Restart, remainingBar, reloadBar, Running
    <3> QED BY <1>2, <2>2, <3>1, <3>2 DEF Abs!Kept
  <2> QED BY <2>1, <2>2
<1>5. CASE UNCHANGED MCvars
  BY <1>5 DEF MCvars, vars, Abs!vars, remainingBar, reloadBar, Running
<1> QED BY <1>3, <1>4, <1>5 DEF MCNext

\* The table of hours, minutes and seconds with its borrows, its reload and its
\* counter is a set of numbers of seconds that go down together, until a reset
\* finds a countdown running: the safety part of ImplementsCountdownAbs.
THEOREM RefinesCountdownAbs == MCSpec => Abs!Init /\ [][Abs!Next]_Abs!vars
<1>1. MCSpec => []RefInv
  BY RefInvInit, RefInvStep, PTL DEF MCSpec
<1> QED BY <1>1, AbsInit, AbsStep, PTL DEF MCSpec
==============================================================================
