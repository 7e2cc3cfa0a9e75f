---------------------------- MODULE ChronoProofs ----------------------------
(***************************************************************************)
(* n_running counts the chronographs that are not stopped, and they have   *)
(* the auxiliary timer, for every range of the counters.                   *)
(*                                                                         *)
(* A subset of two chronographs is counted member by member, so that each  *)
(* action is shown to change the two sides of CountExact alike.            *)
(***************************************************************************)
EXTENDS Chrono, FiniteSetTheorems, TLAPS

USE RangeAssumption DEF STOPWATCH, SPEED

One(i, S) == IF i \in S THEN 1 ELSE 0

\* The cardinality of a set of chronographs, member by member.
LEMMA SizeOfPair ==
    ASSUME NEW S \in SUBSET Chronos
    PROVE  Cardinality(S) = One(0, S) + One(1, S)
<1>1. Cardinality({}) = 0
  BY FS_EmptySet
<1>2. Cardinality({0}) = 1 /\ Cardinality({1}) = 1
  BY FS_Singleton
<1>3. Cardinality({0, 1}) = 2
  <2>1. IsFiniteSet({0}) /\ 1 \notin {0} /\ {0} \union {1} = {0, 1}
    BY FS_Singleton
  <2> QED
    BY <2>1, <1>2, FS_AddElement
<1>4. S = {} \/ S = {0} \/ S = {1} \/ S = {0, 1}
  BY DEF Chronos
<1> QED
  BY <1>1, <1>2, <1>3, <1>4 DEF One

LEMMA SizeOfChronos == Cardinality(Chronos) = 2
  BY SizeOfPair DEF One, Chronos

-----------------------------------------------------------------------------
(* The values of the records.                                              *)

LEMMA LaterType == ASSUME NEW t \in Times PROVE Later(t) \in Times
<1>1. CASE t.subsec + 1 < Subsecs
  BY <1>1 DEF Times, Later
<1>2. CASE ~(t.subsec + 1 < Subsecs) /\ t.sec + 1 < Secs
  <2>1. t.sec \in 0..Secs - 1 /\ 0 \in 0..Subsecs - 1
    BY DEF Times
  <2> QED
    BY <1>2, <2>1 DEF Times, Later
<1>3. CASE ~(t.subsec + 1 < Subsecs) /\ ~(t.sec + 1 < Secs)
  <2>1. (t.min + 1) % MinValues \in 0..MinValues - 1
    BY DEF Times
  <2> QED
    BY <1>3, <2>1 DEF Times, Later
<1> QED
  BY <1>1, <1>2, <1>3

LEMMA ZeroType == Zero \in Times
  BY DEF Zero, Times

LEMMA IncType == ASSUME NEW it \in Items PROVE svc_chro_inc(it) \in Items
  BY LaterType DEF Items, svc_chro_inc, States

\* The chronographs keep their types.
ItemsOK == chros \in [Chronos -> Items]

LEMMA ItemsKept == ItemsOK /\ [Next]_vars => ItemsOK'
<1> SUFFICES ASSUME ItemsOK, [Next]_vars PROVE ItemsOK'
  OBVIOUS
<1>1. ASSUME NEW i \in Chronos, svc_chro_start(i) \/ svc_chro_stop(i) PROVE ItemsOK'
  BY <1>1 DEF ItemsOK, Items, States, svc_chro_start, svc_chro_stop
<1>2. ASSUME NEW i \in Chronos, svc_chro_hold(i) PROVE ItemsOK'
  BY <1>2 DEF ItemsOK, Items, States, svc_chro_hold
<1>3. ASSUME NEW i \in Chronos, svc_chro_reset(i) \/ ResetAndStart(i) PROVE ItemsOK'
  BY <1>3, ZeroType DEF ItemsOK, Items, States, svc_chro_reset, ResetAndStart
<1>4. CASE svc_aux_timer_chro_handler
  BY <1>4, IncType DEF ItemsOK, svc_aux_timer_chro_handler
<1>5. CASE UNCHANGED vars
  BY <1>5 DEF ItemsOK, vars
<1> QED
  BY <1>1, <1>2, <1>3, <1>4, <1>5
     DEF Next, stopwatch_enter, stopwatch_down, time_startstop, Chronos

-----------------------------------------------------------------------------
(* Counting.                                                               *)

IInv == ItemsOK /\ CountExact /\ TimerKept /\ req_chro \in BOOLEAN

LEMMA CountIsNat == ItemsOK /\ CountExact => n_running \in 0..2
  BY SizeOfPair DEF CountExact, Running, One

\* A change of one chronograph's state is counted when it starts or stops.
LEMMA OneChanges ==
    ASSUME CountExact, NEW i \in Chronos,
           Running' = Running \union {i} \/ Running' = Running \ {i},
           n_running' = IF i \in Running /\ i \notin Running' THEN n_running - 1
                        ELSE IF i \notin Running /\ i \in Running' THEN n_running + 1
                        ELSE n_running
    PROVE  CountExact'
<1>1. Cardinality(Running) = One(0, Running) + One(1, Running)
  BY SizeOfPair DEF Running
<1>2. Cardinality(Running') = One(0, Running') + One(1, Running')
  BY SizeOfPair DEF Running
<1> QED
  BY <1>1, <1>2 DEF CountExact, One, Chronos

LEMMA CountKept ==
    ASSUME IInv, [Next]_vars
    PROVE  CountExact'
<1> USE CountIsNat DEF IInv
<1>1. ASSUME NEW i \in Chronos, svc_chro_start(i) \/ (ResetAndStart(i) /\ ~Runs(i))
      PROVE  CountExact'
  <2>1. Running' = Running \union {i}
    BY <1>1 DEF svc_chro_start, ResetAndStart, Running, Runs, State, ItemsOK, Items, States
  <2>2. n_running' = IF i \in Running THEN n_running ELSE n_running + 1
    BY <1>1 DEF svc_chro_start, ResetAndStart, Running, Runs, State, ItemsOK, Items, States
  <2> QED
    BY <2>1, <2>2, OneChanges
<1>2. ASSUME NEW i \in Chronos, svc_chro_stop(i)
      PROVE  CountExact'
  <2>1. Running' = Running \ {i}
    BY <1>2 DEF svc_chro_stop, Running, Runs, State, ItemsOK, Items
  <2>2. i \in Running => n_running > 0
    BY SizeOfPair DEF CountExact, One, Chronos, Running
  <2>3. n_running' = IF i \in Running THEN n_running - 1 ELSE n_running
    BY <1>2, <2>2 DEF svc_chro_stop, Running
  <2> QED
    BY <2>1, <2>3, OneChanges
<1>3. ASSUME NEW i \in Chronos, svc_chro_hold(i), State(i) = "RUN"
      PROVE  CountExact'
  <2>1. Running' = Running /\ n_running' = n_running
    BY <1>3 DEF svc_chro_hold, Running, Runs, State, ItemsOK, Items
  <2> QED
    BY <2>1 DEF CountExact
<1>4. ASSUME NEW i \in Chronos, svc_chro_reset(i), State(i) = "STOP"
      PROVE  CountExact'
  <2>1. Running' = Running /\ n_running' = n_running
    BY <1>4 DEF svc_chro_reset, Running, Runs, State, ItemsOK, Items
  <2> QED
    BY <2>1 DEF CountExact
<1>5. CASE svc_aux_timer_chro_handler
  <2> DEFINE ended == {i \in Running : Ends(chros[i].t)}
  <2>1. Running' = Running \ ended
    BY <1>5 DEF svc_aux_timer_chro_handler, svc_chro_inc, Running, Runs, State,
                ItemsOK, Items, States
  <2>2. /\ Cardinality(Running) = One(0, Running) + One(1, Running)
        /\ Cardinality(ended) = One(0, ended) + One(1, ended)
        /\ Cardinality(Running') = One(0, Running') + One(1, Running')
    BY SizeOfPair DEF Running
  <2>3. n_running' = Minus(n_running, ended)
    BY <1>5 DEF svc_aux_timer_chro_handler
  <2> QED
    BY <2>1, <2>2, <2>3 DEF CountExact, Minus, One
<1>6. CASE UNCHANGED vars
  BY <1>6 DEF vars, CountExact, Running, Runs, State
<1>7. STOPWATCH \in Chronos /\ SPEED \in Chronos
  BY DEF Chronos
<1>8. CASE stopwatch_enter
  BY <1>8, <1>7, <1>1, <1>3 DEF stopwatch_enter
<1>9. CASE stopwatch_down
  BY <1>9, <1>7, <1>2, <1>4 DEF stopwatch_down
<1>10. CASE time_startstop
  BY <1>10, <1>7, <1>1, <1>2 DEF time_startstop, Runs
<1> QED
  BY <1>5, <1>6, <1>8, <1>9, <1>10 DEF Next

LEMMA TimerKeptKept ==
    ASSUME IInv, CountExact', [Next]_vars
    PROVE  TimerKept' /\ (req_chro \in BOOLEAN)'
<1>1. ASSUME NEW i \in Chronos, svc_chro_start(i) \/ ResetAndStart(i)
      PROVE  req_chro' = TRUE
  BY <1>1 DEF svc_chro_start, ResetAndStart
<1>2. ASSUME NEW i \in Chronos,
             svc_chro_stop(i) \/ (svc_chro_hold(i) /\ Runs(i)) \/ svc_chro_reset(i)
      PROVE  Running' \subseteq Running /\ req_chro' = req_chro
  BY <1>2 DEF IInv, ItemsOK, Items, svc_chro_stop, svc_chro_hold, svc_chro_reset,
              Running, Runs, State
<1>3. CASE svc_aux_timer_chro_handler
  <2>1. Running' # {} => n_running' # 0
    BY SizeOfPair DEF CountExact, One, Chronos, Running
  <2>2. req_chro' = (n_running' # 0)
    BY <1>3 DEF svc_aux_timer_chro_handler
  <2> QED
    BY <2>1, <2>2 DEF TimerKept
<1>4. CASE UNCHANGED vars
  BY <1>4 DEF vars, IInv, TimerKept, Running, Runs, State
<1>5. Running' \subseteq Running /\ req_chro' = req_chro
        => TimerKept' /\ (req_chro \in BOOLEAN)'
  BY DEF IInv, TimerKept
<1>6. req_chro' = TRUE => TimerKept' /\ (req_chro \in BOOLEAN)'
  BY DEF TimerKept
<1> QED
  BY <1>1, <1>2, <1>3, <1>4, <1>5, <1>6
     DEF Next, stopwatch_enter, stopwatch_down, time_startstop, Chronos, Runs

\* The inductive invariant holds in every state.
THEOREM Invariance == Spec => []IInv
<1>1. Init => IInv
  <2> SUFFICES ASSUME Init PROVE IInv
    OBVIOUS
  <2>1. ItemsOK
    BY ZeroType DEF Init, ItemsOK, Items, States
  <2>2. Running = {}
    BY DEF Init, Running, Runs, State
  <2> QED
    BY <2>1, <2>2, FS_EmptySet DEF Init, IInv, CountExact, TimerKept
<1>2. IInv /\ [Next]_vars => IInv'
  BY ItemsKept, CountKept, TimerKeptKept DEF IInv
<1> QED
  BY <1>1, <1>2, PTL DEF Spec

\* The chronographs keep their types, and there are never more counted than
\* there are.
THEOREM TypeCorrect == Spec => []TypeOK
<1>1. IInv => TypeOK
  BY CountIsNat, SizeOfChronos DEF IInv, ItemsOK, TypeOK
<1> QED
  BY <1>1, Invariance, PTL

\* n_running is exact through hold, reset and the end of the range.
THEOREM CountIsExact == Spec => []CountExact
<1>1. IInv => CountExact
  BY DEF IInv
<1> QED
  BY <1>1, Invariance, PTL

\* What runs has the timer.
THEOREM RunningHasTimer == Spec => []TimerKept
<1>1. IInv => TimerKept
  BY DEF IInv
<1> QED
  BY <1>1, Invariance, PTL

-----------------------------------------------------------------------------
(* The carries.  A time is a number of subseconds below MinValues minutes; *)
(* the three fields are its digits.                                        *)

\* The digit d of a number of n digits above it leaves room for the next.
LEMMA Below ==
    ASSUME NEW m \in Nat, NEW n \in Nat, NEW k \in Nat, m < n, NEW d \in Nat, d < k
    PROVE  m * k + d \in Nat /\ m * k + d < n * k
<1>1. PICK r \in Nat : n = m + 1 + r
  <2>1. n - m - 1 \in Nat /\ n = m + 1 + (n - m - 1)
    OBVIOUS
  <2> QED BY <2>1
<1>2. n * k = m * k + k + r * k
  BY <1>1
<1>3. r * k \in Nat /\ m * k \in Nat
  OBVIOUS
<1> QED BY <1>2, <1>3

LEMMA LaterIsNext ==
    ASSUME NEW t \in Times
    PROVE  Subseconds(Later(t)) = (Subseconds(t) + 1) % (MinValues * Secs * Subsecs)
<1> DEFINE x == t.min * Secs + t.sec
           all == MinValues * Secs
<1>0. /\ Subsecs \in Nat \ {0} /\ Secs \in Nat \ {0} /\ MinValues \in Nat \ {0}
      /\ t.min \in Nat /\ t.min < MinValues
      /\ t.sec \in Nat /\ t.sec < Secs
      /\ t.subsec \in Nat /\ t.subsec < Subsecs
  BY DEF Times
<1>1. x \in Nat /\ x < all /\ all \in Nat
  BY <1>0, Below
<1>2. Subseconds(t) = x * Subsecs + t.subsec
  BY DEF Subseconds
<1>3. CASE t.subsec + 1 < Subsecs
  <2>1. Later(t).min = t.min /\ Later(t).sec = t.sec /\ Later(t).subsec = t.subsec + 1
    BY <1>3 DEF Later, Times
  <2>2. Subseconds(Later(t)) = x * Subsecs + (t.subsec + 1)
    BY <2>1 DEF Subseconds
  <2> HIDE DEF x, all
  <2>3. x * Subsecs + (t.subsec + 1) \in Nat
        /\ x * Subsecs + (t.subsec + 1) < all * Subsecs
    BY <1>0, <1>1, <1>3, Below
  <2> QED BY <1>0, <1>1, <1>2, <2>2, <2>3 DEF all
<1>4. ASSUME t.subsec + 1 = Subsecs
      PROVE  Subseconds(t) + 1 = (x + 1) * Subsecs
  <2> HIDE DEF x, all
  <2>1. (x + 1) * Subsecs = x * Subsecs + Subsecs
    BY <1>0, <1>1
  <2>2. x * Subsecs \in Nat
    BY <1>0, <1>1
  <2> QED BY <2>1, <2>2, <1>0, <1>2, <1>4
<1>5. ASSUME t.subsec + 1 = Subsecs, x + 1 < all,
             Subseconds(Later(t)) = (x + 1) * Subsecs + 0
      PROVE  Subseconds(Later(t)) = (Subseconds(t) + 1) % (all * Subsecs)
  <2> HIDE DEF x, all
  <2>1. (x + 1) * Subsecs + 0 \in Nat /\ (x + 1) * Subsecs + 0 < all * Subsecs
    BY <1>0, <1>1, <1>5, Below
  <2>2. Subseconds(t) + 1 = (x + 1) * Subsecs
    BY <1>4, <1>5
  <2>3. ASSUME NEW a \in Nat, NEW b \in Nat, a < b
        PROVE  a % b = a
    BY <2>3
  <2>4. (x + 1) * Subsecs \in Nat /\ all * Subsecs \in Nat
    BY <1>0, <1>1
  <2>5. (x + 1) * Subsecs + 0 = (x + 1) * Subsecs
    BY <2>4
  <2> QED BY <2>1, <2>2, <2>3, <2>4, <2>5, <1>5
<1>6. CASE t.subsec + 1 = Subsecs /\ t.sec + 1 < Secs
  <2>1. Later(t) = [min |-> t.min, sec |-> t.sec + 1, subsec |-> 0]
    BY <1>0, <1>6 DEF Later
  <2>2. t.min * Secs + (t.sec + 1) < MinValues * Secs
    BY <1>0, <1>6, Below
  <2>3. x + 1 = t.min * Secs + (t.sec + 1)
    BY <1>0
  <2>4. Subseconds(Later(t)) = (x + 1) * Subsecs + 0
    BY <2>1, <2>3 DEF Subseconds
  <2> QED BY <1>5, <1>6, <2>2, <2>3, <2>4
<1>7. CASE t.subsec + 1 = Subsecs /\ t.sec + 1 = Secs /\ t.min + 1 < MinValues
  <2>1. Later(t) = [min |-> t.min + 1, sec |-> 0, subsec |-> 0]
    BY <1>0, <1>7 DEF Later
  <2>2. (t.min + 1) * Secs + 0 < MinValues * Secs
    BY <1>0, <1>7, Below
  <2>3. x + 1 = (t.min + 1) * Secs + 0
    BY <1>0, <1>7
  <2>4. Subseconds(Later(t)) = (x + 1) * Subsecs + 0
    BY <2>1, <2>3 DEF Subseconds
  <2> QED BY <1>5, <1>7, <2>2, <2>3, <2>4
<1>8. CASE t.subsec + 1 = Subsecs /\ t.sec + 1 = Secs /\ t.min + 1 = MinValues
  <2>1. Later(t) = Zero
    BY <1>0, <1>8 DEF Later, Zero
  <2>2. Subseconds(Later(t)) = 0
    BY <2>1, <1>0 DEF Subseconds, Zero
  <2>3. x + 1 = all
    BY <1>0, <1>8
  <2>4. all * Subsecs \in Nat /\ all * Subsecs > 0
    <3> HIDE DEF x
    <3>1. all \in Nat /\ all > 0
      BY <1>1, <2>3
    <3> HIDE DEF all
    <3> QED BY <1>0, <3>1
  <2>5. ASSUME NEW a \in Nat, a > 0 PROVE a % a = 0
    BY <2>5
  <2>6. Subseconds(t) + 1 = all * Subsecs
    BY <1>4, <1>8, <2>3
  <2> HIDE DEF x
  <2> QED BY <2>2, <2>4, <2>5, <2>6
<1>9. \/ t.subsec + 1 < Subsecs
      \/ t.subsec + 1 = Subsecs /\ t.sec + 1 < Secs
      \/ t.subsec + 1 = Subsecs /\ t.sec + 1 = Secs /\ t.min + 1 < MinValues
      \/ t.subsec + 1 = Subsecs /\ t.sec + 1 = Secs /\ t.min + 1 = MinValues
  BY <1>0
<1> QED BY <1>3, <1>6, <1>7, <1>8, <1>9

\* A tick moves each chronograph that runs on by one subsecond, and no other.
LEMMA TickReachesAll ==
    ASSUME IInv, svc_aux_timer_chro_handler, NEW i \in Chronos
    PROVE  Advanced(i)
<1>1. chros[i]' = svc_chro_inc(chros[i])
  BY DEF svc_aux_timer_chro_handler
<1>2. chros[i] \in Items /\ chros[i].t \in Times
  BY DEF IInv, ItemsOK, Items
<1>3. CASE Runs(i)
  <2>1. chros[i].t' = Later(chros[i].t)
    BY <1>1, <1>2, <1>3 DEF svc_chro_inc, Runs, State, Items
  <2> QED BY <1>2, <1>3, <2>1, LaterIsNext DEF Advanced
<1>4. CASE ~Runs(i)
  BY <1>1, <1>2, <1>4 DEF Advanced, svc_chro_inc, Runs, State, Items, States
<1> QED BY <1>3, <1>4

\* No tick of the timer is lost by a chronograph that runs, held or not, and
\* all the carries are right.
THEOREM NoTickIsLost == Spec => NoTickLost
<1>1. IInv /\ [Next]_vars
        => [svc_aux_timer_chro_handler => \A i \in Chronos : Advanced(i)]_vars
  BY TickReachesAll
<1> QED
  BY <1>1, Invariance, PTL DEF Spec, NoTickLost
=============================================================================
