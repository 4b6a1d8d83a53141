------------------------------ MODULE GpTimer ------------------------------
(***************************************************************************)
(* The timers of gp_timer.c: a start and an interval, in the ticks of a    *)
(* clock that wraps around.  hci_send_req measures its timeout with one    *)
(* (Timer_Set, then Timer_Expired in a loop).  The clock is a parameter:   *)
(* its value when the function reads it.                                   *)
(***************************************************************************)
EXTENDS Integers, TLAPS

CONSTANT Word   \* values of tClockTime: 2^32, milliseconds

tClockTime == 0..(Word - 1)

Timer_Set(interval, clock) == [start |-> clock, interval |-> interval]

Timer_Reset(t) == [t EXCEPT !.start = (t.start + t.interval) % Word]

Timer_Restart(t, clock) == [t EXCEPT !.start = clock]

\* The code compares with one more than what has elapsed, in the clock's width.
Timer_Expired(t, clock) ==
  LET diff == ((clock - t.start) + 1) % Word
  IN  t.interval < diff

Timer_Remaining(t, clock) == (t.start + t.interval - clock) % Word

\* The clock some milliseconds after it had a value.
After(start, elapsed) == (start + elapsed) % Word

-----------------------------------------------------------------------------
(* The arithmetic of the clock's width.                                    *)

\* A sum or difference of two times is off by one turn of the clock at most.
LEMMA OneTurn ==
  ASSUME Word \in Nat \ {0}, NEW x \in (-Word)..(2 * Word - 1)
  PROVE  x % Word = IF x < 0 THEN x + Word ELSE IF x < Word THEN x ELSE x - Word
  <1>1. CASE x \in 0..(Word - 1)
    BY <1>1
  <1>2. CASE x \in Word..(2 * Word - 1)
    BY <1>2
  <1>3. CASE x \in (-Word)..(-1)
    BY <1>3
  <1>4. QED
    BY <1>1, <1>2, <1>3

\* The clock either has not wrapped around since a time or has, once.
LEMMA AfterCases ==
  ASSUME Word \in Nat \ {0}, NEW start \in tClockTime, NEW elapsed \in tClockTime
  PROVE  /\ After(start, elapsed) \in tClockTime
         /\ \/ After(start, elapsed) = start + elapsed
            \/ After(start, elapsed) = start + elapsed - Word
  <1>1. start + elapsed \in (-Word)..(2 * Word - 1)
    BY DEF tClockTime
  <1>2. (start + elapsed) % Word
          = IF start + elapsed < Word THEN start + elapsed ELSE start + elapsed - Word
    BY <1>1, OneTurn DEF tClockTime
  <1>3. QED
    BY <1>2 DEF After, tClockTime

\* What the clock has advanced by.
LEMMA Elapsed ==
  ASSUME Word \in Nat \ {0}, NEW start \in tClockTime, NEW elapsed \in tClockTime
  PROVE  ((After(start, elapsed) - start) + 1) % Word
           = IF elapsed = Word - 1 THEN 0 ELSE elapsed + 1
  <1> DEFINE diff == (After(start, elapsed) - start) + 1
  <1>1. /\ diff \in (-Word)..(2 * Word - 1)
        /\ diff = elapsed + 1 \/ diff = elapsed + 1 - Word
    <2>1. start \in Int /\ elapsed \in 0..(Word - 1)
      BY DEF tClockTime
    <2>2. \/ After(start, elapsed) = start + elapsed
          \/ After(start, elapsed) = start + elapsed - Word
      BY AfterCases
    <2>3. diff = elapsed + 1 \/ diff = elapsed + 1 - Word
      BY <2>1, <2>2
    <2>4. QED
      BY <2>1, <2>3
  <1> HIDE DEF diff
  <1>2. diff % Word = IF diff < 0 THEN diff + Word ELSE IF diff < Word THEN diff ELSE diff - Word
    BY <1>1, OneTurn
  <1>3. QED
    BY <1>1, <1>2 DEF tClockTime, diff

-----------------------------------------------------------------------------
(* What the timers promise.                                                *)

\* A timer has expired exactly when its interval has elapsed since it was set, wherever
\* the clock wraps around between the two, as long as less than 2^32 - 1 ms have elapsed.
THEOREM TimerExact ==
  ASSUME Word \in Nat \ {0}, NEW start \in tClockTime, NEW interval \in tClockTime,
         NEW elapsed \in 0..(Word - 2)
  PROVE  Timer_Expired(Timer_Set(interval, start), After(start, elapsed))
           <=> elapsed >= interval
  <1>1. elapsed \in tClockTime /\ elapsed # Word - 1
    BY DEF tClockTime
  <1>2. ((After(start, elapsed) - start) + 1) % Word = elapsed + 1
    BY <1>1, Elapsed
  <1>3. Timer_Expired(Timer_Set(interval, start), After(start, elapsed))
          <=> interval < elapsed + 1
    BY <1>2 DEF Timer_Expired, Timer_Set
  <1>4. QED
    BY <1>1, <1>3 DEF tClockTime

\* The one elapsed time for which the 1 added is wrong: in the last millisecond before
\* the clock comes round to its start, no timer has expired, whatever its interval.
THEOREM TimerMissed ==
  ASSUME Word \in Nat \ {0}, NEW start \in tClockTime, NEW interval \in tClockTime
  PROVE  ~Timer_Expired(Timer_Set(interval, start), After(start, Word - 1))
  <1>1. Word - 1 \in tClockTime
    BY DEF tClockTime
  <1>2. ((After(start, Word - 1) - start) + 1) % Word = 0
    BY <1>1, Elapsed
  <1>3. Timer_Expired(Timer_Set(interval, start), After(start, Word - 1)) <=> interval < 0
    BY <1>2 DEF Timer_Expired, Timer_Set
  <1>4. QED
    BY <1>3 DEF tClockTime

\* A timer that has run its interval and is reset runs it again from the time it was
\* due, not from the time somebody noticed: a periodic timer does not drift.
THEOREM ResetDoesNotDrift ==
  ASSUME Word \in Nat \ {0}, NEW start \in tClockTime, NEW interval \in tClockTime,
         NEW elapsed \in tClockTime, elapsed >= interval, elapsed - interval < Word - 1
  PROVE  Timer_Expired(Timer_Reset(Timer_Set(interval, start)), After(start, elapsed))
           <=> elapsed >= 2 * interval
  <1> DEFINE due == After(start, interval)
             late == elapsed - interval
  <1>1. due \in tClockTime /\ late \in 0..(Word - 2) /\ late \in tClockTime
    BY AfterCases DEF tClockTime
  <1>2. Timer_Reset(Timer_Set(interval, start)) = Timer_Set(interval, due)
    BY DEF Timer_Reset, Timer_Set, After
  <1> HIDE DEF due, late
  <1>3. After(start, elapsed) = After(due, late)
    <2>1. /\ After(start, elapsed) \in tClockTime /\ After(due, late) \in tClockTime
          /\ \/ After(start, elapsed) = start + elapsed
             \/ After(start, elapsed) = start + elapsed - Word
          /\ due = start + interval \/ due = start + interval - Word
          /\ After(due, late) = due + late \/ After(due, late) = due + late - Word
      BY <1>1, AfterCases DEF due
    <2>2. start \in Int /\ interval \in Int /\ elapsed \in Int /\ late = elapsed - interval
      BY DEF late, tClockTime
    <2>3. QED
      BY <1>1, <2>1, <2>2 DEF tClockTime
  <1>4. Timer_Expired(Timer_Set(interval, due), After(due, late)) <=> late >= interval
    BY <1>1, TimerExact
  <1>5. late >= interval <=> elapsed >= 2 * interval
    BY DEF tClockTime, late
  <1>6. QED
    BY <1>2, <1>3, <1>4, <1>5

\* What remains is the rest of the interval until the timer is due; afterwards it is a
\* turn of the clock less what it is late by, never zero or less.
THEOREM RemainingUntilDue ==
  ASSUME Word \in Nat \ {0}, NEW start \in tClockTime, NEW interval \in tClockTime,
         NEW elapsed \in tClockTime
  PROVE  Timer_Remaining(Timer_Set(interval, start), After(start, elapsed))
           = IF elapsed <= interval THEN interval - elapsed ELSE Word - (elapsed - interval)
  <1> DEFINE rest == start + interval - After(start, elapsed)
  <1>1. /\ rest \in (-Word)..(2 * Word - 1)
        /\ rest = interval - elapsed \/ rest = interval - elapsed + Word
    <2>1. start \in Int /\ interval \in 0..(Word - 1) /\ elapsed \in 0..(Word - 1)
      BY DEF tClockTime
    <2>2. \/ After(start, elapsed) = start + elapsed
          \/ After(start, elapsed) = start + elapsed - Word
      BY AfterCases
    <2>3. rest = interval - elapsed \/ rest = interval - elapsed + Word
      BY <2>1, <2>2
    <2>4. QED
      BY <2>1, <2>3
  <1> HIDE DEF rest
  <1>2. rest % Word = IF rest < 0 THEN rest + Word ELSE IF rest < Word THEN rest ELSE rest - Word
    BY <1>1, OneTurn
  <1>3. Timer_Remaining(Timer_Set(interval, start), After(start, elapsed)) = rest % Word
    BY DEF Timer_Remaining, Timer_Set, rest
  <1>4. QED
    BY <1>1, <1>2, <1>3 DEF tClockTime
=============================================================================
