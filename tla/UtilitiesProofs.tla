-------------------------- MODULE UtilitiesProofs --------------------------
(***************************************************************************)
(* What the parts that share no state promise side by side, for any sizes: *)
(* the streak of check-ins is counted right, the mutex lock excludes, and  *)
(* with SessionProofs and IdWorkerProofs every invariant and every step    *)
(* property of the sessions, the ids, the check-ins and the lock holds of  *)
(* Utilities.  The loop of signCount is dealt with by the least natural    *)
(* number at which it would go wrong.                                      *)
(***************************************************************************)
EXTENDS Utilities, SessionProofs, IdWorkerProofs, WellFoundedInduction, NaturalsInduction

\* A set of natural numbers has a least element.
LEMMA LeastNatural ==
  ASSUME NEW T, T \subseteq Nat, T # {}
  PROVE  \E n \in T : \A m \in T : n <= m
<1> DEFINE Smaller == {p \in Nat \X Nat : p[1] < p[2]}
<1>1. IsWellFoundedOn(Smaller, Nat)
  <2>1. Smaller = OpToRel(<, Nat)
    BY DEF OpToRel
  <2>2. QED
    BY <2>1, NatLessThanWellFounded
<1>2. \E n \in T : \A m \in T : <<m, n>> \notin Smaller
  <2> HIDE DEF Smaller
  <2>1. QED
    BY <1>1, WFMin
<1>3. \A m, n \in T : <<m, n>> \notin Smaller => n <= m
  <2>1. SUFFICES ASSUME NEW m \in T, NEW n \in T, m < n PROVE <<m, n>> \in Smaller
    OBVIOUS
  <2>2. QED
    BY <2>1
<1>4. QED
  <2> HIDE DEF Smaller
  <2>1. QED
    BY <1>2, <1>3
-----------------------------------------------------------------------------
(* The loop of signCount.                                                  *)

Numbers == SUBSET (0..MonthLength - 1)

\* n is the lowest position at which num has no one.
LowestZero(n, num) == n \in Nat /\ n \notin num /\ \A i \in 0..n - 1 : i \in num

LEMMA LowestZeroExists == \A num \in Numbers : \E n \in 0..MonthLength : LowestZero(n, num)
<1> SUFFICES ASSUME NEW num \in Numbers PROVE \E n \in 0..MonthLength : LowestZero(n, num)
  OBVIOUS
<1>1. MonthLength \in Nat /\ MonthLength \notin num
  BY SignConstants DEF Numbers
<1>2. PICK n \in Nat \ num : \A m \in Nat \ num : n <= m
  BY <1>1, LeastNatural
<1>3. n \in 0..MonthLength
  BY <1>1, <1>2
<1>4. \A i \in 0..n - 1 : i \in num
  BY <1>2
<1>5. QED
  BY <1>3, <1>4 DEF LowestZero

LEMMA LowestZeroIsOne ==
  ASSUME NEW num \in Numbers, NEW m, NEW n, LowestZero(m, num), LowestZero(n, num)
  PROVE  m = n
BY DEF LowestZero

\* Shifting lowers the positions by one.
LEMMA Shifted ==
  ASSUME NEW num \in Numbers
  PROVE  /\ ShiftRight(num) \in Numbers
         /\ \A i \in Nat : i \in ShiftRight(num) <=> i + 1 \in num
BY SignConstants DEF ShiftRight, Numbers

LEMMA LowestZeroShifted ==
  ASSUME NEW num \in Numbers, NEW n, LowestZero(n, num)
  PROVE  /\ 0 \notin num <=> n = 0
         /\ 0 \in num => n - 1 \in Nat /\ LowestZero(n - 1, ShiftRight(num))
<1> USE DEF LowestZero
<1>1. 0 \notin num <=> n = 0
  OBVIOUS
<1>2. ASSUME 0 \in num PROVE n - 1 \in Nat /\ LowestZero(n - 1, ShiftRight(num))
  <2>1. n - 1 \in Nat
    BY <1>1, <1>2
  <2>2. n - 1 \notin ShiftRight(num)
    BY <2>1, Shifted
  <2>3. ASSUME NEW i \in 0..(n - 1) - 1 PROVE i \in ShiftRight(num)
    BY <2>1, <2>3, Shifted
  <2>4. QED
    BY <2>1, <2>2, <2>3
<1>3. QED
  BY <1>1, <1>2

\* The loop ends on every number, so the equation of TrailingOnes has a solution.
LEMMA TrailingOnesDefined ==
  TrailingOnes = [num \in Numbers |-> IF 0 \in num THEN 1 + TrailingOnes[ShiftRight(num)] ELSE 0]
<1> DEFINE Zero(num) == CHOOSE n \in Nat : LowestZero(n, num)
           Step(f) == [num \in Numbers |-> IF 0 \in num THEN 1 + f[ShiftRight(num)] ELSE 0]
           Zeros == [num \in Numbers |-> Zero(num)]
<1>1. \A num \in Numbers : Zero(num) \in Nat /\ LowestZero(Zero(num), num)
  BY LowestZeroExists DEF LowestZero
<1>2. ASSUME NEW num \in Numbers
      PROVE  Zeros[num] = IF 0 \in num THEN 1 + Zeros[ShiftRight(num)] ELSE 0
  <2>1. Zeros[num] = Zero(num)
    OBVIOUS
  <2>2. ASSUME 0 \in num PROVE Zero(num) = 1 + Zeros[ShiftRight(num)]
    <3>1. ShiftRight(num) \in Numbers
      BY Shifted
    <3>2. Zeros[ShiftRight(num)] = Zero(ShiftRight(num))
      BY <3>1
    <3> HIDE DEF Zero, Zeros
    <3>3. Zero(num) - 1 \in Nat /\ LowestZero(Zero(num) - 1, ShiftRight(num))
      BY <1>1, <2>2, LowestZeroShifted
    <3>4. Zero(num) - 1 = Zero(ShiftRight(num))
      BY <1>1, <3>1, <3>3, LowestZeroIsOne
    <3>5. QED
      BY <1>1, <3>1, <3>2, <3>4
  <2>3. ASSUME 0 \notin num PROVE Zero(num) = 0
    <3> HIDE DEF Zero, Zeros
    <3>1. QED
      BY <1>1, <2>3, LowestZeroShifted
  <2>4. QED
    <3> HIDE DEF Zero, Zeros
    <3>1. QED
      BY <2>1, <2>2, <2>3
<1>3. Zeros = Step(Zeros)
  <2>1. Zeros = [num \in Numbers |-> Zeros[num]]
    OBVIOUS
  <2>2. [num \in Numbers |-> Zeros[num]] = Step(Zeros)
    <3> HIDE DEF Zeros
    <3>1. QED
      BY <1>2
  <2>3. QED
    BY <2>1, <2>2
<1>4. TrailingOnes = CHOOSE f : f = Step(f)
  BY DEF TrailingOnes, Numbers
<1>5. QED
  <2> HIDE DEF Zeros, Step
  <2>1. TrailingOnes = Step(TrailingOnes)
    BY <1>3, <1>4
  <2>2. QED
    BY <2>1 DEF Step

\* signCount's loop counts the ones up to the lowest zero.
LEMMA TrailingOnesCounts ==
  \A num \in Numbers : \A n \in Nat : LowestZero(n, num) => TrailingOnes[num] = n
<1> DEFINE Counts(n) == \A num \in Numbers : LowestZero(n, num) => TrailingOnes[num] = n
           Wrong == {n \in Nat : ~Counts(n)}
<1>1. SUFFICES Wrong = {}
  OBVIOUS
<1>2. SUFFICES ASSUME Wrong # {} PROVE FALSE
  OBVIOUS
<1>3. PICK n \in Wrong : \A m \in Wrong : n <= m
  <2>1. Wrong \subseteq Nat
    OBVIOUS
  <2> HIDE DEF Wrong
  <2>2. QED
    BY <1>2, <2>1, LeastNatural
<1>4. PICK num \in Numbers : LowestZero(n, num) /\ TrailingOnes[num] # n
  BY <1>3
<1>5. TrailingOnes[num] = IF 0 \in num THEN 1 + TrailingOnes[ShiftRight(num)] ELSE 0
  BY TrailingOnesDefined
<1>6. CASE 0 \notin num
  BY <1>4, <1>5, <1>6, LowestZeroShifted
<1>7. CASE 0 \in num
  <2>1. n - 1 \in Nat /\ LowestZero(n - 1, ShiftRight(num))
    BY <1>4, <1>7, LowestZeroShifted
  <2>2. ShiftRight(num) \in Numbers
    BY Shifted
  <2>3. n - 1 \notin Wrong
    <3> HIDE DEF Wrong
    <3>1. n \in Nat
      BY <1>4 DEF LowestZero
    <3>2. QED
      BY <1>3, <2>1, <3>1
  <2>4. TrailingOnes[ShiftRight(num)] = n - 1
    BY <2>1, <2>2, <2>3
  <2>5. n \in Nat
    BY <1>4 DEF LowestZero
  <2>6. TrailingOnes[num] = n
    <3> HIDE DEF Wrong
    <3>1. QED
      BY <1>5, <1>7, <2>4, <2>5
  <2>7. QED
    BY <1>4, <2>6
<1>8. QED
  BY <1>6, <1>7
-----------------------------------------------------------------------------
(* Days and months.                                                        *)

\* Every day is in one of the months, and has an offset in it.
LEMMA DayInMonth ==
  ASSUME NEW d \in CalendarDays
  PROVE  /\ d \in Nat
         /\ Month(d) \in 0..Months - 1
         /\ Offset(d) \in 0..MonthLength - 1
         /\ DayOfMonth(d) = Offset(d) + 1
         /\ d = Month(d) * MonthLength + Offset(d)
<1> DEFINE m == d \div MonthLength
           o == d % MonthLength
<1>1. d \in Nat /\ d < Months * MonthLength
  BY SignConstants DEF CalendarDays, LastDay
<1>2. m \in Nat /\ o \in 0..MonthLength - 1 /\ d = m * MonthLength + o
  BY <1>1, SignConstants
<1>3. m < Months
  <2> HIDE DEF m, o
  <2>1. SUFFICES ASSUME m >= Months PROVE FALSE
    BY <1>2, SignConstants
  <2>2. m * MonthLength >= Months * MonthLength
    BY <1>2, <2>1, SignConstants
  <2>3. m * MonthLength \in Nat
    BY <1>2, SignConstants
  <2>4. QED
    BY <1>1, <1>2, <2>2, <2>3, SignConstants
<1>4. Offset(d) = o /\ DayOfMonth(d) = o + 1 /\ Month(d) = m
  BY <1>2 DEF Offset, DayOfMonth, Month
<1>5. QED
  <2> HIDE DEF m, o
  <2>1. QED
    BY <1>1, <1>2, <1>3, <1>4, SignConstants

\* A number has one quotient and one remainder.
LEMMA OneQuotient ==
  ASSUME NEW m \in Nat, NEW n \in Nat, NEW p \in 0..MonthLength - 1, NEW q \in 0..MonthLength - 1,
         m * MonthLength + p = n * MonthLength + q
  PROVE  m = n /\ p = q
<1>1. ASSUME NEW k \in Nat, NEW l \in Nat, NEW r \in 0..MonthLength - 1, NEW s \in 0..MonthLength - 1, k < l
      PROVE  k * MonthLength + r < l * MonthLength + s
  <2>1. (k + 1) * MonthLength <= l * MonthLength
    BY <1>1, SignConstants
  <2>2. (k + 1) * MonthLength = k * MonthLength + MonthLength
    BY <1>1, SignConstants
  <2>3. k * MonthLength \in Nat /\ l * MonthLength \in Nat
    BY <1>1, SignConstants
  <2>4. QED
    BY <2>1, <2>2, <2>3, SignConstants
<1>2. ~(m < n) /\ ~(n < m)
  <2>1. m * MonthLength \in Nat /\ n * MonthLength \in Nat
    BY SignConstants
  <2>2. QED
    BY <1>1, <2>1, SignConstants
<1>3. m = n
  BY <1>2
<1>4. m * MonthLength \in Nat
  BY SignConstants
<1>5. QED
  BY <1>3, <1>4, SignConstants

\* The days before d in its month are those its offset leaves room for.
LEMMA DaysBack ==
  ASSUME NEW d \in CalendarDays, NEW i \in 0..Offset(d)
  PROVE  /\ d - i \in CalendarDays
         /\ Month(d - i) = Month(d)
         /\ Offset(d - i) = Offset(d) - i
<1>1. d \in Nat /\ Month(d) \in Nat /\ Offset(d) \in 0..MonthLength - 1
      /\ d = Month(d) * MonthLength + Offset(d)
  BY DayInMonth, SignConstants
<1>2. Month(d) * MonthLength \in Nat
  BY <1>1, SignConstants
<1>3. d - i \in CalendarDays
  BY <1>1, <1>2, SignConstants DEF CalendarDays, LastDay
<1>4. d - i \in Nat /\ Month(d - i) \in Nat /\ Offset(d - i) \in 0..MonthLength - 1
      /\ d - i = Month(d - i) * MonthLength + Offset(d - i)
  BY <1>3, DayInMonth, SignConstants
<1>5. d - i = Month(d) * MonthLength + (Offset(d) - i) /\ Offset(d) - i \in 0..MonthLength - 1
  BY <1>1, <1>2, SignConstants
<1>6. Month(d - i) = Month(d) /\ Offset(d - i) = Offset(d) - i
  <2>1. Month(d - i) * MonthLength + Offset(d - i) = Month(d) * MonthLength + (Offset(d) - i)
    BY <1>4, <1>5
  <2>2. QED
    BY <1>1, <1>4, <1>5, <2>1, OneQuotient
<1>7. QED
  BY <1>3, <1>6

\* Two days of one month with one offset are one day.
LEMMA OneDay ==
  ASSUME NEW d \in CalendarDays, NEW e \in CalendarDays, Month(d) = Month(e), Offset(d) = Offset(e)
  PROVE  d = e
BY DayInMonth
-----------------------------------------------------------------------------
(* The check-ins.                                                          *)

\* The bits set are those of the days checked in.
BitsAreSigned == \A d \in CalendarDays : d \in signed <=> Offset(d) \in bitmap[Month(d)]

SignInv == SignType /\ BitsAreSigned /\ StreakIsConsecutive

\* BITFIELD answers the days up to d backwards: position i is i days before d.
LEMMA FieldCountsBack ==
  ASSUME SignType, BitsAreSigned, NEW d \in CalendarDays
  PROVE  /\ Field(bitmap[Month(d)], DayOfMonth(d)) \in Numbers
         /\ \A i \in Nat : i \in Field(bitmap[Month(d)], DayOfMonth(d)) <=>
                              i <= Offset(d) /\ d - i \in signed
<1> DEFINE bits == bitmap[Month(d)]
           num == Field(bits, DayOfMonth(d))
<1>1. bits \in SUBSET (0..MonthLength - 1)
  BY DayInMonth DEF SignType
<1>2. Offset(d) \in 0..MonthLength - 1 /\ DayOfMonth(d) = Offset(d) + 1
  BY DayInMonth
<1>3. num = {Offset(d) - o : o \in {o \in bits : o <= Offset(d)}}
  <2>1. \A o \in bits : o < DayOfMonth(d) <=> o <= Offset(d)
    BY <1>1, <1>2, SignConstants
  <2>2. DayOfMonth(d) - 1 = Offset(d)
    BY <1>2, SignConstants
  <2> HIDE DEF bits
  <2>3. QED
    BY <2>1, <2>2 DEF Field
<1>4. num \in Numbers
  <2> HIDE DEF bits, num
  <2>1. QED
    BY <1>1, <1>2, <1>3, SignConstants DEF Numbers
<1>5. ASSUME NEW i \in Nat
      PROVE  i \in num <=> i <= Offset(d) /\ Offset(d) - i \in bits
  <2> HIDE DEF bits, num
  <2>1. QED
    BY <1>1, <1>2, <1>3, SignConstants
<1>6. ASSUME NEW i \in Nat, i <= Offset(d)
      PROVE  Offset(d) - i \in bits <=> d - i \in signed
  <2>1. i \in 0..Offset(d)
    BY <1>2, <1>6, SignConstants
  <2>2. d - i \in CalendarDays /\ Month(d - i) = Month(d) /\ Offset(d - i) = Offset(d) - i
    BY <2>1, DaysBack
  <2>3. QED
    BY <2>2 DEF BitsAreSigned
<1>7. QED
  <2> HIDE DEF bits, num
  <2>1. \A i \in Nat : i \in num <=> i <= Offset(d) /\ d - i \in signed
    BY <1>5, <1>6
  <2>2. QED
    BY <1>4, <2>1 DEF bits, num

\* The answer of signCount, computed from the bitmap.
LEMMA CountIsStreak ==
  ASSUME SignType, BitsAreSigned, NEW d \in CalendarDays, NEW count,
         count = TrailingOnes[Field(bitmap[Month(d)], DayOfMonth(d))]
  PROVE  /\ count \in 0..MonthLength
         /\ count < DayOfMonth(d) + 1
         /\ (d - count + 1)..d \subseteq signed
         /\ \A n \in count + 1..MonthLength :
               ~(n < DayOfMonth(d) + 1 /\ (d - n + 1)..d \subseteq signed)
<1> DEFINE num == Field(bitmap[Month(d)], DayOfMonth(d))
<1>1. num \in Numbers /\ \A i \in Nat : i \in num <=> i <= Offset(d) /\ d - i \in signed
  BY FieldCountsBack
<1>2. count \in 0..MonthLength /\ LowestZero(count, num)
  <2> HIDE DEF num
  <2>1. PICK n \in 0..MonthLength : LowestZero(n, num)
    BY <1>1, LowestZeroExists
  <2>2. TrailingOnes[num] = n
    BY <1>1, <2>1, TrailingOnesCounts DEF LowestZero
  <2>3. QED
    BY <2>1, <2>2 DEF num
<1> HIDE DEF num
<1>3. d \in Nat /\ Offset(d) \in Nat /\ DayOfMonth(d) = Offset(d) + 1 /\ Offset(d) <= d
      /\ count \in Nat /\ MonthLength \in Nat
  <2>1. Month(d) * MonthLength \in Nat
    BY DayInMonth, SignConstants
  <2>2. QED
    BY <1>2, <2>1, DayInMonth, SignConstants
<1>4. \A i \in 0..count - 1 : i <= Offset(d) /\ d - i \in signed
  BY <1>1, <1>2, <1>3 DEF LowestZero
<1>5. count < DayOfMonth(d) + 1
  <2>1. SUFFICES ASSUME count > Offset(d) + 1 PROVE FALSE
    BY <1>3
  <2>2. count - 1 \in 0..count - 1
    BY <1>3, <2>1
  <2>3. QED
    BY <1>3, <1>4, <2>1, <2>2
<1>6. ASSUME NEW e \in (d - count + 1)..d PROVE e \in signed
  <2>1. d - e \in 0..count - 1 /\ d - (d - e) = e
    BY <1>3
  <2>2. QED
    BY <1>4, <2>1
<1>7. ASSUME NEW n \in count + 1..MonthLength, n < DayOfMonth(d) + 1,
             (d - n + 1)..d \subseteq signed
      PROVE  FALSE
  <2>1. count <= Offset(d)
    BY <1>3, <1>7
  <2>2. d - count \in (d - n + 1)..d
    BY <1>3, <1>7
  <2>3. count \in num
    BY <1>1, <1>3, <1>7, <2>1, <2>2
  <2>4. QED
    BY <1>2, <2>3 DEF LowestZero
<1>8. QED
  BY <1>2, <1>5, <1>6, <1>7

LEMMA SignInitInv == SignInit => SignInv
<1> SUFFICES ASSUME SignInit PROVE SignInv
  OBVIOUS
<1> USE DEF SignInit
<1>1. 0 \in CalendarDays
  <2>1. Months * MonthLength \in Nat \ {0}
    BY SignConstants
  <2>2. QED
    BY <2>1 DEF CalendarDays, LastDay
<1>2. SignType
  BY <1>1, SignConstants DEF SignType
<1>3. BitsAreSigned
  BY DayInMonth DEF BitsAreSigned
<1>4. StreakIsConsecutive
  <2>1. streak.day = 0 /\ streak.count = 0 /\ streak.signed = {}
    OBVIOUS
  <2>2. DayOfMonth(0) \in Nat
    BY <1>1, DayInMonth, SignConstants
  <2>3. (0 - 0 + 1)..0 = {}
    OBVIOUS
  <2>4. \A n \in 1..MonthLength : 0 \in (0 - n + 1)..0
    BY SignConstants
  <2>5. QED
    BY <2>1, <2>2, <2>3, <2>4, SignConstants DEF StreakIsConsecutive
<1>5. QED
  BY <1>2, <1>3, <1>4 DEF SignInv

\* SETBIT sets the bit of that day and of no other.
LEMMA BitSet ==
  ASSUME SignType, BitsAreSigned, NEW day \in CalendarDays,
         bitmap' = [bitmap EXCEPT ![Month(day)] = @ \cup {Offset(day)}],
         signed' = signed \cup {day}
  PROVE  /\ bitmap' \in [0..Months - 1 -> SUBSET (0..MonthLength - 1)]
         /\ signed' \in SUBSET CalendarDays
         /\ BitsAreSigned'
<1>1. Month(day) \in 0..Months - 1 /\ Offset(day) \in 0..MonthLength - 1
  BY DayInMonth
<1>2. bitmap' \in [0..Months - 1 -> SUBSET (0..MonthLength - 1)] /\ signed' \in SUBSET CalendarDays
  BY <1>1 DEF SignType
<1>3. ASSUME NEW d \in CalendarDays PROVE d \in signed' <=> Offset(d) \in bitmap'[Month(d)]
  <2>1. Month(d) \in 0..Months - 1 /\ (d \in signed <=> Offset(d) \in bitmap[Month(d)])
    BY DayInMonth DEF BitsAreSigned
  <2>2. CASE Month(d) = Month(day)
    <3>1. bitmap'[Month(d)] = bitmap[Month(d)] \cup {Offset(day)}
      BY <2>1, <2>2 DEF SignType
    <3>2. Offset(d) = Offset(day) <=> d = day
      BY <2>2, OneDay
    <3>3. QED
      BY <2>1, <3>1, <3>2
  <2>3. CASE Month(d) # Month(day)
    <3>1. bitmap'[Month(d)] = bitmap[Month(d)] /\ d # day
      BY <2>1, <2>3 DEF SignType
    <3>2. QED
      BY <2>1, <3>1
  <2>4. QED
    BY <2>2, <2>3
<1>4. QED
  BY <1>2, <1>3 DEF BitsAreSigned

LEMMA SignStepInv == SignInv /\ [SignNext]_signVars => SignInv'
<1> SUFFICES ASSUME SignInv, [SignNext]_signVars PROVE SignInv'
  OBVIOUS
<1> USE DEF SignInv
<1>1. \A op \in {"sign", "count"} : asked[op] # NoDay => asked[op] \in CalendarDays
  BY DEF SignType
<1>2. ASSUME UNCHANGED <<bitmap, signed, streak>>, today' \in CalendarDays,
             asked' \in [{"sign", "count"} -> CalendarDays \cup {NoDay}]
      PROVE  SignInv'
  BY <1>2 DEF SignType, BitsAreSigned, StreakIsConsecutive
<1>3. ASSUME NEW op \in {"sign", "count"}, asked[op] # NoDay,
             asked' = [asked EXCEPT ![op] = NoDay], UNCHANGED <<today, streak>>,
             bitmap' = [bitmap EXCEPT ![Month(asked[op])] = @ \cup {Offset(asked[op])}],
             signed' = signed \cup {asked[op]}
      PROVE  SignInv'
  <2>1. /\ bitmap' \in [0..Months - 1 -> SUBSET (0..MonthLength - 1)]
        /\ signed' \in SUBSET CalendarDays
        /\ BitsAreSigned'
    BY <1>1, <1>3, BitSet
  <2>2. SignType'
    BY <1>3, <2>1 DEF SignType
  <2>3. StreakIsConsecutive'
    BY <1>3 DEF StreakIsConsecutive
  <2>4. QED
    BY <2>1, <2>2, <2>3
<1>4. CASE NextDay
  <2>1. today + 1 \in CalendarDays
    BY <1>4, SignConstants DEF NextDay, SignType, CalendarDays, LastDay
  <2>2. QED
    BY <1>2, <1>4, <2>1 DEF NextDay, SignType
<1>5. ASSUME NEW op \in {"sign", "count"}, ReadDate(op) PROVE SignInv'
  BY <1>2, <1>5 DEF ReadDate, SignType
<1>6. CASE Sign
  BY <1>3, <1>6 DEF Sign
<1>7. ASSUME NEW op \in {"sign", "count"}, RequestFails(op) PROVE SignInv'
  BY <1>2, <1>3, <1>7 DEF RequestFails, SignType
<1>8. CASE SignCount
  <2> DEFINE day == asked["count"]
             count == TrailingOnes[Field(bitmap[Month(day)], DayOfMonth(day))]
  <2>1. day \in CalendarDays
    BY <1>1, <1>8 DEF SignCount
  <2>2. streak' = [count |-> count, day |-> day, signed |-> signed]
        /\ UNCHANGED <<today, bitmap, signed>>
        /\ asked' = [asked EXCEPT !["count"] = NoDay]
    BY <1>8 DEF SignCount
  <2>3. /\ count \in 0..MonthLength
        /\ count < DayOfMonth(day) + 1
        /\ (day - count + 1)..day \subseteq signed
        /\ \A n \in count + 1..MonthLength :
              ~(n < DayOfMonth(day) + 1 /\ (day - n + 1)..day \subseteq signed)
    BY <2>1, CountIsStreak
  <2> HIDE DEF day, count
  <2>4. SignType'
    BY <2>1, <2>2, <2>3 DEF SignType
  <2>5. StreakIsConsecutive'
    BY <2>2, <2>3 DEF StreakIsConsecutive
  <2>6. BitsAreSigned'
    BY <2>2 DEF BitsAreSigned
  <2>7. QED
    BY <2>4, <2>5, <2>6
<1>9. CASE UNCHANGED signVars
  BY <1>2, <1>9 DEF signVars, SignType
<1>10. QED
  BY <1>4, <1>5, <1>6, <1>7, <1>8, <1>9 DEF SignNext

-----------------------------------------------------------------------------
(* MutexRedisLock.                                                         *)

MutexInv == MutexType /\ OneHolderWithinLease

LEMMA MutexInitInv == MutexInit => MutexInv
  BY OwnerValues DEF MutexInit, MutexInv, MutexType, OneHolderWithinLease

\* Each call keeps the key with the one thread whose lease runs.
LEMMA MutexStepInv == MutexInv /\ [MutexNext]_mutexVars => MutexInv'
<1> SUFFICES ASSUME MutexInv, [MutexNext]_mutexVars PROVE MutexInv'
  OBVIOUS
<1> USE OwnerValues DEF MutexInv, MutexType, OneHolderWithinLease
<1>1. ASSUME NEW t \in Owners, TryLock(t) PROVE MutexInv'
  BY <1>1 DEF TryLock, Take
<1>2. ASSUME NEW t \in Owners, TryLockReplyLost(t) PROVE MutexInv'
  BY <1>2 DEF TryLockReplyLost, Take
<1>3. ASSUME NEW t \in Owners, Unlock(t) PROVE MutexInv'
  BY <1>3 DEF Unlock, Leave, DeleteOwnKey
<1>4. ASSUME NEW t \in Owners, UnlockFails(t) PROVE MutexInv'
  BY <1>4 DEF UnlockFails, Leave
<1>5. CASE LeaseEnds
  BY <1>5 DEF LeaseEnds
<1>6. ASSUME NEW t \in Owners, OwnerDies(t) PROVE MutexInv'
  BY <1>6 DEF OwnerDies
<1>7. CASE UNCHANGED mutexVars
  BY <1>7 DEF mutexVars
<1>8. QED
  BY <1>1, <1>2, <1>3, <1>4, <1>5, <1>6, <1>7 DEF MutexNext

\* MutexRedisLock.tryLock and unlock: the key holds the token of a thread inside
\* whose lease has not ended, so there is at most one such thread.
THEOREM MutexExcludes == MutexSpec => [](MutexType /\ OneHolderWithinLease)
<1>1. MutexInv => MutexType /\ OneHolderWithinLease
  BY DEF MutexInv
<1>2. QED
  BY <1>1, MutexInitInv, MutexStepInv, PTL DEF MutexSpec

\* One step ends the hold of a thread only by that thread leaving, dying or
\* overrunning its lease.
LEMMA HoldStep ==
  ASSUME MutexInv, MutexNext, NEW t \in Owners, t \in inside, lock = t, lock' # t
  PROVE  t \notin inside' \/ t \in overran'
<1> USE OwnerValues DEF MutexInv, MutexType
<1>1. ASSUME NEW s \in Owners, TryLock(s) \/ TryLockReplyLost(s) PROVE FALSE
  BY <1>1 DEF TryLock, TryLockReplyLost, Take
<1>2. ASSUME NEW s \in Owners, Unlock(s) PROVE t \notin inside'
  BY <1>2 DEF Unlock, Leave, DeleteOwnKey
<1>3. ASSUME NEW s \in Owners, UnlockFails(s) PROVE FALSE
  BY <1>3 DEF UnlockFails
<1>4. CASE LeaseEnds
  BY <1>4 DEF LeaseEnds
<1>5. ASSUME NEW s \in Owners, OwnerDies(s) PROVE t \notin inside'
  BY <1>5 DEF OwnerDies
<1>6. QED
  BY <1>1, <1>2, <1>3, <1>4, <1>5 DEF MutexNext

\* unlock.lua: no call of another thread ends the hold of a thread whose lease runs,
\* also not the late unlock of one that has overrun its own.
THEOREM UnlocksOwnHold == MutexSpec => EndsOnlyOwnHold
<1>1. MutexInv /\ [MutexNext]_mutexVars =>
         [\A t \in Owners :
             t \in inside /\ lock = t /\ lock' # t => t \notin inside' \/ t \in overran']_mutexVars
  BY HoldStep
<1>2. QED
  BY <1>1, MutexInitInv, MutexStepInv, PTL DEF MutexSpec, EndsOnlyOwnHold

-----------------------------------------------------------------------------
(* The parts side by side.                                                 *)

UtilitiesInv == LoginInv /\ SignInv /\ IdInv /\ MutexInv

\* A step of the whole is a step of one part and none of the others.
LEMMA PartsStep ==
  ASSUME [Next]_vars
  PROVE  /\ [SessionNext]_sessionVars /\ [SignNext]_signVars
         /\ [IdNext]_idVars /\ [MutexNext]_mutexVars
BY DEF Next, vars, SessionStep, SignStep, IdStep, MutexStep

LEMMA UtilitiesInitInv == Init => UtilitiesInv
BY LoginInitInv, SignInitInv, IdInitInv, MutexInitInv DEF Init, UtilitiesInv

LEMMA UtilitiesStepInv == UtilitiesInv /\ [Next]_vars => UtilitiesInv'
BY PartsStep, LoginStepInv, SignStepInv, IdStepInv, MutexStepInv DEF UtilitiesInv

LEMMA UtilitiesInvariant == Spec => []UtilitiesInv
BY UtilitiesInitInv, UtilitiesStepInv, PTL DEF Spec

\* Types and bounds of all the four parts.
THEOREM UtilitiesTyped == Spec => []TypeOK
<1>1. UtilitiesInv => TypeOK
  BY LoginTyped DEF UtilitiesInv, SignInv, IdInv, MutexInv, TypeOK
<1>2. QED
  BY <1>1, UtilitiesInvariant, PTL

\* UserServiceImpl.sign and signCount: the answer is the number of days without a gap
\* on which the user has checked in, up to the day of the question and within its
\* month, whatever the months and whenever the day or the month ends meanwhile.
THEOREM StreaksAreRight == Spec => []StreakIsConsecutive
<1>1. UtilitiesInv => StreakIsConsecutive
  BY DEF UtilitiesInv, SignInv
<1>2. QED
  BY <1>1, UtilitiesInvariant, PTL

\* RefreshTokenInterceptor, RedisIdWorker and MutexRedisLock as above, in the whole:
\* nobody's user and no endless session, ids unique and sorted, one holder.
THEOREM PartsKeepPromises ==
  Spec => [](/\ RunsAsItsSession /\ HeldSessionsEnd
             /\ UniquePerPrefix /\ SortedByCreation
             /\ OneHolderWithinLease)
<1>1. UtilitiesInv => /\ RunsAsItsSession /\ HeldSessionsEnd
                      /\ UniquePerPrefix /\ SortedByCreation
                      /\ OneHolderWithinLease
  BY InvUnique, InvSorted DEF UtilitiesInv, LoginInv, SessionInv, MutexInv
<1>2. QED
  BY <1>1, UtilitiesInvariant, PTL

\* common.js and unlock.lua: no step of the whole sends a client away without a
\* reason, or ends another thread's hold.
THEOREM PartsStepAsPromised == Spec => SentAwayWithoutSession /\ EndsOnlyOwnHold
<1>1. UtilitiesInv /\ [Next]_vars =>
         [\A c \in Clients :
             page[c] = "main" /\ page'[c] = "login" =>
                 session[token[c]] = Nobody \/ faults' > faults]_sessionVars
  BY PartsStep, LoginStepInv DEF UtilitiesInv, KeptIn
<1>2. UtilitiesInv /\ [Next]_vars =>
         [\A t \in Owners :
             t \in inside /\ lock = t /\ lock' # t => t \notin inside' \/ t \in overran']_mutexVars
  BY PartsStep, HoldStep DEF UtilitiesInv
<1>3. QED
  BY <1>1, <1>2, UtilitiesInvariant, PTL DEF Spec, SentAwayWithoutSession, EndsOnlyOwnHold
=============================================================================
