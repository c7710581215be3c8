------------------------------- MODULE SignIn -------------------------------
(***************************************************************************)
(* UserServiceImpl.sign and signCount for one user: one bitmap per month,  *)
(* one bit per day.  Both read the clock once and then make one call to    *)
(* Redis, before which the day, and the month, may have ended.             *)
(***************************************************************************)
EXTENDS Naturals

CONSTANTS
    Months,     \* bound: months 0..Months - 1
    MonthLength \* days of a month

ASSUME SignConstants == Months \in Nat \ {0} /\ MonthLength \in Nat \ {0}

VARIABLES
    today,    \* the current day, counted from the first day of month 0
    bitmap,   \* bitmap[m]: offsets of the bits set in sign:<user><m>
    signed,   \* the days on which the user has checked in (history)
    asked,    \* asked[op]: the day the clock showed to the request under way, or NoDay
    streak    \* the last answer of signCount with the days it was computed from

signVars == <<today, bitmap, signed, asked, streak>>

LastDay == Months * MonthLength - 1
CalendarDays == 0..LastDay
NoDay == LastDay + 1

Month(day) == day \div MonthLength
DayOfMonth(day) == (day % MonthLength) + 1

SignInit ==
    /\ today = 0
    /\ bitmap = [m \in 0..Months - 1 |-> {}]
    /\ signed = {}
    /\ asked = [op \in {"sign", "count"} |-> NoDay]
    /\ streak = [count |-> 0, day |-> 0, signed |-> {}]

NextDay ==
    /\ today < LastDay
    /\ today' = today + 1
    /\ UNCHANGED <<bitmap, signed, asked, streak>>

ReadDate(op) ==
    /\ asked[op] = NoDay
    /\ asked' = [asked EXCEPT ![op] = today]
    /\ UNCHANGED <<today, bitmap, signed, streak>>

\* Mutant: the first day of the month has offset 1.
OffsetFromOne(day) == DayOfMonth(day)

Offset(day) == DayOfMonth(day) - 1

\* SETBIT sign:<user><month> <dayOfMonth - 1> 1
Sign ==
    LET day == asked["sign"] IN
    /\ day # NoDay
    /\ bitmap' = [bitmap EXCEPT ![Month(day)] = @ \cup {Offset(day)}]
    /\ signed' = signed \cup {day}
    /\ asked' = [asked EXCEPT !["sign"] = NoDay]
    /\ UNCHANGED <<today, streak>>

\* BITFIELD GET u<width> 0: the number, as the set of the positions of its ones.  Bit 0
\* of the bitmap is the most significant one, at position width - 1.
Field(bits, width) == {width - 1 - o : o \in {o \in bits : o < width}}

\* num >>>= 1
ShiftRight(num) == {b - 1 : b \in num \ {0}}

\* The loop of signCount: test the last bit, count, shift.
TrailingOnes[num \in SUBSET (0..MonthLength - 1)] ==
    IF 0 \in num THEN 1 + TrailingOnes[ShiftRight(num)] ELSE 0

SignCount ==
    LET day == asked["count"] IN
    /\ day # NoDay
    /\ streak' = [count |-> TrailingOnes[Field(bitmap[Month(day)], DayOfMonth(day))],
                  day |-> day, signed |-> signed]
    /\ asked' = [asked EXCEPT !["count"] = NoDay]
    /\ UNCHANGED <<today, bitmap, signed>>

\* The call throws, applied or not.
RequestFails(op) ==
    LET day == asked[op] IN
    /\ day # NoDay
    /\ \/ UNCHANGED <<bitmap, signed>>
       \/ /\ op = "sign"
          /\ bitmap' = [bitmap EXCEPT ![Month(day)] = @ \cup {Offset(day)}]
          /\ signed' = signed \cup {day}
    /\ asked' = [asked EXCEPT ![op] = NoDay]
    /\ UNCHANGED <<today, streak>>

SignNext ==
    \/ NextDay
    \/ \E op \in {"sign", "count"} : ReadDate(op) \/ RequestFails(op)
    \/ Sign
    \/ SignCount

-----------------------------------------------------------------------------
SignType ==
    /\ today \in CalendarDays
    /\ bitmap \in [0..Months - 1 -> SUBSET (0..MonthLength - 1)]
    /\ signed \in SUBSET CalendarDays
    /\ asked \in [{"sign", "count"} -> CalendarDays \cup {NoDay}]
    /\ streak \in [count : 0..MonthLength, day : CalendarDays, signed : SUBSET CalendarDays]

\* What the answer of signCount means: the number of days without a gap on which
\* the user has checked in, up to the day of the question and within its month.
StreakIsConsecutive ==
    LET run(n) == (streak.day - n + 1)..streak.day
        fits(n) == n < DayOfMonth(streak.day) + 1 /\ run(n) \subseteq streak.signed
    IN  /\ fits(streak.count)
        /\ \A n \in streak.count + 1..MonthLength : ~fits(n)
=============================================================================
