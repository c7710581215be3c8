------------------------------ MODULE IdWorker ------------------------------
(***************************************************************************)
(* RedisIdWorker.nextId: the local clock is read once, the counter of that *)
(* prefix and day is incremented in Redis, and the two are put together as *)
(* timeStamp << COUNT_BITS | count.  The clock runs forward and may be set  *)
(* back (LocalDateTime.now() is local time: also in the night that ends    *)
(* summer time); to the counters, an instance whose clock is behind looks  *)
(* just like one clock set back.                                           *)
(***************************************************************************)
EXTENDS Naturals, Sequences

CONSTANTS
    Callers,      \* threads that may call nextId
    NoCall,       \* a thread that is not calling it
    Prefixes,     \* business types, each with a counter of its own
    Width,        \* 2^COUNT_BITS
    DayLength,    \* seconds of a day
    LastSecond,   \* bound on the clocks
    MaxDraws,     \* bound on one day's counter
    MaxIds        \* bound on the ids handed out

ASSUME IdConstants ==
    /\ Width \in Nat \ {0} /\ DayLength \in Nat \ {0} /\ LastSecond \in Nat
    /\ MaxDraws \in 0..2 * Width - 1
    /\ MaxIds \in Nat

VARIABLES
    clock,     \* seconds since BEGIN_TIMESTAMP
    counter,   \* counter[p, day]: icr:<p>:<date>, a key that is never deleted
    call,      \* call[c]: what the call of that thread has read, or NoCall
    issued,    \* the ids handed out, in that order (history)
    setBack    \* has the clock been set back? (history)

idVars == <<clock, counter, call, issued, setBack>>

Seconds == 0..LastSecond
Day(s) == s \div DayLength
Days == {Day(s) : s \in Seconds}
Counters == Prefixes \X Days

\* before: how many ids had been handed out when the call began (history).
Reading == [prefix : Prefixes, second : Seconds, before : Nat]

Id(reading, count) == [reading |-> reading, count |-> count]

ASSUME NoCallIsNoReading == NoCall \notin Reading

\* Mutant: seconds and count are added up without the shift.
ComposeUnshifted(second, count) == second + count

\* timeStamp << COUNT_BITS | count; a counter past its width (below twice that,
\* see MaxDraws) sets the lowest bit of the seconds.
Compose(second, count) ==
    IF count < Width THEN second * Width + count
    ELSE (IF second % 2 = 0 THEN second + 1 ELSE second) * Width + (count - Width)

Value(id) == Compose(id.reading.second, id.count)

IdInit ==
    /\ clock = 0
    /\ counter = [k \in Counters |-> 0]
    /\ call = [c \in Callers |-> NoCall]
    /\ issued = <<>>
    /\ setBack = FALSE

\* One read of the clock gives both the second and the date of the counter key.
ReadClock(c, p) ==
    /\ call[c] = NoCall
    /\ call' = [call EXCEPT ![c] = [prefix |-> p, second |-> clock, before |-> Len(issued)]]
    /\ UNCHANGED <<clock, counter, issued, setBack>>

\* Mutant: the date of the key comes from a second look at the clock.
KeyOfNow(reading) == <<reading.prefix, Day(clock)>>

\* "icr:" + keyPrefix + ":" + date
KeyOf(reading) == <<reading.prefix, Day(reading.second)>>

\* INCR of the day's counter, and the id.
Draw(c) ==
    LET key == KeyOf(call[c]) IN
    /\ call[c] # NoCall
    /\ counter[key] < MaxDraws /\ Len(issued) < MaxIds
    /\ counter' = [counter EXCEPT ![key] = @ + 1]
    /\ issued' = Append(issued, Id(call[c], counter[key] + 1))
    /\ call' = [call EXCEPT ![c] = NoCall]
    /\ UNCHANGED <<clock, setBack>>

\* INCR raised an error, applied or not: nextId throws.
DrawFails(c) ==
    LET key == KeyOf(call[c]) IN
    /\ call[c] # NoCall
    /\ counter[key] < MaxDraws
    /\ counter' \in {counter, [counter EXCEPT ![key] = @ + 1]}
    /\ call' = [call EXCEPT ![c] = NoCall]
    /\ UNCHANGED <<clock, issued, setBack>>

Tick ==
    /\ clock < LastSecond
    /\ clock' = clock + 1
    /\ UNCHANGED <<counter, call, issued, setBack>>

SetClockBack ==
    /\ clock > 0
    /\ clock' = clock - 1
    /\ setBack' = TRUE
    /\ UNCHANGED <<counter, call, issued>>

IdNext ==
    \/ \E c \in Callers, p \in Prefixes : ReadClock(c, p)
    \/ \E c \in Callers : Draw(c)
    \/ \E c \in Callers : DrawFails(c)
    \/ Tick \/ SetClockBack

IdSpec == IdInit /\ [][IdNext]_idVars

-----------------------------------------------------------------------------
IdType ==
    /\ clock \in Seconds
    /\ counter \in [Counters -> 0..MaxDraws]
    /\ call \in [Callers -> Reading \cup {NoCall}]
    /\ issued \in Seq([reading : Reading, count : 1..MaxDraws])
    /\ setBack \in BOOLEAN

WithinWidth == \A k \in Counters : counter[k] < Width

\* "Collision-free: timestamp + atomic counter guarantees uniqueness", on as
\* many instances as there are, however their clocks differ or are set back: no
\* two ids of one prefix are equal as long as no day's counter outgrew its bits.
\* (Ids of two prefixes may be equal: each prefix has its own counters, and it is no
\* part of the id.)
UniquePerPrefix ==
    WithinWidth =>
        \A i, j \in DOMAIN issued :
            /\ issued[i].reading.prefix = issued[j].reading.prefix
            /\ Value(issued[i]) = Value(issued[j])
            => i = j

\* "Sortable by creation time": an id asked for after another one of the same
\* prefix was handed out is greater, over midnight too, unless the clock was set
\* back or a counter outgrew its bits.
SortedByCreation ==
    WithinWidth /\ ~setBack =>
        \A i, j \in DOMAIN issued :
            /\ issued[i].reading.prefix = issued[j].reading.prefix
            /\ i <= issued[j].reading.before
            => Value(issued[i]) < Value(issued[j])
=============================================================================
