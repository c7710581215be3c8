---------------------------- MODULE IdWorkerProofs ----------------------------
(***************************************************************************)
(* RedisIdWorker for any number of threads, prefixes and days, any width   *)
(* of the counter and any clock: ids of one prefix differ, and follow the  *)
(* order of their creation while the clock runs forward.                   *)
(***************************************************************************)
EXTENDS IdWorker, TLAPS

IssuedId == [reading : Reading, count : 1..MaxDraws]

\* The key of a reading is one of the counters.
LEMMA ReadingsHaveKeys == \A r \in Reading : KeyOf(r) \in Counters
  BY DEF KeyOf, Counters, Days, Reading

LEMMA IssuedElements ==
  ASSUME IdType
  PROVE  /\ Len(issued) \in Nat /\ DOMAIN issued = 1..Len(issued)
         /\ \A i \in DOMAIN issued :
               /\ i \in Nat /\ issued[i] \in IssuedId
               /\ issued[i].reading \in Reading /\ issued[i].reading.second \in Nat
               /\ issued[i].count \in Nat
<1>1. issued \in Seq(IssuedId)
  BY DEF IdType, IssuedId
<1>2. Len(issued) \in Nat /\ DOMAIN issued = 1..Len(issued)
  BY <1>1
<1>3. \A i \in DOMAIN issued : i \in Nat /\ issued[i] \in IssuedId
  BY <1>1, <1>2
<1>4. \A id \in IssuedId : id.reading \in Reading /\ id.count \in Nat
  BY DEF IssuedId
<1>5. \A r \in Reading : r.second \in Nat
  BY IdConstants DEF Reading, Seconds
<1>6. QED
  BY <1>2, <1>3, <1>4, <1>5

\* What is in the ids handed out is bounded by the counter of their key.
CountsDrawn == \A i \in DOMAIN issued : issued[i].count <= counter[KeyOf(issued[i].reading)]

\* A later id of the same key has a greater count.
CountsGrow ==
    \A i, j \in DOMAIN issued :
        i < j /\ KeyOf(issued[i].reading) = KeyOf(issued[j].reading)
            => issued[i].count < issued[j].count

\* The ids handed out before a clock was read are at the front of the sequence.
BeforeIsFront ==
    /\ \A c \in Callers : call[c] # NoCall => call[c].before <= Len(issued)
    /\ \A j \in DOMAIN issued : issued[j].reading.before < j

\* With the clock running forward, nothing carries a later second than the clock, nor
\* an id a later second than a reading taken after it was handed out.
SecondsGrow ==
    ~setBack =>
        /\ \A i \in DOMAIN issued : issued[i].reading.second <= clock
        /\ \A c \in Callers : call[c] # NoCall =>
              /\ call[c].second <= clock
              /\ \A i \in 1..call[c].before : issued[i].reading.second <= call[c].second
        /\ \A j \in DOMAIN issued : \A i \in 1..issued[j].reading.before :
              issued[i].reading.second <= issued[j].reading.second

IdInv == IdType /\ CountsDrawn /\ CountsGrow /\ BeforeIsFront /\ SecondsGrow

LEMMA IdInitInv == IdInit => IdInv
<1> SUFFICES ASSUME IdInit PROVE IdInv
  OBVIOUS
<1>1. issued = <<>> /\ DOMAIN issued = {}
  BY DEF IdInit
<1>2. IdType
  <2>1. LastSecond \in Nat /\ 0 \in 0..MaxDraws
    BY IdConstants
  <2>2. clock \in Seconds
    BY <2>1 DEF IdInit, Seconds
  <2>3. counter \in [Counters -> 0..MaxDraws]
    BY <2>1 DEF IdInit
  <2>4. call \in [Callers -> Reading \cup {NoCall}]
    BY DEF IdInit
  <2>5. issued \in Seq([reading : Reading, count : 1..MaxDraws])
    BY <1>1
  <2>6. setBack \in BOOLEAN
    BY DEF IdInit
  <2>7. QED
    BY <2>2, <2>3, <2>4, <2>5, <2>6 DEF IdType
<1>3. CountsDrawn /\ CountsGrow
  BY <1>1 DEF CountsDrawn, CountsGrow
<1>4. BeforeIsFront /\ SecondsGrow
  BY <1>1 DEF IdInit, BeforeIsFront, SecondsGrow
<1>5. QED
  BY <1>2, <1>3, <1>4 DEF IdInv

LEMMA ClockRead ==
  ASSUME IdInv, NEW c \in Callers, NEW p \in Prefixes, ReadClock(c, p)
  PROVE  IdInv'
<1> USE DEF IdInv, ReadClock
<1> DEFINE r == [prefix |-> p, second |-> clock, before |-> Len(issued)]
<1>0. r \in Reading /\ r # NoCall /\ Len(issued) \in Nat /\ DOMAIN issued = 1..Len(issued)
  BY NoCallIsNoReading DEF IdType, Reading
<1>1. call' = [call EXCEPT ![c] = r]
  OBVIOUS
<1>2. IdType'
  BY <1>0, <1>1 DEF IdType
<1>3. CountsDrawn' /\ CountsGrow'
  BY DEF CountsDrawn, CountsGrow
<1>4. BeforeIsFront'
  BY <1>0, <1>1 DEF BeforeIsFront, IdType
<1>5. SecondsGrow'
  <2> SUFFICES ASSUME ~setBack PROVE SecondsGrow'
    BY DEF SecondsGrow
  <2>1. \A i \in DOMAIN issued' : issued'[i].reading.second <= clock'
    BY DEF SecondsGrow
  <2>2. ASSUME NEW d \in Callers, call'[d] # NoCall
        PROVE  /\ call'[d].second <= clock'
               /\ \A i \in 1..call'[d].before : issued'[i].reading.second <= call'[d].second
    <3>1. CASE d = c
      <4>1. call'[d] = r
        BY <1>1, <3>1 DEF IdType
      <4>2. r.second = clock /\ r.before = Len(issued) /\ clock <= clock
        BY DEF IdType, Seconds
      <4>3. QED
        BY <1>0, <4>1, <4>2 DEF SecondsGrow
    <3>2. CASE d # c
      <4>1. call'[d] = call[d]
        BY <1>1, <3>2 DEF IdType
      <4>2. QED
        BY <2>2, <4>1 DEF SecondsGrow
    <3>3. QED
      BY <3>1, <3>2
  <2>3. \A j \in DOMAIN issued' : \A i \in 1..issued'[j].reading.before :
              issued'[i].reading.second <= issued'[j].reading.second
    BY DEF SecondsGrow
  <2>4. QED
    BY <2>1, <2>2, <2>3 DEF SecondsGrow
<1>6. QED
  BY <1>2, <1>3, <1>4, <1>5

\* What one INCR does to the keys and the ids, for the steps that make one.
LEMMA Incremented ==
  ASSUME IdInv, NEW key \in Counters, counter[key] < MaxDraws,
         counter' = [counter EXCEPT ![key] = @ + 1]
  PROVE  /\ counter' \in [Counters -> 0..MaxDraws]
         /\ \A k \in Counters : counter[k] <= counter'[k]
         /\ counter'[key] = counter[key] + 1 /\ counter[key] + 1 \in 1..MaxDraws
  BY IdConstants DEF IdInv, IdType

LEMMA IdDrawn ==
  ASSUME IdInv, NEW c \in Callers, Draw(c)
  PROVE  IdInv'
<1> USE DEF IdInv
<1> DEFINE r == call[c]
           key == KeyOf(r)
           n == Len(issued)
           id == Id(r, counter[key] + 1)
<1>0. /\ r \in Reading /\ r # NoCall /\ key \in Counters
      /\ n \in Nat /\ DOMAIN issued = 1..n
  BY ReadingsHaveKeys DEF IdType, Draw
<1>1. /\ counter[key] < MaxDraws /\ counter' = [counter EXCEPT ![key] = @ + 1]
      /\ issued' = Append(issued, id) /\ call' = [call EXCEPT ![c] = NoCall]
      /\ UNCHANGED <<clock, setBack>>
  BY DEF Draw
<1> HIDE DEF key
<1>2. /\ counter' \in [Counters -> 0..MaxDraws]
      /\ \A k \in Counters : counter[k] <= counter'[k]
      /\ counter'[key] = counter[key] + 1 /\ counter[key] + 1 \in 1..MaxDraws
  BY <1>0, <1>1, Incremented
<1>3. id \in IssuedId /\ id.reading = r /\ id.count = counter[key] + 1
  BY <1>0, <1>2 DEF Id, IssuedId
<1> HIDE DEF id
<1>4. /\ issued' \in Seq(IssuedId) /\ DOMAIN issued' = 1..(n + 1) /\ Len(issued') = n + 1
      /\ issued'[n + 1] = id /\ \A i \in 1..n : issued'[i] = issued[i]
  BY <1>0, <1>1, <1>3 DEF IdType, IssuedId
<1>5. \A i \in 1..n : issued[i] \in IssuedId /\ KeyOf(issued[i].reading) \in Counters
  BY <1>0, ReadingsHaveKeys, IssuedElements
<1>6. \A d \in Callers : call'[d] # NoCall => d # c /\ call'[d] = call[d]
  BY <1>1 DEF IdType
<1>7. IdType'
  BY <1>0, <1>1, <1>2, <1>4 DEF IdType, IssuedId
<1>8. CountsDrawn'
  <2> SUFFICES ASSUME NEW i \in 1..(n + 1)
               PROVE  issued'[i].count <= counter'[KeyOf(issued'[i].reading)]
    BY <1>4 DEF CountsDrawn
  <2>1. CASE i = n + 1
    BY <1>2, <1>3, <1>4, <2>1 DEF key, IdType
  <2>2. CASE i # n + 1
    <3>1. i \in 1..n /\ issued'[i] = issued[i] /\ issued[i].count \in Nat
      BY <1>0, <1>4, <1>5, <2>2 DEF IssuedId
    <3>2. issued[i].count <= counter[KeyOf(issued[i].reading)]
      BY <1>0, <3>1 DEF CountsDrawn
    <3>3. QED
      BY <1>2, <1>5, <3>1, <3>2 DEF IdType
  <2>3. QED
    BY <2>1, <2>2
<1>9. CountsGrow'
  <2> SUFFICES ASSUME NEW i \in 1..(n + 1), NEW j \in 1..(n + 1), i < j,
                      KeyOf(issued'[i].reading) = KeyOf(issued'[j].reading)
               PROVE  issued'[i].count < issued'[j].count
    BY <1>4 DEF CountsGrow
  <2>1. i \in 1..n /\ issued'[i] = issued[i] /\ issued[i].count \in Nat
    BY <1>0, <1>4, <1>5 DEF IssuedId
  <2>2. CASE j = n + 1
    <3>1. KeyOf(issued[i].reading) = key
      BY <1>3, <1>4, <2>1, <2>2 DEF key
    <3>2. issued[i].count <= counter[key]
      BY <1>0, <2>1, <3>1 DEF CountsDrawn
    <3>3. QED
      BY <1>0, <1>3, <1>4, <2>1, <2>2, <3>2 DEF IdType
  <2>3. CASE j # n + 1
    BY <1>0, <1>4, <2>1, <2>3 DEF CountsGrow
  <2>4. QED
    BY <2>2, <2>3
<1>10. r.before \in Nat /\ r.before <= n
  BY <1>0 DEF BeforeIsFront, Reading
<1>11. \A j \in 1..n : issued[j].reading.before \in Nat /\ issued[j].reading.before < j
  BY <1>0, <1>5 DEF BeforeIsFront, IssuedId, Reading
<1>12. BeforeIsFront'
  <2>1. \A d \in Callers : call'[d] # NoCall => call'[d].before <= Len(issued')
    <3> SUFFICES ASSUME NEW d \in Callers, call'[d] # NoCall PROVE call'[d].before <= n + 1
      BY <1>4
    <3>1. call'[d] = call[d] /\ call[d] # NoCall /\ call[d].before \in Nat
      BY <1>6 DEF IdType, Reading
    <3>2. QED
      BY <1>0, <3>1 DEF BeforeIsFront
  <2>2. \A j \in 1..(n + 1) : issued'[j].reading.before < j
    BY <1>0, <1>3, <1>4, <1>10, <1>11
  <2>3. QED
    BY <1>4, <2>1, <2>2 DEF BeforeIsFront
<1>13. SecondsGrow'
  <2> SUFFICES ASSUME ~setBack
               PROVE  /\ \A i \in 1..(n + 1) : issued'[i].reading.second <= clock
                      /\ \A d \in Callers : call'[d] # NoCall =>
                            /\ call'[d].second <= clock
                            /\ \A i \in 1..call'[d].before :
                                  issued'[i].reading.second <= call'[d].second
                      /\ \A j \in 1..(n + 1) : \A i \in 1..issued'[j].reading.before :
                            issued'[i].reading.second <= issued'[j].reading.second
    BY <1>1, <1>4 DEF SecondsGrow
  <2>1. r.second <= clock /\ \A i \in 1..r.before : issued[i].reading.second <= r.second
    BY <1>0 DEF SecondsGrow
  <2>2. \A i \in 1..(n + 1) : issued'[i].reading.second <= clock
    BY <1>0, <1>3, <1>4, <2>1 DEF SecondsGrow
  <2>3. ASSUME NEW d \in Callers, call'[d] # NoCall
        PROVE  /\ call'[d].second <= clock
               /\ \A i \in 1..call'[d].before : issued'[i].reading.second <= call'[d].second
    <3>1. call'[d] = call[d] /\ call[d] # NoCall
      BY <1>6, <2>3
    <3>2. call[d].before \in Nat /\ call[d].before <= n
      BY <3>1 DEF BeforeIsFront, IdType, Reading
    <3>3. QED
      BY <1>0, <1>4, <3>1, <3>2 DEF SecondsGrow
  <2>4. ASSUME NEW j \in 1..(n + 1), NEW i \in 1..issued'[j].reading.before
        PROVE  issued'[i].reading.second <= issued'[j].reading.second
    <3>1. CASE j = n + 1
      <4>1. i \in 1..n /\ i \in 1..r.before
        BY <1>0, <1>3, <1>4, <1>10, <3>1
      <4>2. QED
        BY <1>3, <1>4, <2>1, <3>1, <4>1
    <3>2. CASE j # n + 1
      <4>1. j \in 1..n /\ i \in 1..n /\ i \in 1..issued[j].reading.before
        BY <1>0, <1>4, <1>11, <3>2
      <4>2. QED
        BY <1>0, <1>4, <4>1 DEF SecondsGrow
    <3>3. QED
      BY <3>1, <3>2
  <2>5. QED
    BY <2>2, <2>3, <2>4
<1>14. QED
  BY <1>7, <1>8, <1>9, <1>12, <1>13

LEMMA DrawFailed ==
  ASSUME IdInv, NEW c \in Callers, DrawFails(c)
  PROVE  IdInv'
<1> USE DEF IdInv
<1> DEFINE key == KeyOf(call[c])
<1>0. /\ call[c] # NoCall /\ counter[key] < MaxDraws
      /\ counter' \in {counter, [counter EXCEPT ![key] = @ + 1]}
      /\ call' = [call EXCEPT ![c] = NoCall] /\ UNCHANGED <<clock, issued, setBack>>
  BY DEF DrawFails
<1>1. key \in Counters
  BY <1>0, ReadingsHaveKeys DEF IdType
<1>2. counter' \in [Counters -> 0..MaxDraws] /\ \A k \in Counters : counter[k] <= counter'[k]
  <2>1. CASE counter' = counter
    BY <2>1 DEF IdType
  <2>2. CASE counter' # counter
    <3>1. counter' = [counter EXCEPT ![key] = @ + 1]
      BY <1>0, <2>2
    <3> HIDE DEF key
    <3>2. QED
      BY <1>0, <1>1, <3>1, Incremented
  <2>3. QED
    BY <2>1, <2>2
<1>3. \A d \in Callers : call'[d] # NoCall => call'[d] = call[d] /\ call[d] # NoCall
  BY <1>0 DEF IdType
<1>4. IdType'
  BY <1>0, <1>2 DEF IdType
<1>5. CountsDrawn'
  <2> SUFFICES ASSUME NEW i \in DOMAIN issued
               PROVE  issued[i].count <= counter'[KeyOf(issued[i].reading)]
    BY <1>0 DEF CountsDrawn
  <2>1. KeyOf(issued[i].reading) \in Counters /\ issued[i].count \in Nat
    BY ReadingsHaveKeys, IssuedElements
  <2>2. QED
    BY <1>2, <2>1 DEF CountsDrawn, IdType
<1>6. CountsGrow' /\ BeforeIsFront'
  BY <1>0, <1>3 DEF CountsGrow, BeforeIsFront
<1>7. SecondsGrow'
  BY <1>0, <1>3 DEF SecondsGrow
<1>8. QED
  BY <1>4, <1>5, <1>6, <1>7

LEMMA ClockMoved ==
  ASSUME IdInv, Tick \/ SetClockBack
  PROVE  IdInv'
<1> USE DEF IdInv
<1>0. UNCHANGED <<counter, call, issued>>
  BY DEF Tick, SetClockBack
<1>1. clock' \in Seconds /\ setBack' \in BOOLEAN /\ clock \in Nat
  <2>1. LastSecond \in Nat /\ clock \in 0..LastSecond /\ setBack \in BOOLEAN
    BY IdConstants DEF IdType, Seconds
  <2>2. CASE Tick
    BY <2>1, <2>2 DEF Tick, Seconds
  <2>3. CASE SetClockBack
    BY <2>1, <2>3 DEF SetClockBack, Seconds
  <2>4. QED
    BY <2>1, <2>2, <2>3
<1>2. IdType'
  BY <1>0, <1>1 DEF IdType
<1>3. CountsDrawn' /\ CountsGrow' /\ BeforeIsFront'
  BY <1>0 DEF CountsDrawn, CountsGrow, BeforeIsFront
<1>4. SecondsGrow'
  <2>1. CASE SetClockBack
    BY <2>1 DEF SecondsGrow, SetClockBack
  <2>2. CASE Tick /\ ~setBack
    <3>1. clock' = clock + 1 /\ setBack' = setBack
      BY <2>2 DEF Tick
    <3>2. \A i \in DOMAIN issued : issued[i].reading.second \in Nat
      BY IssuedElements
    <3>3. \A c \in Callers : call[c] # NoCall => call[c].second \in Nat
      BY DEF IdType, Reading, Seconds
    <3>4. QED
      BY <1>0, <1>1, <2>2, <3>1, <3>2, <3>3 DEF SecondsGrow
  <2>3. CASE Tick /\ setBack
    BY <2>3 DEF Tick, SecondsGrow
  <2>4. QED
    BY <2>1, <2>2, <2>3
<1>5. QED
  BY <1>2, <1>3, <1>4

LEMMA IdStepInv == IdInv /\ [IdNext]_idVars => IdInv'
<1> SUFFICES ASSUME IdInv, [IdNext]_idVars PROVE IdInv'
  OBVIOUS
<1>1. CASE IdNext
  BY <1>1, ClockRead, IdDrawn, DrawFailed, ClockMoved DEF IdNext
<1>2. CASE UNCHANGED idVars
  BY <1>2 DEF idVars, IdInv, IdType, CountsDrawn, CountsGrow, BeforeIsFront, SecondsGrow
<1>3. QED
  BY <1>1, <1>2

\* seconds << COUNT_BITS | count orders pairs first by second and then by count, as
\* long as the counts fit.
LEMMA ComposeOrders ==
  ASSUME NEW s \in Nat, NEW t \in Nat, NEW m \in Nat, NEW n \in Nat, m < Width, n < Width,
         s < t \/ (s = t /\ m < n)
  PROVE  Compose(s, m) < Compose(t, n)
<1>1. Compose(s, m) = s * Width + m /\ Compose(t, n) = t * Width + n /\ Width \in Nat
  BY IdConstants DEF Compose
<1>2. CASE s < t
  <2>1. PICK d \in Nat : t = s + 1 + d
    <3>1. t - s - 1 \in Nat /\ t = s + 1 + (t - s - 1)
      BY <1>2
    <3>2. QED
      BY <3>1
  <2>2. t * Width = s * Width + Width + d * Width
    BY <1>1, <2>1
  <2>3. s * Width \in Nat /\ d * Width \in Nat
    BY <1>1
  <2>4. QED
    BY <1>1, <2>2, <2>3
<1>3. CASE s = t /\ m < n
  <2>1. s * Width \in Nat
    BY <1>1
  <2>2. QED
    BY <1>1, <1>3, <2>1
<1>4. QED
  BY <1>2, <1>3

\* What the invariant says of two ids while the counters are within their width.
LEMMA WithinWidthFacts ==
  ASSUME IdInv, WithinWidth
  PROVE  \A i \in DOMAIN issued :
            /\ i \in Nat
            /\ issued[i].count \in Nat /\ issued[i].count < Width
            /\ issued[i].reading \in Reading /\ issued[i].reading.second \in Nat
            /\ issued[i].reading.before \in Nat
<1> SUFFICES ASSUME NEW i \in DOMAIN issued
             PROVE  /\ i \in Nat
                    /\ issued[i].count \in Nat /\ issued[i].count < Width
                    /\ issued[i].reading \in Reading /\ issued[i].reading.second \in Nat
                    /\ issued[i].reading.before \in Nat
  OBVIOUS
<1>1. i \in Nat /\ issued[i] \in IssuedId
  BY IssuedElements DEF IdInv
<1>2. issued[i].reading \in Reading /\ issued[i].count \in Nat
  BY IssuedElements DEF IdInv
<1>3. KeyOf(issued[i].reading) \in Counters
  BY <1>2, ReadingsHaveKeys
<1>4. counter[KeyOf(issued[i].reading)] < Width /\ counter[KeyOf(issued[i].reading)] \in Nat
  BY <1>3 DEF WithinWidth, IdInv, IdType
<1>5. issued[i].count <= counter[KeyOf(issued[i].reading)]
  BY DEF IdInv, CountsDrawn
<1>6. QED
  BY <1>1, <1>2, <1>4, <1>5, IdConstants DEF Reading, Seconds

LEMMA SameSecondSameKey ==
  ASSUME NEW r \in Reading, NEW q \in Reading, r.prefix = q.prefix, r.second = q.second
  PROVE  KeyOf(r) = KeyOf(q)
  BY DEF KeyOf

LEMMA InvUnique == IdInv => UniquePerPrefix
<1> SUFFICES ASSUME IdInv, WithinWidth,
                    NEW i \in DOMAIN issued, NEW j \in DOMAIN issued,
                    issued[i].reading.prefix = issued[j].reading.prefix,
                    Value(issued[i]) = Value(issued[j]), i # j
             PROVE  FALSE
  BY DEF UniquePerPrefix
<1> DEFINE a == issued[i]  b == issued[j]
<1>1. /\ i \in Nat /\ j \in Nat
      /\ a.count \in Nat /\ a.count < Width /\ b.count \in Nat /\ b.count < Width
      /\ a.reading \in Reading /\ b.reading \in Reading
      /\ a.reading.second \in Nat /\ b.reading.second \in Nat
  BY WithinWidthFacts
<1>2. Compose(a.reading.second, a.count) \in Nat /\ Compose(b.reading.second, b.count) \in Nat
  BY <1>1, IdConstants DEF Compose
<1>3. Compose(a.reading.second, a.count) = Compose(b.reading.second, b.count)
  BY DEF Value
<1>4. a.reading.second = b.reading.second
  BY <1>1, <1>2, <1>3, ComposeOrders
<1>5. a.count = b.count
  BY <1>1, <1>2, <1>3, <1>4, ComposeOrders
<1>6. KeyOf(a.reading) = KeyOf(b.reading)
  BY <1>1, <1>4, SameSecondSameKey
<1>7. i < j \/ j < i
  BY <1>1
<1>8. QED
  BY <1>1, <1>5, <1>6, <1>7 DEF IdInv, CountsGrow

LEMMA InvSorted == IdInv => SortedByCreation
<1> SUFFICES ASSUME IdInv, WithinWidth, ~setBack,
                    NEW i \in DOMAIN issued, NEW j \in DOMAIN issued,
                    issued[i].reading.prefix = issued[j].reading.prefix,
                    i <= issued[j].reading.before
             PROVE  Value(issued[i]) < Value(issued[j])
  BY DEF SortedByCreation
<1> DEFINE a == issued[i]  b == issued[j]
<1>1. /\ i \in Nat /\ j \in Nat /\ i >= 1 /\ b.reading.before \in Nat
      /\ a.count \in Nat /\ a.count < Width /\ b.count \in Nat /\ b.count < Width
      /\ a.reading \in Reading /\ b.reading \in Reading
      /\ a.reading.second \in Nat /\ b.reading.second \in Nat
  <2>1. i >= 1
    BY DEF IdInv, IdType
  <2>2. QED
    BY <2>1, WithinWidthFacts
<1>2. i < j
  BY <1>1 DEF IdInv, BeforeIsFront
<1>3. a.reading.second <= b.reading.second
  BY <1>1 DEF IdInv, SecondsGrow
<1>4. a.reading.second = b.reading.second => a.count < b.count
  BY <1>1, <1>2, SameSecondSameKey DEF IdInv, CountsGrow
<1>5. Compose(a.reading.second, a.count) < Compose(b.reading.second, b.count)
  BY <1>1, <1>3, <1>4, ComposeOrders
<1>6. QED
  BY <1>5 DEF Value

\* RedisIdWorker.nextId: whatever the clocks of the instances do, two ids of one
\* prefix differ as long as no day's counter outgrows COUNT_BITS.
THEOREM IdsAreUnique == IdSpec => [](IdType /\ UniquePerPrefix)
<1>1. IdInv => IdType
  BY DEF IdInv
<1>2. QED
  BY <1>1, IdInitInv, IdStepInv, InvUnique, PTL DEF IdSpec

\* RedisIdWorker.nextId: an id asked for after another one of its prefix was handed
\* out is greater, over midnight too, unless the clock was set back.
THEOREM IdsAreSorted == IdSpec => []SortedByCreation
  BY IdInitInv, IdStepInv, InvSorted, PTL DEF IdSpec
=============================================================================
