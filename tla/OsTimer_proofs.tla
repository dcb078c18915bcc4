--------------------------- MODULE OsTimer_proofs ---------------------------
(***************************************************************************)
(* The safety of OsTimer and that it implements TimerService, for any      *)
(* timers, any number of threads and any capacity of the task's queue.     *)
(* The theorems assume that no timer is destroyed while it is stopped:     *)
(* what happens then is what the run of OsTimer_destructor.cfg shows.      *)
(***************************************************************************)
EXTENDS OsTimer, FiniteSetTheorems, FunctionTheorems, SequenceTheorems,
        WellFoundedInduction, TLAPS

-----------------------------------------------------------------------------
(* Parities.                                                                *)

LEMMA Parity ==
  \A n \in Nat : /\ isStarted(n) <=> ~isStopped(n)
                 /\ isStarted(n + 1) <=> isStopped(n)
                 /\ isStopped(n + 1) <=> isStarted(n)
BY DEF isStarted, isStopped

LEMMA ZeroIsStopped == isStopped(0) /\ ~isStarted(0)
BY DEF isStarted, isStopped

-----------------------------------------------------------------------------
(* The queue of the running timers.                                         *)

Sorted(s, f) == \A i, j \in 1..Len(s) : i < j => f[s[i]] <= f[s[j]]

\* A set of positive numbers that is not empty has a least one.
LEMMA LeastPosition ==
  ASSUME NEW S \in SUBSET (Nat \ {0}), S # {}
  PROVE  /\ Min(S) \in S
         /\ \A i \in S : Min(S) <= i
<1> DEFINE lessThan == OpToRel(<, Nat)
<1>1. S \subseteq Nat
  OBVIOUS
<1>2. \E m \in S : \A i \in S : ~(<<i, m>> \in lessThan)
  BY <1>1, NatLessThanWellFounded, WFMin
<1>3. ASSUME NEW i \in Nat, NEW m \in Nat, i < m
      PROVE  <<i, m>> \in lessThan
  <2>1. <<i, m>> \in Nat \X Nat /\ <<i, m>>[1] = i /\ <<i, m>>[2] = m
    OBVIOUS
  <2> QED
    BY <1>3, <2>1 DEF OpToRel
<1> HIDE DEF lessThan
<1>4. PICK m \in S : \A i \in S : ~(<<i, m>> \in lessThan)
  BY <1>2
<1>5. \A i \in S : m <= i
  <2> TAKE i \in S
  <2>1. i \in Nat /\ m \in Nat /\ ~(<<i, m>> \in lessThan)
    BY <1>1, <1>4
  <2>2. ~(i < m)
    BY <1>3, <2>1
  <2> QED
    BY <2>1, <2>2
<1> QED
  BY <1>4, <1>5 DEF Min

\* The sequence with an element more; the order of the times f is kept when the
\* element goes to a place behind all that are before time and before all that
\* are not.
LEMMA InsertedAt ==
  ASSUME NEW S, NEW s \in Seq(S), NEW t \in S, NEW p \in 1..(Len(s) + 1),
         NEW r, r = InsertAt(s, p, t)
  PROVE  /\ r \in Seq(S) /\ Len(r) = Len(s) + 1
         /\ \A i \in 1..Len(r) :
              r[i] = IF i < p THEN s[i] ELSE IF i = p THEN t ELSE s[i - 1]
<1>0. Len(s) \in Nat /\ \A i \in 1..Len(s) : s[i] \in S
  OBVIOUS
<1> DEFINE front == SubSeq(s, 1, p - 1)
           back  == SubSeq(s, p, Len(s))
<1>1. /\ front \in Seq(S) /\ Len(front) = p - 1
      /\ \A i \in 1..(p - 1) : front[i] = s[i]
  BY <1>0, SubSeqProperties
<1>2. /\ back \in Seq(S) /\ Len(back) = Len(s) - p + 1
      /\ \A i \in 1..(Len(s) - p + 1) : back[i] = s[p + i - 1]
  BY <1>0, SubSeqProperties
<1>3. r = front \o <<t>> \o back
  BY DEF InsertAt
<1> HIDE DEF front, back
<1>4. <<t>> \in Seq(S) /\ Len(<<t>>) = 1 /\ <<t>>[1] = t
  OBVIOUS
<1> DEFINE fore == front \o <<t>>
<1>5. /\ fore \in Seq(S) /\ Len(fore) = p
      /\ \A i \in 1..p : fore[i] = IF i < p THEN s[i] ELSE t
  BY <1>0, <1>1, <1>4, ConcatProperties
<1>6. r = fore \o back
  BY <1>3
<1> HIDE DEF fore
<1>7. /\ r \in Seq(S) /\ Len(r) = Len(s) + 1
      /\ \A i \in 1..Len(r) : r[i] = IF i <= p THEN fore[i] ELSE back[i - p]
  <2>1. /\ fore \o back \in Seq(S) /\ Len(fore \o back) = Len(fore) + Len(back)
        /\ \A i \in 1..(Len(fore) + Len(back)) :
             (fore \o back)[i] = IF i <= Len(fore) THEN fore[i] ELSE back[i - Len(fore)]
    BY <1>2, <1>5, ConcatProperties
  <2>2. Len(fore) + Len(back) = Len(s) + 1
    BY <1>0, <1>2, <1>5
  <2> QED
    BY <1>5, <1>6, <2>1, <2>2
<1>8. ASSUME NEW i \in 1..Len(r)
      PROVE  r[i] = IF i < p THEN s[i] ELSE IF i = p THEN t ELSE s[i - 1]
  <2>1. CASE i <= p
    BY <1>5, <1>7, <2>1
  <2>2. CASE i > p
    <3>1. i - p \in 1..(Len(s) - p + 1) /\ r[i] = back[i - p]
      BY <1>0, <1>7, <2>2
    <3>2. back[i - p] = s[p + (i - p) - 1]
      BY <1>2, <3>1
    <3>3. p + (i - p) - 1 = i - 1
      BY <1>0
    <3> QED
      BY <2>2, <3>1, <3>2, <3>3
  <2> QED
    BY <2>1, <2>2
<1> QED
  BY <1>7, <1>8

LEMMA RemovedAt ==
  ASSUME NEW S, NEW s \in Seq(S), NEW p \in 1..Len(s), NEW r, r = RemoveAt(s, p)
  PROVE  /\ r \in Seq(S) /\ Len(r) = Len(s) - 1
         /\ \A i \in 1..Len(r) : r[i] = IF i < p THEN s[i] ELSE s[i + 1]
<1>0. Len(s) \in Nat /\ \A i \in 1..Len(s) : s[i] \in S
  OBVIOUS
<1> DEFINE front == SubSeq(s, 1, p - 1)
           back  == SubSeq(s, p + 1, Len(s))
<1>1. /\ front \in Seq(S) /\ Len(front) = p - 1
      /\ \A i \in 1..(p - 1) : front[i] = s[i]
  BY <1>0, SubSeqProperties
<1>2. /\ back \in Seq(S) /\ Len(back) = Len(s) - p
      /\ \A i \in 1..(Len(s) - p) : back[i] = s[(p + 1) + i - 1]
  BY <1>0, SubSeqProperties
<1>3. r = front \o back
  BY DEF RemoveAt
<1> HIDE DEF front, back
<1>4. /\ r \in Seq(S) /\ Len(r) = Len(s) - 1
      /\ \A i \in 1..Len(r) : r[i] = IF i <= p - 1 THEN front[i] ELSE back[i - (p - 1)]
  <2>1. /\ front \o back \in Seq(S) /\ Len(front \o back) = Len(front) + Len(back)
        /\ \A i \in 1..(Len(front) + Len(back)) :
             (front \o back)[i] = IF i <= Len(front) THEN front[i] ELSE back[i - Len(front)]
    BY <1>1, <1>2, ConcatProperties
  <2>2. Len(front) + Len(back) = Len(s) - 1
    BY <1>0, <1>1, <1>2
  <2> QED
    BY <1>1, <1>3, <2>1, <2>2
<1>5. ASSUME NEW i \in 1..Len(r)
      PROVE  r[i] = IF i < p THEN s[i] ELSE s[i + 1]
  <2>1. CASE i < p
    BY <1>0, <1>1, <1>4, <2>1
  <2>2. CASE i >= p
    <3>1. i - (p - 1) \in 1..(Len(s) - p) /\ r[i] = back[i - (p - 1)]
      BY <1>0, <1>4, <2>2
    <3>2. back[i - (p - 1)] = s[(p + 1) + (i - (p - 1)) - 1]
      BY <1>2, <3>1
    <3>3. (p + 1) + (i - (p - 1)) - 1 = i + 1
      BY <1>0
    <3> QED
      BY <2>2, <3>1, <3>2, <3>3
  <2> QED
    BY <2>1, <2>2
<1> QED
  BY <1>4, <1>5

\* What is in a queue, and that nothing is in it twice, position by position.
LEMMA QueueElements ==
  ASSUME NEW s \in Seq(Timers)
  PROVE  /\ DOMAIN s = 1..Len(s) /\ Len(s) \in Nat
         /\ \A t : t \in ToSet(s) <=> \E i \in 1..Len(s) : s[i] = t
         /\ IsInjective(s) <=> \A i, j \in 1..Len(s) : s[i] = s[j] => i = j
         /\ ToSet(s) \subseteq Timers
BY DEF ToSet, IsInjective

\* insertTimer() adds a timer where it belongs.
LEMMA InsertTimerKeeps ==
  ASSUME mQueuedExpiresAt \in [Timers -> Nat],
         NEW s \in Seq(Timers), IsInjective(s), Sorted(s, mQueuedExpiresAt),
         NEW t \in Timers, t \notin ToSet(s), NEW time \in Nat,
         NEW r, r = InsertTimer(s, t, time)
  PROVE  /\ r \in Seq(Timers)
         /\ ToSet(r) = ToSet(s) \cup {t}
         /\ IsInjective(r)
         /\ Sorted(r, [mQueuedExpiresAt EXCEPT ![t] = time])
<1> DEFINE later == {i \in 1..Len(s) : time <= mQueuedExpiresAt[s[i]]}
           place == IF later # {} THEN Min(later) ELSE 0
           At(p) == /\ r \in Seq(Timers) /\ Len(r) = Len(s) + 1
                    /\ \A i \in 1..Len(r) :
                         r[i] = IF i < p THEN s[i] ELSE IF i = p THEN t ELSE s[i - 1]
                    /\ \A i \in 1..Len(s) : IF i < p THEN mQueuedExpiresAt[s[i]] <= time
                                                     ELSE time <= mQueuedExpiresAt[s[i]]
<1>0. /\ Len(s) \in Nat /\ \A i \in 1..Len(s) : s[i] \in Timers /\ mQueuedExpiresAt[s[i]] \in Nat
  OBVIOUS
<1>1. r = IF place = 0 THEN Append(s, t) ELSE InsertAt(s, place, t)
  BY DEF InsertTimer, SelectInSeq
<1>2. \E p \in 1..(Len(s) + 1) : At(p)
  <2>1. CASE later = {}
    <3>1. /\ r = Append(s, t)
          /\ \A i \in 1..Len(s) : mQueuedExpiresAt[s[i]] <= time
      BY <1>0, <1>1, <2>1
    <3>2. Len(s) + 1 \in 1..(Len(s) + 1)
      BY <1>0
    <3>3. At(Len(s) + 1)
      <4>1. /\ r \in Seq(Timers) /\ Len(r) = Len(s) + 1
            /\ r[Len(s) + 1] = t /\ \A i \in 1..Len(s) : r[i] = s[i]
        BY <3>1, AppendProperties
      <4>2. \A i \in 1..Len(r) :
              r[i] = IF i < Len(s) + 1 THEN s[i] ELSE IF i = Len(s) + 1 THEN t ELSE s[i - 1]
        BY <1>0, <4>1
      <4>3. \A i \in 1..Len(s) : i < Len(s) + 1 /\ mQueuedExpiresAt[s[i]] <= time
        BY <1>0, <3>1
      <4> QED
        BY <4>1, <4>2, <4>3
    <3> QED
      BY <3>2, <3>3
  <2>2. CASE later # {}
    <3>1. later \in SUBSET (Nat \ {0})
      OBVIOUS
    <3>2. Min(later) \in later /\ \A i \in later : Min(later) <= i
      <4> HIDE DEF later
      <4> QED
        BY <2>2, <3>1, LeastPosition
    <3>3. PICK p \in 1..Len(s) : p = Min(later) /\ time <= mQueuedExpiresAt[s[p]]
      BY <3>2
    <3>4. /\ \A i \in 1..Len(s) : i < p => mQueuedExpiresAt[s[i]] <= time
          /\ \A i \in 1..Len(s) : i > p => time <= mQueuedExpiresAt[s[i]]
      <4>1. ASSUME NEW i \in 1..Len(s), i < p PROVE mQueuedExpiresAt[s[i]] <= time
        <5>1. i \notin later
          BY <3>2, <3>3, <4>1
        <5> QED
          BY <1>0, <5>1
      <4>2. ASSUME NEW i \in 1..Len(s), i > p PROVE time <= mQueuedExpiresAt[s[i]]
        <5>1. mQueuedExpiresAt[s[p]] <= mQueuedExpiresAt[s[i]]
          BY <4>2 DEF Sorted
        <5> QED
          BY <1>0, <3>3, <5>1
      <4> QED
        BY <4>1, <4>2
    <3>5. r = InsertAt(s, p, t)
      BY <1>1, <2>2, <3>3
    <3>6. p \in 1..(Len(s) + 1)
      BY <1>0
    <3>7. /\ r \in Seq(Timers) /\ Len(r) = Len(s) + 1
          /\ \A i \in 1..Len(r) :
               r[i] = IF i < p THEN s[i] ELSE IF i = p THEN t ELSE s[i - 1]
      <4> HIDE DEF later, place, At
      <4>1. \A q : q = InsertAt(s, p, t) =>
              /\ q \in Seq(Timers) /\ Len(q) = Len(s) + 1
              /\ \A i \in 1..Len(q) :
                   q[i] = IF i < p THEN s[i] ELSE IF i = p THEN t ELSE s[i - 1]
        BY ONLY s \in Seq(Timers), t \in Timers, <3>6, InsertedAt
      <4> QED
        BY ONLY <3>5, <4>1
    <3>8. \A i \in 1..Len(s) : IF i < p THEN mQueuedExpiresAt[s[i]] <= time
                                         ELSE time <= mQueuedExpiresAt[s[i]]
      <4> TAKE i \in 1..Len(s)
      <4>1. i < p \/ i = p \/ i > p
        BY <1>0
      <4> QED
        BY <3>3, <3>4, <4>1
    <3>9. At(p)
      BY <3>7, <3>8
    <3> HIDE DEF At
    <3> QED
      BY <3>6, <3>9
  <2> QED
    BY <2>1, <2>2
<1>3. PICK p \in 1..(Len(s) + 1) : At(p)
  BY <1>2
<1> HIDE DEF later, place
<1>4. /\ \A u : u \in ToSet(s) <=> \E i \in 1..Len(s) : s[i] = u
      /\ \A u : u \in ToSet(r) <=> \E i \in 1..Len(r) : r[i] = u
      /\ \A i, j \in 1..Len(s) : s[i] = s[j] => i = j
      /\ IsInjective(r) <=> \A i, j \in 1..Len(r) : r[i] = r[j] => i = j
  BY <1>3, QueueElements
<1> DEFINE Moved == [k \in 1..Len(s) |-> IF k < p THEN k ELSE k + 1]
<1>5. /\ p \in 1..Len(r) /\ r[p] = t
      /\ \A i \in 1..Len(r) : i = p \/ \E k \in 1..Len(s) : i = Moved[k]
      /\ \A k \in 1..Len(s) : Moved[k] \in 1..Len(r) /\ r[Moved[k]] = s[k]
  <2>1. p \in 1..Len(r) /\ r[p] = t /\ Len(r) = Len(s) + 1
    BY <1>0, <1>3
  <2>2. ASSUME NEW i \in 1..Len(r), i # p PROVE \E k \in 1..Len(s) : i = Moved[k]
    <3>1. CASE i < p
      <4>1. i \in 1..Len(s) /\ i = Moved[i]
        BY <1>0, <2>1, <3>1
      <4> QED
        BY <4>1
    <3>2. CASE i > p
      <4>1. i - 1 \in 1..Len(s) /\ i = Moved[i - 1]
        BY <1>0, <2>1, <3>2
      <4> QED
        BY <4>1
    <3> QED
      BY <2>1, <2>2, <3>1, <3>2
  <2>3. ASSUME NEW k \in 1..Len(s) PROVE Moved[k] \in 1..Len(r) /\ r[Moved[k]] = s[k]
    <3>1. Moved[k] \in 1..Len(r)
      BY <1>0, <2>1
    <3>2. CASE k < p
      BY <1>3, <3>1, <3>2
    <3>3. CASE ~(k < p)
      <4>1. Moved[k] = k + 1 /\ ~(k + 1 < p) /\ k + 1 # p /\ (k + 1) - 1 = k
        BY <1>0, <3>3
      <4> QED
        BY <1>3, <3>1, <4>1
    <3> QED
      BY <3>1, <3>2, <3>3
  <2> QED
    BY <2>1, <2>2, <2>3
<1>6. \A k, l \in 1..Len(s) :
        /\ Moved[k] < Moved[l] => k < l
        /\ Moved[k] < p => k < p
        /\ p < Moved[k] => ~(k < p)
  BY <1>0
<1>7. \A k \in 1..Len(s) : IF k < p THEN mQueuedExpiresAt[s[k]] <= time
                                    ELSE time <= mQueuedExpiresAt[s[k]]
  BY <1>3
<1>8. r \in Seq(Timers)
  BY <1>3
<1> HIDE DEF At, Moved
<1>9. ToSet(r) = ToSet(s) \cup {t}
  <2>1. ASSUME NEW u \in ToSet(r) PROVE u \in ToSet(s) \cup {t}
    <3>1. PICK i \in 1..Len(r) : r[i] = u
      BY <1>4
    <3>2. CASE i = p
      BY <1>5, <3>1, <3>2
    <3>3. CASE i # p
      <4>1. PICK k \in 1..Len(s) : i = Moved[k]
        BY <1>5, <3>3
      <4>2. s[k] = u
        BY <1>5, <3>1, <4>1
      <4> QED
        BY <1>4, <4>2
    <3> QED
      BY <3>2, <3>3
  <2>2. ASSUME NEW u \in ToSet(s) \cup {t} PROVE u \in ToSet(r)
    BY <1>4, <1>5
  <2> QED
    BY <2>1, <2>2
<1>10. \A k \in 1..Len(s) : s[k] # t
  BY <1>4
<1>11. IsInjective(r)
  <2> SUFFICES ASSUME NEW i \in 1..Len(r), NEW j \in 1..Len(r), r[i] = r[j] PROVE i = j
    BY <1>4
  <2>0. ASSUME NEW i1 \in 1..Len(r), i1 # p PROVE r[i1] # t
    <3>1. PICK k \in 1..Len(s) : i1 = Moved[k]
      BY <1>5, <2>0
    <3>2. r[i1] = s[k]
      BY <1>5, <3>1
    <3> QED
      BY <1>10, <3>2
  <2>1. CASE i = p \/ j = p
    BY <1>5, <2>0, <2>1
  <2>2. CASE i # p /\ j # p
    <3>1. PICK k \in 1..Len(s), l \in 1..Len(s) : i = Moved[k] /\ j = Moved[l]
      BY <1>5, <2>2
    <3>2. r[i] = s[k] /\ r[j] = s[l]
      BY <1>5, <3>1
    <3>3. s[k] = s[l]
      BY <3>2
    <3>4. k = l
      BY <1>4, <3>3
    <3> QED
      BY <3>1, <3>4
  <2> QED
    BY <2>1, <2>2
<1>12. Sorted(r, [mQueuedExpiresAt EXCEPT ![t] = time])
  <2> DEFINE f == [mQueuedExpiresAt EXCEPT ![t] = time]
  <2>1. f[t] = time /\ \A k \in 1..Len(s) : f[s[k]] = mQueuedExpiresAt[s[k]]
    BY <1>0, <1>10
  <2> HIDE DEF f
  <2> SUFFICES ASSUME NEW i \in 1..Len(r), NEW j \in 1..Len(r), i < j PROVE f[r[i]] <= f[r[j]]
    BY DEF Sorted, f
  <2>p. \A k \in 1..Len(r) : k # p => \E l \in 1..Len(s) : k = Moved[l]
    BY <1>5
  <2>2. CASE i = p
    <3>0. j # p
      BY <2>2
    <3>1. PICK l \in 1..Len(s) : j = Moved[l]
      BY <2>p, <3>0
    <3>2. r[i] = t /\ r[j] = s[l] /\ ~(l < p)
      BY <1>5, <1>6, <2>2, <3>1
    <3>3. time <= mQueuedExpiresAt[s[l]]
      BY <1>7, <3>2
    <3> QED
      BY <2>1, <3>2, <3>3
  <2>3. CASE i # p /\ j = p
    <3>1. PICK k \in 1..Len(s) : i = Moved[k]
      BY <2>p, <2>3
    <3>2. r[j] = t /\ r[i] = s[k] /\ k < p
      BY <1>5, <1>6, <2>3, <3>1
    <3>3. mQueuedExpiresAt[s[k]] <= time
      BY <1>7, <3>2
    <3> QED
      BY <2>1, <3>2, <3>3
  <2>4. CASE i # p /\ j # p
    <3>1. PICK k \in 1..Len(s), l \in 1..Len(s) : i = Moved[k] /\ j = Moved[l]
      BY <2>p, <2>4
    <3>2. r[i] = s[k] /\ r[j] = s[l] /\ k < l
      BY <1>5, <1>6, <3>1
    <3>3. mQueuedExpiresAt[s[k]] <= mQueuedExpiresAt[s[l]]
      BY <3>2 DEF Sorted
    <3> QED
      BY <2>1, <3>2, <3>3
  <2> QED
    BY <2>2, <2>3, <2>4
<1> QED
  BY <1>8, <1>9, <1>11, <1>12

\* removeTimer() takes the timer out, wherever it is.
LEMMA RemovePositionKeeps ==
  ASSUME NEW s \in Seq(Timers), IsInjective(s), NEW f, Sorted(s, f),
         NEW p \in 1..Len(s), NEW r \in Seq(Timers), Len(r) = Len(s) - 1,
         \A i \in 1..Len(r) : r[i] = IF i < p THEN s[i] ELSE s[i + 1]
  PROVE  /\ ToSet(r) = ToSet(s) \ {s[p]}
         /\ IsInjective(r)
         /\ Sorted(r, f)
<1> DEFINE Was == [i \in 1..Len(r) |-> IF i < p THEN i ELSE i + 1]
<1>0. Len(s) \in Nat
  OBVIOUS
<1>1. /\ \A u : u \in ToSet(s) <=> \E i \in 1..Len(s) : s[i] = u
      /\ \A u : u \in ToSet(r) <=> \E i \in 1..Len(r) : r[i] = u
      /\ \A i, j \in 1..Len(s) : s[i] = s[j] => i = j
      /\ IsInjective(r) <=> \A i, j \in 1..Len(r) : r[i] = r[j] => i = j
  BY QueueElements
<1>2. \A i \in 1..Len(r) : Was[i] \in 1..Len(s) /\ Was[i] # p /\ r[i] = s[Was[i]]
  BY <1>0
<1>3. \A i, j \in 1..Len(r) : (i < j => Was[i] < Was[j]) /\ (Was[i] = Was[j] => i = j)
  BY <1>0
<1>4. ASSUME NEW k \in 1..Len(s), k # p PROVE \E i \in 1..Len(r) : Was[i] = k
  <2>1. CASE k < p
    <3>1. k \in 1..Len(r) /\ Was[k] = k
      BY <1>0, <2>1
    <3> QED
      BY <3>1
  <2>2. CASE k > p
    <3>1. k - 1 \in 1..Len(r) /\ Was[k - 1] = k
      BY <1>0, <2>2
    <3> QED
      BY <3>1
  <2> QED
    BY <1>0, <1>4, <2>1, <2>2
<1> HIDE DEF Was
<1>5. ToSet(r) = ToSet(s) \ {s[p]}
  <2>1. ASSUME NEW u \in ToSet(r) PROVE u \in ToSet(s) \ {s[p]}
    BY <1>1, <1>2
  <2>2. ASSUME NEW u \in ToSet(s), u # s[p] PROVE u \in ToSet(r)
    <3>1. PICK k \in 1..Len(s) : s[k] = u
      BY <1>1
    <3>2. PICK i \in 1..Len(r) : Was[i] = k
      BY <1>4, <2>2, <3>1
    <3> QED
      BY <1>1, <1>2, <3>1, <3>2
  <2> QED
    BY <2>1, <2>2
<1>6. IsInjective(r)
  BY <1>1, <1>2, <1>3
<1>7. Sorted(r, f)
  <2> SUFFICES ASSUME NEW i \in 1..Len(r), NEW j \in 1..Len(r), i < j PROVE f[r[i]] <= f[r[j]]
    BY DEF Sorted
  <2>1. Was[i] \in 1..Len(s) /\ Was[j] \in 1..Len(s) /\ Was[i] < Was[j]
    BY <1>2, <1>3
  <2> QED
    BY <1>2, <2>1 DEF Sorted
<1> QED
  BY <1>5, <1>6, <1>7

LEMMA RemoveTimerKeeps ==
  ASSUME NEW s \in Seq(Timers), IsInjective(s), NEW f, Sorted(s, f),
         NEW t \in ToSet(s), NEW r, r = RemoveTimer(s, t)
  PROVE  /\ r \in Seq(Timers)
         /\ ToSet(r) = ToSet(s) \ {t}
         /\ IsInjective(r)
         /\ Sorted(r, f)
<1> DEFINE found == {i \in 1..Len(s) : s[i] = t}
<1>1. found # {} /\ found \in SUBSET (Nat \ {0})
  BY QueueElements
<1>2. r = RemoveAt(s, Min(found))
  BY <1>1 DEF RemoveTimer, RemoveFirst, SelectInSeq
<1>3. Min(found) \in found
  <2> HIDE DEF found
  <2> QED
    BY <1>1, LeastPosition
<1>4. PICK p \in 1..Len(s) : p = Min(found) /\ s[p] = t
  BY <1>3
<1>5. /\ r \in Seq(Timers) /\ Len(r) = Len(s) - 1
      /\ \A i \in 1..Len(r) : r[i] = IF i < p THEN s[i] ELSE s[i + 1]
  BY <1>2, <1>4, RemovedAt
<1> HIDE DEF found
<1>6. ToSet(r) = ToSet(s) \ {s[p]} /\ IsInjective(r) /\ Sorted(r, f)
  <2>1. r \in Seq(Timers) /\ Len(r) = Len(s) - 1
    BY <1>5
  <2> QED
    BY <1>5, <2>1, RemovePositionKeeps
<1> QED
  BY <1>4, <1>5, <1>6

\* So does run(), at the head.
LEMMA TailKeeps ==
  ASSUME NEW s \in Seq(Timers), IsInjective(s), NEW f, Sorted(s, f), s # <<>>
  PROVE  /\ Head(s) \in ToSet(s) /\ Tail(s) \in Seq(Timers)
         /\ ToSet(Tail(s)) = ToSet(s) \ {Head(s)}
         /\ IsInjective(Tail(s))
         /\ Sorted(Tail(s), f)
<1>1. /\ Tail(s) \in Seq(Timers) /\ Len(Tail(s)) = Len(s) - 1 /\ 1 \in 1..Len(s) /\ Head(s) = s[1]
      /\ \A i \in 1..Len(Tail(s)) : Tail(s)[i] = s[i + 1]
  OBVIOUS
<1>2. \A i \in 1..Len(Tail(s)) : Tail(s)[i] = IF i < 1 THEN s[i] ELSE s[i + 1]
  BY <1>1
<1>3. Head(s) \in ToSet(s)
  BY <1>1, QueueElements
<1>4. /\ ToSet(Tail(s)) = ToSet(s) \ {s[1]} /\ IsInjective(Tail(s)) /\ Sorted(Tail(s), f)
  BY <1>1, <1>2, RemovePositionKeeps
<1> QED
  BY <1>1, <1>3, <1>4

-----------------------------------------------------------------------------
(* The inductive invariant.                                                 *)

\* The messages about a timer that the task has not received: those in its
\* queue, and those that threads are about to post.
InQueue(t) == {i \in DOMAIN mIncomingQ : mIncomingQ[i].timer = t}
Posting(t) == {a \in Threads : call[a].step = "post" /\ call[a].timer = t}

Counted ==
  \A t \in Timers :
    mOutstandingMessages[t] = Cardinality(InQueue(t)) + Cardinality(Posting(t))

Unheard(t) ==
  /\ \A i \in DOMAIN mIncomingQ : mIncomingQ[i].timer # t
  /\ \A a \in Threads : call[a].step = "post" => call[a].timer # t

NoCallOn(t) == \A a \in Threads : call[a] # NoCall => call[a].timer # t

\* The thread deletes the timer of its call.
Deletes(a) == call[a] # NoCall /\ (call[a].deletes \/ call[a].type = "UPDATE_DELETE")

CallsOrdered ==
  \A a \in Threads : call[a] # NoCall =>
    /\ call[a].step \in {"wait", "signalled"} => call[a].type = "UPDATE_SYNC"
    /\ call[a].deletes => call[a].type = "UPDATE_SYNC"

\* Only the deletion is underway when a timer is being deleted.
DeleterAlone ==
  \A a \in Threads : Deletes(a) =>
    /\ life[call[a].timer] = "deleting"
    /\ \A b \in Threads : call[b] # NoCall /\ call[b].timer = call[a].timer => b = a

\* The sender of a synchronous message waits for its answer, and for no other.
Awaited(m) ==
  m.type = "UPDATE_SYNC" => call[m.event].step = "wait" /\ call[m.event].timer = m.timer
SameAnswer(m, n) ==
  m.type = "UPDATE_SYNC" /\ n.type = "UPDATE_SYNC" /\ m.event = n.event
AnswersAwaited ==
  /\ \A i \in DOMAIN mIncomingQ : Awaited(mIncomingQ[i])
  /\ \A i, j \in DOMAIN mIncomingQ : SameAnswer(mIncomingQ[i], mIncomingQ[j]) => i = j
  /\ task.step = "apply" =>
       /\ Awaited(task.msg)
       /\ \A i \in DOMAIN mIncomingQ : ~SameAnswer(mIncomingQ[i], task.msg)

\* The message of a deletion is the last about its timer.
IsLast(m) ==
  m.type = "UPDATE_DELETE" \/ (m.type = "UPDATE_SYNC" /\ call[m.event].deletes)
LastIsLast ==
  /\ \A i \in DOMAIN mIncomingQ : IsLast(mIncomingQ[i]) =>
       LET t == mIncomingQ[i].timer
       IN /\ life[t] = "deleting"
          /\ \A j \in DOMAIN mIncomingQ : mIncomingQ[j].timer = t => j <= i
          /\ \A a \in Threads : call[a].step = "post" => call[a].timer # t
          /\ mIncomingQ[i].type = "UPDATE_DELETE" => NoCallOn(t)
  /\ task.step = "apply" /\ IsLast(task.msg) =>
       /\ life[task.msg.timer] = "deleting"
       /\ Unheard(task.msg.timer)
       /\ task.msg.type = "UPDATE_DELETE" => NoCallOn(task.msg.timer)
  /\ \A a \in Threads : call[a].step = "signalled" /\ call[a].deletes =>
       /\ Unheard(call[a].timer)
       /\ task.step = "apply" => task.msg.timer # call[a].timer

Existing ==
  /\ \A t \in Timers : life[t] = "freed" => Unheard(t) /\ NoCallOn(t) /\ t \notin Queued
  /\ \A t \in Timers : life[t] = "deleting" => isStopped(mApplicationState[t])
  /\ task.step = "apply" => life[task.msg.timer] # "freed"
  /\ task.step = "signal" => life[task.timer] = "live"

\* What the task copied is what the application set.
Copied ==
  /\ task.step = "apply" /\ task.applicationState = mApplicationState[task.msg.timer] =>
       /\ task.expiresAt = mExpiresAt[task.msg.timer]
       /\ task.periodic = mPeriodic[task.msg.timer]
  /\ \A t \in Timers : mTaskState[t] = mApplicationState[t] /\ isStarted(mTaskState[t]) =>
       mQueuedPeriodic[t] = mPeriodic[t]
  /\ now <= clock

MessageInv == Counted /\ CallsOrdered /\ DeleterAlone /\ AnswersAwaited /\ LastIsLast /\ Existing

\* The whole: what the messages know of the timers, and what the task's queue
\* and the two states say of each other.
IInv ==
  /\ TypeOK
  /\ MessageInv
  /\ QueueMatchesTaskState /\ QueueSorted
  /\ NoLostUpdate
  /\ Copied


-----------------------------------------------------------------------------
(* Reading the state.                                                       *)

CallRecords == [step : {"post", "wait", "signalled"}, timer : Timers,
                type : MessageTypes, deletes : BOOLEAN]

\* The messages, the calls and the task's steps, as the proofs look at them.
LEMMA Facts ==
  ASSUME TypeOK
  PROVE  /\ Len(mIncomingQ) \in Nat /\ DOMAIN mIncomingQ = 1..Len(mIncomingQ)
         /\ \A i \in 1..Len(mIncomingQ) : mIncomingQ[i] \in Messages
         /\ \A a \in Threads : call[a] = NoCall \/ call[a] \in CallRecords
         /\ \A a \in Threads : call[a] # NoCall <=> call[a].step \in {"post", "wait", "signalled"}
         /\ task.step = "apply" =>
              /\ task.msg \in Messages /\ task.applicationState \in Nat
              /\ task.expiresAt \in Nat /\ task.periodic \in BOOLEAN
         /\ task.step = "signal" => task.timer \in Timers
<1>1. Len(mIncomingQ) \in Nat /\ DOMAIN mIncomingQ = 1..Len(mIncomingQ)
  BY DEF TypeOK
<1>2. \A i \in 1..Len(mIncomingQ) : mIncomingQ[i] \in Messages
  BY DEF TypeOK
<1>3. \A a \in Threads : call[a] = NoCall \/ call[a] \in CallRecords
  BY DEF TypeOK, Calls, CallRecords
<1>4. NoCall.step = "none" /\ \A c \in CallRecords : c.step \in {"post", "wait", "signalled"}
  BY DEF NoCall, CallRecords
<1>5. \A a \in Threads : call[a] # NoCall <=> call[a].step \in {"post", "wait", "signalled"}
  BY <1>3, <1>4
<1>6. Loop.step = "loop"
  BY DEF Loop
<1>7. task.step = "apply" =>
        /\ task.msg \in Messages /\ task.applicationState \in Nat
        /\ task.expiresAt \in Nat /\ task.periodic \in BOOLEAN
  BY <1>6 DEF TypeOK, TaskSteps
<1>8. task.step = "signal" => task.timer \in Timers
  BY <1>6 DEF TypeOK, TaskSteps
<1> QED
  BY <1>1, <1>2, <1>3, <1>5, <1>7, <1>8

\* There are finitely many messages about a timer; none when nobody mentions it.
LEMMA Countable ==
  ASSUME TypeOK, NEW t \in Timers
  PROVE  /\ IsFiniteSet(InQueue(t)) /\ Cardinality(InQueue(t)) \in Nat
         /\ IsFiniteSet(Posting(t)) /\ Cardinality(Posting(t)) \in Nat
<1>1. Len(mIncomingQ) \in Int /\ 1 \in Int
  BY Facts
<1>2. IsFiniteSet(1..Len(mIncomingQ)) /\ IsFiniteSet(Threads)
  BY <1>1, FS_Interval, TimerAssumption
<1>3. InQueue(t) \in SUBSET (1..Len(mIncomingQ)) /\ Posting(t) \in SUBSET Threads
  BY Facts DEF InQueue, Posting
<1>4. IsFiniteSet(InQueue(t)) /\ IsFiniteSet(Posting(t))
  BY <1>2, <1>3, FS_Subset
<1> QED
  BY <1>4, FS_CardinalityType

LEMMA UnheardIsZero ==
  ASSUME TypeOK, Counted, NEW t \in Timers, Unheard(t)
  PROVE  mOutstandingMessages[t] = 0
<1>1. InQueue(t) = {} /\ Posting(t) = {}
  BY DEF Unheard, InQueue, Posting
<1>2. Cardinality(InQueue(t)) = 0 /\ Cardinality(Posting(t)) = 0
  BY <1>1, FS_EmptySet
<1> QED
  BY <1>2 DEF Counted


-----------------------------------------------------------------------------
(* What the messages know of the timers.                                    *)

\* A method that decides to send a message; the deletions are the ones that
\* found nobody else in a call on the timer.
LEMMA WillPostKeeps ==
  ASSUME IInv, NEW a \in Threads, NEW t \in Timers, NEW type \in MessageTypes,
         NEW deletes \in BOOLEAN, deletes => type = "UPDATE_SYNC",
         Enter(a, t), WillPost(a, t, type, deletes),
         \/ /\ ~deletes /\ type # "UPDATE_DELETE" /\ life' = life
         \/ /\ deletes \/ type = "UPDATE_DELETE"
            /\ EnterAlone(a, t) /\ life' = [life EXCEPT ![t] = "deleting"]
            /\ isStopped(mApplicationState'[t]),
         \A u \in Timers : u # t => mApplicationState'[u] = mApplicationState[u],
         UNCHANGED <<mIncomingQ, mTimerQueue, task>>
  PROVE  MessageInv'
<1> DEFINE last == deletes \/ type = "UPDATE_DELETE"
<1>0. TypeOK /\ MessageInv
  BY DEF IInv
<1>1. /\ call[a] = NoCall /\ life[t] = "live" /\ call[a].step = "none"
      /\ ~(task.step = "signal" /\ task.timer = t)
  BY DEF Enter, NoCall, Locked
<1>2. /\ call'[a].step = "post" /\ call'[a].timer = t /\ call'[a].type = type
      /\ (call'[a].deletes <=> deletes) /\ call'[a] # NoCall
      /\ \A b \in Threads : b # a => call'[b] = call[b]
      /\ \A u \in Timers : mOutstandingMessages'[u] =
             IF u = t THEN mOutstandingMessages[u] + 1 ELSE mOutstandingMessages[u]
  <2>1. /\ \A b \in Threads : b # a => call'[b] = call[b]
        /\ call'[a] = [step |-> "post", timer |-> t, type |-> type, deletes |-> deletes]
    BY <1>0 DEF WillPost, TypeOK
  <2>2. /\ call'[a].step = "post" /\ call'[a].timer = t /\ call'[a].type = type
        /\ (call'[a].deletes <=> deletes)
    BY <2>1
  <2>3. call'[a] # NoCall
    BY <2>2 DEF NoCall
  <2>4. \A u \in Timers : mOutstandingMessages'[u] =
             IF u = t THEN mOutstandingMessages[u] + 1 ELSE mOutstandingMessages[u]
    BY <1>0 DEF WillPost, TypeOK
  <2> QED
    BY <2>1, <2>2, <2>3, <2>4
<1>3. /\ \A b \in Threads : last /\ call[b] # NoCall => call[b].timer # t
      /\ \A u \in Timers : life'[u] = IF u = t /\ last THEN "deleting" ELSE life[u]
      /\ last => isStopped(mApplicationState'[t])
  <2>1. CASE ~last /\ life' = life
    BY <2>1
  <2>2. CASE last /\ EnterAlone(a, t) /\ life' = [life EXCEPT ![t] = "deleting"]
             /\ isStopped(mApplicationState'[t])
    BY <1>0, <2>2 DEF EnterAlone, TypeOK
  <2> QED
    BY <2>1, <2>2
<1>4. /\ Len(mIncomingQ) \in Nat /\ DOMAIN mIncomingQ = 1..Len(mIncomingQ)
      /\ \A i \in DOMAIN mIncomingQ : mIncomingQ[i].timer \in Timers /\ mIncomingQ[i].event \in Threads
      /\ task.step = "apply" => task.msg.timer \in Timers /\ task.msg.event \in Threads
      /\ \A b \in Threads : call[b] # NoCall => call[b].timer \in Timers
  BY <1>0, Facts DEF Messages, CallRecords
<1>5. /\ mIncomingQ' = mIncomingQ /\ task' = task /\ mTimerQueue' = mTimerQueue
      /\ \A u \in Timers : u # t => mApplicationState'[u] = mApplicationState[u]
  OBVIOUS
<1> HIDE DEF last
<1>6. Counted'
  <2> SUFFICES ASSUME NEW u \in Timers
               PROVE  mOutstandingMessages'[u] = Cardinality(InQueue(u)') + Cardinality(Posting(u)')
    BY DEF Counted
  <2>1. InQueue(u)' = InQueue(u)
    BY <1>5 DEF InQueue
  <2>2. Posting(u)' = IF u = t THEN Posting(u) \cup {a} ELSE Posting(u)
    BY <1>1, <1>2 DEF Posting
  <2>3. a \notin Posting(u)
    BY <1>1 DEF Posting
  <2>4. Cardinality(Posting(u)') = IF u = t THEN Cardinality(Posting(u)) + 1 ELSE Cardinality(Posting(u))
    BY <1>0, <2>2, <2>3, Countable, FS_AddElement
  <2>5. mOutstandingMessages[u] = Cardinality(InQueue(u)) + Cardinality(Posting(u))
    BY <1>0 DEF MessageInv, Counted
  <2> QED
    BY <1>0, <1>2, <2>1, <2>4, <2>5, Countable
<1>7. CallsOrdered'
  <2> SUFFICES ASSUME NEW b \in Threads, call'[b] # NoCall
               PROVE  /\ call'[b].step \in {"wait", "signalled"} => call'[b].type = "UPDATE_SYNC"
                      /\ call'[b].deletes => call'[b].type = "UPDATE_SYNC"
    BY DEF CallsOrdered
  <2>1. CASE b = a
    BY <1>2, <2>1
  <2>2. CASE b # a
    BY <1>0, <1>2, <2>2 DEF MessageInv, CallsOrdered
  <2> QED
    BY <2>1, <2>2
<1>8. Deletes(a)' <=> last
  BY <1>2 DEF Deletes, last
<1>9. \A b \in Threads : b # a => (Deletes(b)' <=> Deletes(b))
  BY <1>2 DEF Deletes
<1>10. \A b \in Threads : b # a /\ Deletes(b) => call[b].timer # t
  BY <1>0, <1>1 DEF MessageInv, DeleterAlone
<1>11. DeleterAlone'
  <2> SUFFICES ASSUME NEW b \in Threads, Deletes(b)'
               PROVE  /\ life'[call'[b].timer] = "deleting"
                      /\ \A c \in Threads : call'[c] # NoCall /\ call'[c].timer = call'[b].timer => c = b
    BY DEF DeleterAlone
  <2>1. CASE b = a
    BY <1>2, <1>3, <1>8, <2>1
  <2>2. CASE b # a
    <3>1. /\ Deletes(b) /\ call'[b] = call[b] /\ call[b].timer # t /\ call[b] # NoCall
      BY <1>2, <1>9, <1>10, <2>2 DEF Deletes
    <3>2. /\ life[call[b].timer] = "deleting"
          /\ \A c \in Threads : call[c] # NoCall /\ call[c].timer = call[b].timer => c = b
      BY <1>0, <3>1 DEF MessageInv, DeleterAlone
    <3> QED
      BY <1>2, <1>3, <1>4, <3>1, <3>2
  <2> QED
    BY <2>1, <2>2
<1>12. ASSUME NEW m, m.type = "UPDATE_SYNC", m.event \in Threads, call[m.event].step = "wait"
       PROVE  m.event # a /\ call'[m.event] = call[m.event]
  BY <1>1, <1>2, <1>12
<1>13. ASSUME NEW m \in Messages, Awaited(m)
       PROVE  Awaited(m)' /\ (IsLast(m)' <=> IsLast(m))
  BY <1>12, <1>13 DEF Awaited, IsLast, Messages
<1>14. AnswersAwaited'
  BY <1>0, <1>4, <1>5, <1>13, Facts DEF MessageInv, AnswersAwaited, SameAnswer
<1>15. /\ \A i \in DOMAIN mIncomingQ : IsLast(mIncomingQ[i])' <=> IsLast(mIncomingQ[i])
       /\ task.step = "apply" => (IsLast(task.msg)' <=> IsLast(task.msg))
  <2>1. /\ \A i \in DOMAIN mIncomingQ : mIncomingQ[i] \in Messages /\ Awaited(mIncomingQ[i])
        /\ task.step = "apply" => task.msg \in Messages /\ Awaited(task.msg)
    BY <1>0, Facts DEF MessageInv, AnswersAwaited
  <2>2. \A i \in DOMAIN mIncomingQ : IsLast(mIncomingQ[i])' <=> IsLast(mIncomingQ[i])
    BY <1>5, <1>13, <2>1 DEF IsLast
  <2> QED
    BY <1>5, <1>13, <2>1, <2>2 DEF IsLast
\* no message of a deletion is about t
<1>16. /\ \A i \in DOMAIN mIncomingQ : IsLast(mIncomingQ[i]) => mIncomingQ[i].timer # t
       /\ task.step = "apply" /\ IsLast(task.msg) => task.msg.timer # t
       /\ \A b \in Threads : call[b].step = "signalled" /\ call[b].deletes => call[b].timer # t
  <2>1. \A b \in Threads : call[b].step = "signalled" /\ call[b].deletes => Deletes(b)
    BY <1>0, Facts DEF Deletes
  <2> QED
    BY <1>0, <1>1, <2>1 DEF MessageInv, LastIsLast, DeleterAlone
<1>17. \A u \in Timers : u # t =>
         /\ life'[u] = life[u]
         /\ Unheard(u)' <=> Unheard(u)
         /\ NoCallOn(u)' <=> NoCallOn(u)
  BY <1>1, <1>2, <1>3, <1>5 DEF Unheard, NoCallOn
<1>18. LastIsLast'
  <2>1. ASSUME NEW i \in DOMAIN mIncomingQ, IsLast(mIncomingQ[i])
        PROVE  LET u == mIncomingQ[i].timer
               IN /\ life'[u] = "deleting"
                  /\ \A j \in DOMAIN mIncomingQ : mIncomingQ[j].timer = u => j <= i
                  /\ \A b \in Threads : call'[b].step = "post" => call'[b].timer # u
                  /\ mIncomingQ[i].type = "UPDATE_DELETE" => NoCallOn(u)'
    BY <1>0, <1>2, <1>4, <1>16, <1>17, <2>1 DEF MessageInv, LastIsLast
  <2>2. ASSUME task.step = "apply", IsLast(task.msg)
        PROVE  /\ life'[task.msg.timer] = "deleting"
               /\ Unheard(task.msg.timer)'
               /\ task.msg.type = "UPDATE_DELETE" => NoCallOn(task.msg.timer)'
    BY <1>0, <1>4, <1>16, <1>17, <2>2 DEF MessageInv, LastIsLast
  <2>3. ASSUME NEW b \in Threads, call'[b].step = "signalled", call'[b].deletes
        PROVE  /\ Unheard(call[b].timer)'
               /\ task.step = "apply" => task.msg.timer # call'[b].timer
    <3>1. b # a /\ call'[b] = call[b] /\ call[b] # NoCall
      BY <1>0, <1>2, <2>3, Facts
    <3>2. PICK u \in Timers : u = call[b].timer
      BY <1>4, <3>1
    <3>3. u # t /\ Unheard(u) /\ (task.step = "apply" => task.msg.timer # u)
      BY <1>0, <1>16, <2>3, <3>1, <3>2 DEF MessageInv, LastIsLast
    <3>4. Unheard(u)'
      BY <1>17, <3>3
    <3> QED
      BY <3>1, <3>2, <3>3, <3>4
  <2>4. task.step = "apply" => (IsLast(task.msg)' <=> IsLast(task.msg))
    BY <1>15
  <2> QED
    BY <1>5, <1>15, <2>1, <2>2, <2>3, <2>4 DEF LastIsLast, Unheard, NoCallOn
<1>19. Existing'
  BY <1>0, <1>1, <1>3, <1>4, <1>5, <1>17, Facts DEF MessageInv, Existing, Queued
<1> QED
  BY <1>6, <1>7, <1>11, <1>14, <1>18, <1>19 DEF MessageInv

\* A step that neither sends, receives nor answers a message, and creates or
\* deletes no timer.
LEMMA NoMessageKeeps ==
  ASSUME IInv,
         UNCHANGED <<mIncomingQ, mOutstandingMessages, call, life>>,
         \/ task' = task
         \/ /\ task.step # "apply" /\ task'.step # "apply"
            /\ task'.step = "signal" => life[task'.timer] = "live",
         \A u \in Timers : life[u] = "deleting" => mApplicationState'[u] = mApplicationState[u],
         \A u \in Timers : u \in Queued' => u \in Queued
  PROVE  MessageInv'
<1>0. TypeOK /\ MessageInv
  BY DEF IInv
<1>1. /\ mIncomingQ' = mIncomingQ /\ call' = call /\ life' = life
      /\ mOutstandingMessages' = mOutstandingMessages
  OBVIOUS
<1>2. /\ task'.step = "apply" <=> task.step = "apply"
      /\ task'.step = "apply" => task' = task
      /\ task'.step = "signal" => life[task'.timer] = "live"
  <2>1. task.step = "signal" => life[task.timer] = "live"
    BY <1>0 DEF MessageInv, Existing
  <2> QED
    BY <2>1
<1>3. Counted' /\ CallsOrdered' /\ DeleterAlone'
  BY <1>0, <1>1 DEF MessageInv, Counted, InQueue, Posting, CallsOrdered, DeleterAlone, Deletes
<1>4. AnswersAwaited'
  BY <1>0, <1>1, <1>2 DEF MessageInv, AnswersAwaited, Awaited, SameAnswer
<1>5. LastIsLast'
  BY <1>0, <1>1, <1>2 DEF MessageInv, LastIsLast, IsLast, Unheard, NoCallOn
<1>6. Existing'
  BY <1>0, <1>1, <1>2 DEF MessageInv, Existing, Unheard, NoCallOn
<1> QED
  BY <1>3, <1>4, <1>5, <1>6 DEF MessageInv

\* A new timer: nobody has heard of it.
LEMMA ConstructKeepsMessages ==
  ASSUME IInv, NEW t \in Timers, Construct(t)
  PROVE  MessageInv'
<1>0. TypeOK /\ MessageInv
  BY DEF IInv
<1>1. /\ mIncomingQ' = mIncomingQ /\ call' = call /\ task' = task /\ mTimerQueue' = mTimerQueue
      /\ \A u \in Timers : /\ life'[u] = IF u = t THEN "live" ELSE life[u]
                           /\ mApplicationState'[u] = IF u = t THEN 0 ELSE mApplicationState[u]
                           /\ mOutstandingMessages'[u] = IF u = t THEN 0 ELSE mOutstandingMessages[u]
      /\ life[t] = "freed"
  BY <1>0 DEF Construct, TypeOK, taskVars
<1>2. Unheard(t) /\ NoCallOn(t)
  BY <1>0, <1>1 DEF MessageInv, Existing
<1>3. mOutstandingMessages[t] = 0
  BY <1>0, <1>2, UnheardIsZero DEF MessageInv
<1>4. /\ \A i \in DOMAIN mIncomingQ : mIncomingQ[i].timer \in Timers /\ mIncomingQ[i].timer # t
      /\ \A a \in Threads : call[a] # NoCall => call[a].timer \in Timers /\ call[a].timer # t
      /\ task.step = "apply" => task.msg.timer \in Timers /\ task.msg.timer # t
      /\ task.step = "signal" => task.timer \in Timers /\ task.timer # t
  <2>1. /\ task.step = "apply" => life[task.msg.timer] # "freed"
        /\ task.step = "signal" => life[task.timer] # "freed"
    BY <1>0 DEF MessageInv, Existing
  <2> QED
    BY <1>0, <1>1, <1>2, <2>1, Facts DEF Unheard, NoCallOn, Messages, CallRecords
<1>5. Counted'
  BY <1>0, <1>1, <1>3 DEF MessageInv, Counted, InQueue, Posting
<1>6. CallsOrdered' /\ AnswersAwaited'
  BY <1>0, <1>1 DEF MessageInv, CallsOrdered, AnswersAwaited, Awaited, SameAnswer
<1>7. DeleterAlone'
  BY <1>0, <1>1, <1>4 DEF MessageInv, DeleterAlone, Deletes
<1>8. LastIsLast'
  BY <1>0, <1>1, <1>4 DEF MessageInv, LastIsLast, IsLast, Unheard, NoCallOn
<1>9. Existing'
  BY <1>0, <1>1, <1>4, ZeroIsStopped DEF MessageInv, Existing, Unheard, NoCallOn, Queued
<1> QED
  BY <1>5, <1>6, <1>7, <1>8, <1>9 DEF MessageInv

\* event.wait() returned: a destructor has been told that no message about its
\* timer is left and that the timer is out of the task's queue.
LEMMA AwakeKeepsMessages ==
  ASSUME IInv, NEW a \in Threads, Awake(a)
  PROVE  MessageInv'
<1>0. TypeOK /\ MessageInv
  BY DEF IInv
<1>1. call[a].step = "signalled" /\ call[a] # NoCall /\ call[a].timer \in Timers
  BY <1>0, Facts DEF Awake, CallRecords
<1>2. PICK t \in Timers : t = call[a].timer
  BY <1>1
<1>3. /\ mIncomingQ' = mIncomingQ /\ task' = task /\ mTimerQueue' = mTimerQueue
      /\ mApplicationState' = mApplicationState
      /\ mOutstandingMessages' = mOutstandingMessages
      /\ call'[a] = NoCall
      /\ \A b \in Threads : b # a => call'[b] = call[b]
      /\ \A u \in Timers : life'[u] = IF u = t /\ call[a].deletes THEN "freed" ELSE life[u]
  BY <1>0, <1>2 DEF Awake, TypeOK, taskVars
<1>4. call'[a].step = "none"
  BY <1>3 DEF NoCall
<1>5. /\ Len(mIncomingQ) \in Nat /\ DOMAIN mIncomingQ = 1..Len(mIncomingQ)
      /\ \A i \in DOMAIN mIncomingQ : mIncomingQ[i] \in Messages
      /\ task.step = "apply" => task.msg \in Messages
  BY <1>0, Facts
<1>6. Posting(t)' = Posting(t) /\ \A u \in Timers : Posting(u)' = Posting(u) /\ InQueue(u)' = InQueue(u)
  BY <1>1, <1>3, <1>4 DEF Posting, InQueue
<1>7. Counted'
  BY <1>0, <1>3, <1>6 DEF MessageInv, Counted
<1>8. CallsOrdered'
  BY <1>0, <1>3 DEF MessageInv, CallsOrdered
\* the deletion that ends here was alone
<1>9. call[a].deletes =>
        /\ life[t] = "deleting" /\ isStopped(mApplicationState[t])
        /\ Unheard(t) /\ (task.step = "apply" => task.msg.timer # t)
        /\ \A b \in Threads : b # a /\ call[b] # NoCall => call[b].timer # t
  BY <1>0, <1>1, <1>2 DEF MessageInv, DeleterAlone, Deletes, LastIsLast, Existing
<1>10. call[a].deletes => t \notin Queued
  <2> SUFFICES ASSUME call[a].deletes PROVE t \notin Queued
    OBVIOUS
  <2>1. mOutstandingMessages[t] = 0
    BY <1>0, <1>9, UnheardIsZero DEF MessageInv
  <2>2. mApplicationState[t] = mTaskState[t]
    BY <1>9, <2>1 DEF IInv, NoLostUpdate
  <2> QED
    BY <1>0, <1>9, <2>2, Parity DEF IInv, TypeOK, QueueMatchesTaskState
<1>11. DeleterAlone'
  <2> SUFFICES ASSUME NEW b \in Threads, Deletes(b)'
               PROVE  /\ life'[call'[b].timer] = "deleting"
                      /\ \A c \in Threads : call'[c] # NoCall /\ call'[c].timer = call'[b].timer => c = b
    BY DEF DeleterAlone
  <2>1. b # a /\ call'[b] = call[b] /\ Deletes(b) /\ call[b] # NoCall
    BY <1>3 DEF Deletes
  <2>2. call[b].timer \in Timers
    BY <1>0, <2>1, Facts DEF CallRecords
  <2>3. /\ life[call[b].timer] = "deleting"
        /\ \A c \in Threads : call[c] # NoCall /\ call[c].timer = call[b].timer => c = b
    BY <1>0, <2>1 DEF MessageInv, DeleterAlone
  <2> QED
    BY <1>3, <1>9, <2>1, <2>2, <2>3
<1>12. ASSUME NEW m \in Messages, Awaited(m)
       PROVE  Awaited(m)' /\ (IsLast(m)' <=> IsLast(m))
  <2>1. m.event \in Threads
    BY DEF Messages
  <2>2. m.type = "UPDATE_SYNC" => m.event # a /\ call'[m.event] = call[m.event]
    BY <1>1, <1>3, <1>12, <2>1 DEF Awaited
  <2> QED
    BY <1>12, <2>2 DEF Awaited, IsLast
<1>13. AnswersAwaited'
  BY <1>0, <1>3, <1>5, <1>12 DEF MessageInv, AnswersAwaited, SameAnswer
<1>14. /\ \A i \in DOMAIN mIncomingQ : IsLast(mIncomingQ[i])' <=> IsLast(mIncomingQ[i])
       /\ task.step = "apply" => (IsLast(task.msg)' <=> IsLast(task.msg))
  <2>1. /\ \A i \in DOMAIN mIncomingQ : mIncomingQ[i] \in Messages /\ Awaited(mIncomingQ[i])
        /\ task.step = "apply" => task.msg \in Messages /\ Awaited(task.msg)
    BY <1>0, <1>5 DEF MessageInv, AnswersAwaited
  <2>2. \A i \in DOMAIN mIncomingQ : IsLast(mIncomingQ[i])' <=> IsLast(mIncomingQ[i])
    BY <1>3, <1>12, <2>1 DEF IsLast
  <2> QED
    BY <1>3, <1>12, <2>1, <2>2 DEF IsLast
<1>15. \A u \in Timers : (Unheard(u) => Unheard(u)') /\ (NoCallOn(u) => NoCallOn(u)')
  BY <1>3, <1>4 DEF Unheard, NoCallOn
<1>16. LastIsLast'
  <2>1. ASSUME NEW i \in DOMAIN mIncomingQ, IsLast(mIncomingQ[i])
        PROVE  LET u == mIncomingQ[i].timer
               IN /\ life'[u] = "deleting"
                  /\ \A j \in DOMAIN mIncomingQ : mIncomingQ[j].timer = u => j <= i
                  /\ \A b \in Threads : call'[b].step = "post" => call'[b].timer # u
                  /\ mIncomingQ[i].type = "UPDATE_DELETE" => NoCallOn(u)'
    <3>1. PICK u \in Timers : u = mIncomingQ[i].timer
      BY <1>5 DEF Messages
    <3>2. /\ life[u] = "deleting"
          /\ \A j \in DOMAIN mIncomingQ : mIncomingQ[j].timer = u => j <= i
          /\ \A b \in Threads : call[b].step = "post" => call[b].timer # u
          /\ mIncomingQ[i].type = "UPDATE_DELETE" => NoCallOn(u)
      BY <1>0, <2>1, <3>1 DEF MessageInv, LastIsLast
    <3>3. call[a].deletes => u # t
      BY <1>9, <3>1 DEF Unheard
    <3> QED
      BY <1>3, <1>4, <1>15, <3>1, <3>2, <3>3 DEF NoCallOn
  <2>2. ASSUME task.step = "apply", IsLast(task.msg)
        PROVE  /\ life'[task.msg.timer] = "deleting"
               /\ Unheard(task.msg.timer)'
               /\ task.msg.type = "UPDATE_DELETE" => NoCallOn(task.msg.timer)'
    <3>1. PICK u \in Timers : u = task.msg.timer
      BY <1>5, <2>2 DEF Messages
    <3>2. /\ life[u] = "deleting" /\ Unheard(u)
          /\ task.msg.type = "UPDATE_DELETE" => NoCallOn(u)
      BY <1>0, <2>2, <3>1 DEF MessageInv, LastIsLast
    <3>3. Unheard(u)' /\ (task.msg.type = "UPDATE_DELETE" => NoCallOn(u)')
      BY <1>15, <3>2
    <3> QED
      BY <1>3, <1>9, <2>2, <3>1, <3>2, <3>3
  <2>3. ASSUME NEW b \in Threads, call'[b].step = "signalled", call'[b].deletes
        PROVE  /\ Unheard(call[b].timer)'
               /\ task.step = "apply" => task.msg.timer # call'[b].timer
    <3>1. b # a /\ call'[b] = call[b] /\ call[b] # NoCall
      BY <1>0, <1>3, <1>4, <2>3, Facts
    <3>2. PICK u \in Timers : u = call[b].timer
      BY <1>0, <3>1, Facts DEF CallRecords
    <3>3. Unheard(u) /\ (task.step = "apply" => task.msg.timer # u)
      BY <1>0, <2>3, <3>1, <3>2 DEF MessageInv, LastIsLast
    <3>4. Unheard(u)'
      BY <1>15, <3>3
    <3> QED
      BY <3>1, <3>2, <3>3, <3>4
  <2>4. task.step = "apply" => (IsLast(task.msg)' <=> IsLast(task.msg))
    BY <1>14
  <2> QED
    BY <1>3, <1>14, <2>1, <2>2, <2>3, <2>4 DEF LastIsLast, Unheard, NoCallOn
<1>17. Existing'
  <2>1. ASSUME NEW u \in Timers, life'[u] = "freed"
        PROVE  Unheard(u)' /\ NoCallOn(u)' /\ u \notin Queued'
    <3>1. CASE u = t /\ call[a].deletes
      <4>1. Unheard(u)' /\ u \notin Queued'
        BY <1>3, <1>9, <1>10, <1>15, <3>1 DEF Queued
      <4>2. NoCallOn(u)'
        BY <1>3, <1>9, <3>1 DEF NoCallOn
      <4> QED
        BY <4>1, <4>2
    <3>2. CASE ~(u = t /\ call[a].deletes)
      BY <1>0, <1>3, <1>15, <2>1, <3>2 DEF MessageInv, Existing, Queued
    <3> QED
      BY <3>1, <3>2
  <2>2. \A u \in Timers : life'[u] = "deleting" => isStopped(mApplicationState'[u])
    BY <1>0, <1>3 DEF MessageInv, Existing
  <2>3. /\ task.step = "apply" => life'[task.msg.timer] # "freed"
        /\ task.step = "signal" => life'[task.timer] = "live"
    BY <1>0, <1>3, <1>9, Facts DEF MessageInv, Existing, Messages
  <2> QED
    BY <1>3, <2>1, <2>2, <2>3 DEF Existing
<1> QED
  BY <1>7, <1>8, <1>11, <1>13, <1>16, <1>17 DEF MessageInv

\* A message goes to the end of the task's queue, and its sender waits or is done.
LEMMA PostKeepsMessages ==
  ASSUME IInv, NEW a \in Threads, PostMessage(a)
  PROVE  MessageInv'
<1> DEFINE n == Len(mIncomingQ)
<1>0. TypeOK /\ MessageInv
  BY DEF IInv
<1>1. /\ call[a].step = "post" /\ call[a] # NoCall /\ call[a] \in CallRecords
      /\ call[a].timer \in Timers /\ call[a].type \in MessageTypes
  <2>1. call[a].step = "post"
    BY DEF PostMessage
  <2>2. call[a] # NoCall /\ call[a] \in CallRecords
    BY <1>0, <2>1, Facts
  <2> QED
    BY <2>1, <2>2 DEF CallRecords
<1>2. PICK t \in Timers : t = call[a].timer
  BY <1>1
<1>3. PICK new \in Messages :
        /\ new = [type |-> call[a].type, timer |-> call[a].timer, event |-> a]
        /\ new.type = call[a].type /\ new.timer = t /\ new.event = a
  <2> DEFINE new == [type |-> call[a].type, timer |-> call[a].timer, event |-> a]
  <2>1. new \in Messages
    BY <1>1 DEF Messages
  <2>2. new.type = call[a].type /\ new.timer = t /\ new.event = a
    BY <1>2
  <2> QED
    BY <2>1, <2>2
<1>4. /\ n \in Nat /\ DOMAIN mIncomingQ = 1..n
      /\ \A i \in 1..n : mIncomingQ[i] \in Messages
      /\ task.step = "apply" => task.msg \in Messages
  BY <1>0, Facts
<1>5. /\ DOMAIN mIncomingQ' = 1..(n + 1) /\ mIncomingQ' \in Seq(Messages)
      /\ \A i \in 1..n : mIncomingQ'[i] = mIncomingQ[i]
      /\ mIncomingQ'[n + 1] = new
  <2>1. mIncomingQ' = Append(mIncomingQ, new) /\ mIncomingQ \in Seq(Messages)
    BY <1>0, <1>3 DEF PostMessage, TypeOK
  <2> QED
    BY <1>3, <2>1, AppendProperties
<1>6. /\ task' = task /\ mTimerQueue' = mTimerQueue /\ life' = life
      /\ mApplicationState' = mApplicationState
      /\ mOutstandingMessages' = mOutstandingMessages
      /\ \A b \in Threads : b # a => call'[b] = call[b]
      /\ call'[a] = IF call[a].type = "UPDATE_SYNC" THEN [call[a] EXCEPT !.step = "wait"] ELSE NoCall
  BY <1>0 DEF PostMessage, timerVars, TypeOK
<1>7. /\ call[a].type = "UPDATE_SYNC" =>
           /\ call'[a].step = "wait" /\ call'[a].timer = t /\ call'[a].type = "UPDATE_SYNC"
           /\ (call'[a].deletes <=> call[a].deletes) /\ call'[a] # NoCall
      /\ call[a].type # "UPDATE_SYNC" => call'[a] = NoCall
      /\ call'[a].step # "post" /\ call'[a].step # "signalled"
  <2>1. CASE call[a].type = "UPDATE_SYNC"
    <3>1. call'[a] = [call[a] EXCEPT !.step = "wait"]
      BY <1>6, <2>1
    <3>2. /\ call'[a].step = "wait" /\ call'[a].timer = t /\ call'[a].type = "UPDATE_SYNC"
          /\ (call'[a].deletes <=> call[a].deletes)
      BY <1>1, <1>2, <2>1, <3>1 DEF CallRecords
    <3> QED
      BY <2>1, <3>2 DEF NoCall
  <2>2. CASE call[a].type # "UPDATE_SYNC"
    BY <1>6, <2>2 DEF NoCall
  <2> QED
    BY <2>1, <2>2
<1> HIDE DEF n
<1>8. Counted'
  <2> SUFFICES ASSUME NEW u \in Timers
               PROVE  mOutstandingMessages'[u] = Cardinality(InQueue(u)') + Cardinality(Posting(u)')
    BY DEF Counted
  <2>1. /\ IsFiniteSet(InQueue(u)) /\ Cardinality(InQueue(u)) \in Nat
        /\ IsFiniteSet(Posting(u)) /\ Cardinality(Posting(u)) \in Nat
        /\ mOutstandingMessages[u] = Cardinality(InQueue(u)) + Cardinality(Posting(u))
    BY <1>0, Countable DEF MessageInv, Counted
  <2>2. CASE u = t
    <3>1. InQueue(u)' = InQueue(u) \cup {n + 1} /\ n + 1 \notin InQueue(u)
      BY <1>3, <1>4, <1>5, <2>2 DEF InQueue
    <3>2. Posting(u)' = Posting(u) \ {a} /\ a \in Posting(u)
      BY <1>1, <1>2, <1>6, <1>7, <2>2 DEF Posting
    <3>3. Cardinality(InQueue(u)') = Cardinality(InQueue(u)) + 1
      BY <2>1, <3>1, FS_AddElement
    <3>4. Cardinality(Posting(u)') = Cardinality(Posting(u)) - 1
      BY <2>1, <3>2, FS_RemoveElement
    <3> QED
      BY <1>6, <2>1, <3>3, <3>4
  <2>3. CASE u # t
    <3>1. InQueue(u)' = InQueue(u)
      BY <1>3, <1>4, <1>5, <2>3 DEF InQueue
    <3>2. Posting(u)' = Posting(u)
      BY <1>1, <1>2, <1>6, <1>7, <2>3 DEF Posting
    <3> QED
      BY <1>6, <2>1, <3>1, <3>2
  <2> QED
    BY <2>2, <2>3
<1>9. CallsOrdered'
  <2> SUFFICES ASSUME NEW b \in Threads, call'[b] # NoCall
               PROVE  /\ call'[b].step \in {"wait", "signalled"} => call'[b].type = "UPDATE_SYNC"
                      /\ call'[b].deletes => call'[b].type = "UPDATE_SYNC"
    BY DEF CallsOrdered
  <2>1. CASE b = a
    BY <1>7, <2>1
  <2>2. CASE b # a
    BY <1>0, <1>6, <2>2 DEF MessageInv, CallsOrdered
  <2> QED
    BY <2>1, <2>2
<1>10. \A b \in Threads : Deletes(b)' => Deletes(b) /\ call'[b].timer = call[b].timer
  <2> TAKE b \in Threads
  <2>1. CASE b = a
    BY <1>1, <1>2, <1>7, <2>1 DEF Deletes
  <2>2. CASE b # a
    BY <1>6, <2>2 DEF Deletes
  <2> QED
    BY <2>1, <2>2
<1>11. \A b \in Threads : call'[b] # NoCall => call[b] # NoCall /\ call'[b].timer = call[b].timer
  BY <1>1, <1>2, <1>6, <1>7
<1>12. DeleterAlone'
  <2> SUFFICES ASSUME NEW b \in Threads, Deletes(b)'
               PROVE  /\ life'[call'[b].timer] = "deleting"
                      /\ \A c \in Threads : call'[c] # NoCall /\ call'[c].timer = call'[b].timer => c = b
    BY DEF DeleterAlone
  <2>1. Deletes(b) /\ call'[b].timer = call[b].timer
    BY <1>10
  <2>2. /\ life[call[b].timer] = "deleting"
        /\ \A c \in Threads : call[c] # NoCall /\ call[c].timer = call[b].timer => c = b
    BY <1>0, <2>1 DEF MessageInv, DeleterAlone
  <2> QED
    BY <1>6, <1>11, <2>1, <2>2
\* a message that was there already does not carry the sender's event
<1>13. ASSUME NEW m \in Messages, Awaited(m)
       PROVE  /\ Awaited(m)' /\ (IsLast(m)' <=> IsLast(m))
              /\ ~SameAnswer(m, new) /\ ~SameAnswer(new, m)
  <2>1. m.event \in Threads
    BY DEF Messages
  <2>2. m.type = "UPDATE_SYNC" => m.event # a /\ call'[m.event] = call[m.event]
    BY <1>1, <1>6, <1>13, <2>1 DEF Awaited
  <2> QED
    BY <1>3, <1>13, <2>2 DEF Awaited, IsLast, SameAnswer
<1>14. Awaited(new)'
  BY <1>1, <1>3, <1>7 DEF Awaited
<1>15. /\ \A i \in 1..n : mIncomingQ[i] \in Messages /\ Awaited(mIncomingQ[i])
       /\ \A i, j \in 1..n : SameAnswer(mIncomingQ[i], mIncomingQ[j]) => i = j
       /\ task.step = "apply" =>
            /\ task.msg \in Messages /\ Awaited(task.msg)
            /\ \A i \in 1..n : ~SameAnswer(mIncomingQ[i], task.msg)
  BY <1>0, <1>4 DEF MessageInv, AnswersAwaited
<1>16. AnswersAwaited'
  <2>1. ASSUME NEW i \in 1..(n + 1) PROVE \E m \in Messages : mIncomingQ'[i] = m /\ Awaited(m)'
    <3>1. CASE i \in 1..n
      <4>1. PICK m \in Messages : m = mIncomingQ[i] /\ Awaited(m)
        BY <1>15, <3>1
      <4>2. Awaited(m)' /\ mIncomingQ'[i] = m
        BY <1>5, <1>13, <3>1, <4>1
      <4> QED
        BY <4>2
    <3>2. CASE i = n + 1
      BY <1>5, <1>14, <3>2
    <3> QED
      BY <1>4, <3>1, <3>2
  <2>2. ASSUME NEW i \in 1..(n + 1), NEW j \in 1..(n + 1),
               SameAnswer(mIncomingQ'[i], mIncomingQ'[j])
        PROVE  i = j
    <3>1. CASE i \in 1..n /\ j \in 1..n
      BY <1>5, <1>15, <2>2, <3>1
    <3>2. CASE i = n + 1 /\ j \in 1..n
      BY <1>5, <1>13, <1>15, <2>2, <3>2
    <3>3. CASE i \in 1..n /\ j = n + 1
      BY <1>5, <1>13, <1>15, <2>2, <3>3
    <3> QED
      BY <1>4, <3>1, <3>2, <3>3
  <2>3. ASSUME task.step = "apply"
        PROVE  Awaited(task.msg)' /\ \A i \in 1..(n + 1) : ~SameAnswer(mIncomingQ'[i], task.msg)
    <3>1. PICK m \in Messages : m = task.msg /\ Awaited(m)
      BY <1>15, <2>3
    <3>2. Awaited(m)' /\ ~SameAnswer(new, m)
      BY <1>13, <3>1
    <3>3. \A i \in 1..n : ~SameAnswer(mIncomingQ[i], m)
      BY <1>15, <2>3, <3>1
    <3>4. \A i \in 1..(n + 1) : ~SameAnswer(mIncomingQ'[i], m)
      BY <1>4, <1>5, <3>2, <3>3
    <3>5. Awaited(task.msg)'
      BY <1>6, <3>1, <3>2 DEF Awaited
    <3> QED
      BY <3>1, <3>4, <3>5
  <2> QED
    BY <1>5, <1>6, <2>1, <2>2, <2>3 DEF AnswersAwaited, SameAnswer, Awaited
<1>17. \A u \in Timers : NoCallOn(u) => NoCallOn(u)'
  BY <1>11 DEF NoCallOn
<1>18. \A u \in Timers : u # t => (Unheard(u) => Unheard(u)')
  <2> SUFFICES ASSUME NEW u \in Timers, u # t, Unheard(u) PROVE Unheard(u)'
    OBVIOUS
  <2>1. ASSUME NEW i \in 1..(n + 1) PROVE mIncomingQ'[i].timer # u
    <3>1. i \in 1..n \/ i = n + 1
      BY <1>4
    <3> QED
      BY <1>3, <1>4, <1>5, <3>1 DEF Unheard
  <2>2. ASSUME NEW b \in Threads, call'[b].step = "post" PROVE call'[b].timer # u
    BY <1>6, <1>7, <2>2 DEF Unheard
  <2> QED
    BY <1>5, <2>1, <2>2 DEF Unheard
\* no message of a deletion is about t, and the thread's own may be the first
<1>19. /\ \A i \in 1..n : IsLast(mIncomingQ[i]) => mIncomingQ[i].timer # t
       /\ task.step = "apply" /\ IsLast(task.msg) => task.msg.timer # t
       /\ \A b \in Threads : call[b].step = "signalled" /\ call[b].deletes => call[b].timer # t
       /\ Deletes(a) =>
            /\ life[t] = "deleting"
            /\ \A b \in Threads : call[b] # NoCall /\ call[b].timer = t => b = a
  <2>1. /\ \A i \in 1..n : IsLast(mIncomingQ[i]) => mIncomingQ[i].timer # t
        /\ task.step = "apply" /\ IsLast(task.msg) => task.msg.timer # t
    BY <1>0, <1>1, <1>2, <1>4 DEF MessageInv, LastIsLast, Unheard
  <2>2. \A b \in Threads : call[b].step = "signalled" /\ call[b].deletes => call[b].timer # t
    BY <1>0, <1>1, <1>2 DEF MessageInv, LastIsLast, Unheard
  <2>3. Deletes(a) =>
            /\ life[t] = "deleting"
            /\ \A b \in Threads : call[b] # NoCall /\ call[b].timer = t => b = a
    BY <1>0, <1>2 DEF MessageInv, DeleterAlone
  <2> QED
    BY <2>1, <2>2, <2>3
<1>20. /\ \A i \in 1..n, m \in Messages : m = mIncomingQ[i] => (IsLast(m)' <=> IsLast(m))
       /\ IsLast(new)' <=> Deletes(a)
       /\ task.step = "apply" => \A m \in Messages : m = task.msg => (IsLast(m)' <=> IsLast(m))
  <2>1. \A i \in 1..n, m \in Messages : m = mIncomingQ[i] => (IsLast(m)' <=> IsLast(m))
    BY <1>13, <1>15
  <2>2. IsLast(new)' <=> Deletes(a)
    <3>1. CASE call[a].type = "UPDATE_SYNC"
      BY <1>1, <1>3, <1>7, <3>1 DEF IsLast, Deletes
    <3>2. CASE call[a].type # "UPDATE_SYNC"
      <4>1. ~call[a].deletes
        BY <1>0, <1>1, <3>2 DEF MessageInv, CallsOrdered
      <4> QED
        BY <1>1, <1>3, <3>2, <4>1 DEF IsLast, Deletes
    <3> QED
      BY <3>1, <3>2
  <2>3. task.step = "apply" => \A m \in Messages : m = task.msg => (IsLast(m)' <=> IsLast(m))
    BY <1>13, <1>15
  <2> QED
    BY <2>1, <2>2, <2>3
<1>21. LastIsLast'
  <2>1. ASSUME NEW i \in 1..(n + 1), NEW m \in Messages, m = mIncomingQ'[i], IsLast(m)'
        PROVE  LET u == mIncomingQ'[i].timer
               IN /\ life'[u] = "deleting"
                  /\ \A j \in 1..(n + 1) : mIncomingQ'[j].timer = u => j <= i
                  /\ \A b \in Threads : call'[b].step = "post" => call'[b].timer # u
                  /\ mIncomingQ'[i].type = "UPDATE_DELETE" =>
                       \A b \in Threads : call'[b] # NoCall => call'[b].timer # u
    <3>1. CASE i \in 1..n
      <4>1. PICK u \in Timers : u = mIncomingQ[i].timer
        BY <1>4, <3>1 DEF Messages
      <4>2. IsLast(mIncomingQ[i]) /\ u # t
        BY <1>5, <1>19, <1>20, <2>1, <3>1, <4>1
      <4>3. /\ life[u] = "deleting"
            /\ \A j \in 1..n : mIncomingQ[j].timer = u => j <= i
            /\ \A b \in Threads : call[b].step = "post" => call[b].timer # u
            /\ mIncomingQ[i].type = "UPDATE_DELETE" => NoCallOn(u)
        BY <1>0, <1>4, <3>1, <4>1, <4>2 DEF MessageInv, LastIsLast
      <4>4. \A j \in 1..(n + 1) : mIncomingQ'[j].timer = u => j <= i
        BY <1>3, <1>4, <1>5, <4>2, <4>3
      <4>5. \A b \in Threads : call'[b].step = "post" => call'[b].timer # u
        BY <1>6, <1>7, <4>3
      <4>6. mIncomingQ[i].type = "UPDATE_DELETE" =>
              \A b \in Threads : call'[b] # NoCall => call'[b].timer # u
        BY <1>17, <4>3 DEF NoCallOn
      <4> QED
        BY <1>5, <1>6, <3>1, <4>1, <4>3, <4>4, <4>5, <4>6
    <3>2. CASE i = n + 1
      <4>1. mIncomingQ'[i] = new
        BY <1>5, <3>2
      <4>2. Deletes(a)
        BY <1>20, <2>1, <4>1
      <4>3. \A j \in 1..(n + 1) : j <= i
        BY <1>4, <3>2
      <4>4. \A b \in Threads : call'[b].step = "post" => call'[b].timer # t
        <5>1. \A b \in Threads : call'[b].step = "post" => b # a /\ call[b] # NoCall
          BY <1>0, <1>6, <1>7, Facts
        <5> QED
          BY <1>6, <1>19, <4>2, <5>1
      <4>5. call[a].type = "UPDATE_DELETE" =>
              \A b \in Threads : call'[b] # NoCall => call'[b].timer # t
        BY <1>6, <1>7, <1>19, <4>2
      <4> QED
        BY <1>3, <1>6, <1>19, <4>1, <4>2, <4>3, <4>4, <4>5
    <3> QED
      BY <1>4, <3>1, <3>2
  <2>2. ASSUME task.step = "apply", IsLast(task.msg)
        PROVE  /\ life'[task.msg.timer] = "deleting"
               /\ Unheard(task.msg.timer)'
               /\ task.msg.type = "UPDATE_DELETE" => NoCallOn(task.msg.timer)'
    <3>1. PICK u \in Timers : u = task.msg.timer
      BY <1>4, <2>2 DEF Messages
    <3>2. /\ u # t /\ life[u] = "deleting" /\ Unheard(u)
          /\ task.msg.type = "UPDATE_DELETE" => NoCallOn(u)
      BY <1>0, <1>19, <2>2, <3>1 DEF MessageInv, LastIsLast
    <3>3. Unheard(u)' /\ (task.msg.type = "UPDATE_DELETE" => NoCallOn(u)')
      BY <1>17, <1>18, <3>2
    <3> QED
      BY <1>6, <3>1, <3>2, <3>3
  <2>3. ASSUME NEW b \in Threads, call'[b].step = "signalled", call'[b].deletes
        PROVE  /\ Unheard(call[b].timer)'
               /\ task.step = "apply" => task.msg.timer # call'[b].timer
    <3>1. b # a /\ call'[b] = call[b] /\ call[b] # NoCall
      BY <1>0, <1>6, <1>7, <2>3, Facts
    <3>2. PICK u \in Timers : u = call[b].timer
      BY <1>0, <3>1, Facts DEF CallRecords
    <3>3. u # t /\ Unheard(u) /\ (task.step = "apply" => task.msg.timer # u)
      BY <1>0, <1>19, <2>3, <3>1, <3>2 DEF MessageInv, LastIsLast
    <3>4. Unheard(u)'
      BY <1>18, <3>3
    <3> QED
      BY <3>1, <3>2, <3>3, <3>4
  <2>4. ASSUME task.step = "apply", IsLast(task.msg)'
        PROVE  IsLast(task.msg)
    <3>1. PICK m \in Messages : m = task.msg
      BY <1>4, <2>4
    <3>2. IsLast(m)'
      BY <1>6, <2>4, <3>1 DEF IsLast
    <3> QED
      BY <1>20, <2>4, <3>1, <3>2
  <2>5. ASSUME NEW i \in 1..(n + 1), IsLast(mIncomingQ[i])'
        PROVE  \E m \in Messages : m = mIncomingQ'[i] /\ IsLast(m)'
    <3>1. i \in 1..n \/ i = n + 1
      BY <1>4
    <3>2. PICK m \in Messages : m = mIncomingQ'[i]
      BY <1>4, <1>5, <3>1
    <3> QED
      BY <2>5, <3>2 DEF IsLast
  <2>6. ASSUME NEW i \in 1..(n + 1), IsLast(mIncomingQ[i])'
        PROVE  LET u == mIncomingQ'[i].timer
               IN /\ life'[u] = "deleting"
                  /\ \A j \in 1..(n + 1) : mIncomingQ'[j].timer = u => j <= i
                  /\ \A b \in Threads : call'[b].step = "post" => call'[b].timer # u
                  /\ mIncomingQ'[i].type = "UPDATE_DELETE" =>
                       \A b \in Threads : call'[b] # NoCall => call'[b].timer # u
    BY <2>1, <2>5, <2>6
  <2> QED
    BY <1>5, <1>6, <2>2, <2>3, <2>4, <2>6 DEF LastIsLast, Unheard, NoCallOn
<1>22. Existing'
  <2>1. life[t] # "freed"
    BY <1>0, <1>1, <1>2 DEF MessageInv, Existing, NoCallOn
  <2> QED
    BY <1>0, <1>6, <1>17, <1>18, <2>1 DEF MessageInv, Existing, Queued
<1> QED
  BY <1>8, <1>9, <1>12, <1>16, <1>21, <1>22 DEF MessageInv

\* The positions in the queue when its head is taken.
LEMMA ShiftKeepsCardinality ==
  ASSUME NEW S \in SUBSET (Nat \ {0}), IsFiniteSet(S), NEW T, T = {i - 1 : i \in S}
  PROVE  Cardinality(T) = Cardinality(S)
<1> DEFINE f == [i \in S |-> i - 1]
<1>1. f \in [S -> T] /\ (\A i, j \in S : f[i] = f[j] => i = j) /\ (\A k \in T : \E i \in S : f[i] = k)
  OBVIOUS
<1>2. f \in Bijection(S, T)
  <2> HIDE DEF f
  <2> QED
    BY <1>1, Fun_IsBij
<1>3. ExistsBijection(S, T)
  BY <1>2, Fun_ExistsBij
<1> QED
  BY <1>3, FS_Bijection

\* The task takes a message: it is in its hand instead of in its queue.
LEMMA ReceiveKeepsMessages ==
  ASSUME IInv, ReceiveMessage
  PROVE  MessageInv'
<1> DEFINE n == Len(mIncomingQ)
<1>0. TypeOK /\ MessageInv
  BY DEF IInv
<1>1. /\ n \in Nat /\ n >= 1 /\ DOMAIN mIncomingQ = 1..n
      /\ \A i \in 1..n : mIncomingQ[i] \in Messages
      /\ mIncomingQ # <<>> /\ mIncomingQ \in Seq(Messages)
      /\ task = Loop
  <2>1. mIncomingQ # <<>> /\ mIncomingQ \in Seq(Messages) /\ task = Loop
    BY <1>0 DEF ReceiveMessage, TypeOK
  <2> QED
    BY <1>0, <2>1, Facts
<1>2. /\ Head(mIncomingQ) = mIncomingQ[1] /\ 1 \in 1..n
      /\ DOMAIN Tail(mIncomingQ) = 1..(n - 1)
      /\ \A i \in 1..(n - 1) : Tail(mIncomingQ)[i] = mIncomingQ[i + 1] /\ i + 1 \in 1..n
  BY <1>1
<1> HIDE DEF n
<1>3. PICK m \in Messages : m = mIncomingQ[1]
  BY <1>1, <1>2
<1>4. m.timer \in Timers /\ m.event \in Threads /\ m.type \in MessageTypes
  BY DEF Messages
<1>5. /\ mIncomingQ' = Tail(mIncomingQ) /\ life' = life /\ call' = call
      /\ mApplicationState' = mApplicationState /\ mTimerQueue' = mTimerQueue
      /\ task'.step = "apply" /\ task'.msg = m
      /\ mOutstandingMessages' = [mOutstandingMessages EXCEPT ![m.timer] = @ - 1]
  BY <1>2, <1>3 DEF ReceiveMessage
<1>6. task.step # "apply" /\ task.step # "signal"
  BY <1>1 DEF Loop
<1>7. /\ DOMAIN mIncomingQ' = 1..(n - 1)
      /\ \A i \in 1..(n - 1) : mIncomingQ'[i] = mIncomingQ[i + 1] /\ i + 1 \in 1..n
  BY <1>2, <1>5
<1>8. Counted'
  <2> SUFFICES ASSUME NEW u \in Timers
               PROVE  mOutstandingMessages'[u] = Cardinality(InQueue(u)') + Cardinality(Posting(u)')
    BY DEF Counted
  <2>1. /\ IsFiniteSet(InQueue(u)) /\ Cardinality(InQueue(u)) \in Nat
        /\ Cardinality(Posting(u)) \in Nat
        /\ mOutstandingMessages[u] = Cardinality(InQueue(u)) + Cardinality(Posting(u))
    BY <1>0, Countable DEF MessageInv, Counted
  <2>2. Posting(u)' = Posting(u)
    BY <1>5 DEF Posting
  <2> DEFINE rest == InQueue(u) \ {1}
  <2>3. rest \in SUBSET (Nat \ {0})
    BY <1>1 DEF InQueue
  <2>4. IsFiniteSet(rest) /\ Cardinality(rest) =
          IF m.timer = u THEN Cardinality(InQueue(u)) - 1 ELSE Cardinality(InQueue(u))
    <3>1. 1 \in InQueue(u) <=> m.timer = u
      BY <1>1, <1>2, <1>3 DEF InQueue
    <3> QED
      BY <2>1, <3>1, FS_RemoveElement
  <2>5. InQueue(u)' = {i - 1 : i \in rest}
    <3>1. ASSUME NEW k \in InQueue(u)' PROVE k \in {i - 1 : i \in rest}
      <4>1. k \in 1..(n - 1) /\ mIncomingQ'[k].timer = u
        BY <1>7 DEF InQueue
      <4>2. k + 1 \in rest /\ k = (k + 1) - 1
        BY <1>1, <1>7, <4>1 DEF InQueue
      <4> QED
        BY <4>2
    <3>2. ASSUME NEW i \in rest PROVE i - 1 \in InQueue(u)'
      <4>1. i \in 1..n /\ i # 1 /\ mIncomingQ[i].timer = u
        BY <1>1 DEF InQueue
      <4>2. i - 1 \in 1..(n - 1) /\ (i - 1) + 1 = i
        BY <1>1, <4>1
      <4>3. mIncomingQ'[i - 1] = mIncomingQ[i]
        BY <1>7, <4>2
      <4> QED
        BY <1>7, <4>1, <4>2, <4>3 DEF InQueue
    <3> QED
      BY <3>1, <3>2
  <2> HIDE DEF rest
  <2>6. Cardinality(InQueue(u)') = Cardinality(rest)
    BY <2>3, <2>4, <2>5, ShiftKeepsCardinality
  <2>7. mOutstandingMessages'[u] =
          IF m.timer = u THEN mOutstandingMessages[u] - 1 ELSE mOutstandingMessages[u]
    BY <1>0, <1>4, <1>5 DEF TypeOK
  <2> QED
    BY <2>1, <2>2, <2>4, <2>6, <2>7
<1>9. CallsOrdered' /\ DeleterAlone'
  BY <1>0, <1>5 DEF MessageInv, CallsOrdered, DeleterAlone, Deletes
<1>10. /\ \A i \in 1..n : Awaited(mIncomingQ[i])
       /\ \A i, j \in 1..n : SameAnswer(mIncomingQ[i], mIncomingQ[j]) => i = j
       /\ Awaited(m)
       /\ \A i \in 1..(n - 1) : ~SameAnswer(mIncomingQ[i + 1], m)
  <2>1. /\ \A i \in 1..n : Awaited(mIncomingQ[i])
        /\ \A i, j \in 1..n : SameAnswer(mIncomingQ[i], mIncomingQ[j]) => i = j
    BY <1>0, <1>1 DEF MessageInv, AnswersAwaited
  <2>2. ASSUME NEW i \in 1..(n - 1) PROVE ~SameAnswer(mIncomingQ[i + 1], m)
    <3>1. i + 1 \in 1..n /\ i + 1 # 1
      BY <1>1, <1>7
    <3> QED
      BY <1>2, <1>3, <2>1, <3>1
  <2> QED
    BY <1>2, <1>3, <2>1, <2>2
<1>11. AnswersAwaited'
  <2>1. \A i, j \in 1..(n - 1) : SameAnswer(mIncomingQ[i + 1], mIncomingQ[j + 1]) => i = j
    <3> TAKE i, j \in 1..(n - 1)
    <3>1. i + 1 \in 1..n /\ j + 1 \in 1..n /\ (i + 1 = j + 1 => i = j)
      BY <1>1, <1>7
    <3> QED
      BY <1>10, <3>1
  <2>2. ASSUME NEW i \in 1..(n - 1) PROVE Awaited(mIncomingQ[i])'
    <3>1. i + 1 \in 1..n /\ mIncomingQ'[i] = mIncomingQ[i + 1]
      BY <1>7
    <3>2. Awaited(mIncomingQ[i + 1])
      BY <1>10, <3>1
    <3> QED
      BY <1>5, <3>1, <3>2 DEF Awaited
  <2>3. Awaited(task.msg)'
    BY <1>5, <1>10 DEF Awaited
  <2>4. ASSUME NEW i \in 1..(n - 1), NEW j \in 1..(n - 1), SameAnswer(mIncomingQ[i], mIncomingQ[j])'
        PROVE  i = j
    <3>1. mIncomingQ'[i] = mIncomingQ[i + 1] /\ mIncomingQ'[j] = mIncomingQ[j + 1]
      BY <1>7
    <3>2. SameAnswer(mIncomingQ[i + 1], mIncomingQ[j + 1])
      BY <2>4, <3>1 DEF SameAnswer
    <3> QED
      BY <2>1, <3>2
  <2>5. ASSUME NEW i \in 1..(n - 1) PROVE ~SameAnswer(mIncomingQ[i], task.msg)'
    BY <1>5, <1>7, <1>10 DEF SameAnswer
  <2> QED
    BY <1>7, <2>2, <2>3, <2>4, <2>5 DEF AnswersAwaited
<1>12. ASSUME NEW i \in 1..n, IsLast(mIncomingQ[i])
       PROVE  LET u == mIncomingQ[i].timer
              IN /\ life[u] = "deleting"
                 /\ \A j \in 1..n : mIncomingQ[j].timer = u => j <= i
                 /\ \A b \in Threads : call[b].step = "post" => call[b].timer # u
                 /\ mIncomingQ[i].type = "UPDATE_DELETE" => NoCallOn(u)
  BY <1>0, <1>1, <1>12 DEF MessageInv, LastIsLast
<1>13. \A u \in Timers : Unheard(u) => Unheard(u)'
  BY <1>1, <1>5, <1>7 DEF Unheard
<1>14. LastIsLast'
  <2>1. ASSUME NEW i \in 1..(n - 1), IsLast(mIncomingQ[i + 1])
        PROVE  LET u == mIncomingQ[i + 1].timer
               IN /\ life[u] = "deleting"
                  /\ \A j \in 1..(n - 1) : mIncomingQ[j + 1].timer = u => j <= i
                  /\ \A b \in Threads : call[b].step = "post" => call[b].timer # u
                  /\ mIncomingQ[i + 1].type = "UPDATE_DELETE" => NoCallOn(u)
    <3>1. i + 1 \in 1..n /\ \A j \in 1..(n - 1) : j + 1 \in 1..n /\ (j + 1 <= i + 1 => j <= i)
      BY <1>1, <1>7
    <3> QED
      BY <1>12, <2>1, <3>1
  <2>2. ASSUME IsLast(m)
        PROVE  /\ life[m.timer] = "deleting"
               /\ Unheard(m.timer)'
               /\ m.type = "UPDATE_DELETE" => NoCallOn(m.timer)
    <3>1. /\ life[m.timer] = "deleting"
          /\ \A j \in 1..n : mIncomingQ[j].timer = m.timer => j <= 1
          /\ \A b \in Threads : call[b].step = "post" => call[b].timer # m.timer
          /\ m.type = "UPDATE_DELETE" => NoCallOn(m.timer)
      BY <1>2, <1>3, <1>12, <2>2
    <3>2. ASSUME NEW i \in 1..(n - 1) PROVE mIncomingQ'[i].timer # m.timer
      <4>1. i + 1 \in 1..n /\ ~(i + 1 <= 1)
        BY <1>1, <1>7
      <4> QED
        BY <1>7, <3>1, <4>1
    <3> QED
      BY <1>5, <1>7, <3>1, <3>2 DEF Unheard
  <2>3. ASSUME NEW b \in Threads, call[b].step = "signalled", call[b].deletes
        PROVE  Unheard(call[b].timer)' /\ m.timer # call[b].timer
    <3>1. PICK u \in Timers : u = call[b].timer
      BY <1>0, <2>3, Facts DEF CallRecords
    <3>2. Unheard(u)
      BY <1>0, <2>3, <3>1 DEF MessageInv, LastIsLast
    <3>3. Unheard(u)' /\ m.timer # u
      BY <1>1, <1>2, <1>3, <1>13, <3>2 DEF Unheard
    <3> QED
      BY <1>5, <3>1, <3>3
  <2>4. ASSUME NEW i \in 1..(n - 1), IsLast(mIncomingQ[i])'
        PROVE  LET u == mIncomingQ'[i].timer
               IN /\ life'[u] = "deleting"
                  /\ \A j \in 1..(n - 1) : mIncomingQ'[j].timer = u => j <= i
                  /\ \A b \in Threads : call'[b].step = "post" => call'[b].timer # u
                  /\ mIncomingQ'[i].type = "UPDATE_DELETE" =>
                       \A b \in Threads : call'[b] # NoCall => call'[b].timer # u
    <3>1. mIncomingQ'[i] = mIncomingQ[i + 1]
      BY <1>7
    <3>2. IsLast(mIncomingQ[i + 1])
      BY <1>5, <2>4, <3>1 DEF IsLast
    <3>3. \A j \in 1..(n - 1) : mIncomingQ'[j] = mIncomingQ[j + 1]
      BY <1>7
    <3> QED
      BY <1>5, <2>1, <3>1, <3>2, <3>3 DEF NoCallOn
  <2>5. ASSUME IsLast(task.msg)'
        PROVE  /\ life'[task'.msg.timer] = "deleting"
               /\ Unheard(m.timer)'
               /\ task'.msg.type = "UPDATE_DELETE" => NoCallOn(m.timer)'
    <3>1. IsLast(m)
      BY <1>5, <2>5 DEF IsLast
    <3> QED
      BY <1>5, <2>2, <3>1 DEF NoCallOn
  <2> QED
    BY <1>5, <1>7, <2>3, <2>4, <2>5 DEF LastIsLast, Unheard, NoCallOn
<1>15. Existing'
  <2>1. life[m.timer] # "freed"
    BY <1>0, <1>1, <1>2, <1>3, <1>4 DEF MessageInv, Existing, Unheard
  <2>2. \A u \in Timers : life[u] = "freed" => Unheard(u)' /\ NoCallOn(u)' /\ u \notin Queued'
    BY <1>0, <1>5, <1>13 DEF MessageInv, Existing, NoCallOn, Queued
  <2>3. \A u \in Timers : life[u] = "deleting" => isStopped(mApplicationState[u])
    BY <1>0 DEF MessageInv, Existing
  <2> QED
    BY <1>5, <2>1, <2>2, <2>3 DEF Existing
<1> QED
  BY <1>8, <1>9, <1>11, <1>14, <1>15 DEF MessageInv

-----------------------------------------------------------------------------
(* The queue of the running timers and the task's state.                    *)

LEMMA SortedQueue ==
  ASSUME TypeOK
  PROVE  QueueSorted <=> Sorted(mTimerQueue, mQueuedExpiresAt)
<1>1. DOMAIN mTimerQueue = 1..Len(mTimerQueue)
  BY DEF TypeOK
<1> QED
  BY <1>1 DEF QueueSorted, Sorted

\* handleMessage() moves a timer whose state changed out of the queue and into it.
LEMMA ApplyKeepsQueue ==
  ASSUME IInv, ApplyUpdate
  PROVE  /\ mTimerQueue' \in Seq(Timers)
         /\ mQueuedExpiresAt' \in [Timers -> Nat]
         /\ Sorted(mTimerQueue', mQueuedExpiresAt')
         /\ QueueMatchesTaskState'
         /\ \A u \in Timers : u # task.msg.timer => (u \in Queued' <=> u \in Queued)
<1>0. TypeOK /\ QueueMatchesTaskState /\ IsInjective(mTimerQueue)
      /\ Sorted(mTimerQueue, mQueuedExpiresAt)
  BY SortedQueue DEF IInv, QueueMatchesTaskState
<1>1. task.step = "apply" /\ task.msg \in Messages /\ task.applicationState \in Nat /\ task.expiresAt \in Nat
  BY <1>0, Facts DEF ApplyUpdate
<1>2. PICK t \in Timers : t = task.msg.timer
  BY <1>1 DEF Messages
<1> DEFINE applied == task.applicationState
           changed == applied # mTaskState[t]
           removed == IF changed /\ isStarted(mTaskState[t])
                      THEN RemoveTimer(mTimerQueue, t) ELSE mTimerQueue
<1>3. /\ mTaskState' = [mTaskState EXCEPT ![t] = applied]
      /\ changed /\ isStarted(applied) =>
           /\ mQueuedExpiresAt' = [mQueuedExpiresAt EXCEPT ![t] = task.expiresAt]
           /\ mTimerQueue' = InsertTimer(removed, t, task.expiresAt)
      /\ ~(changed /\ isStarted(applied)) =>
           mTimerQueue' = removed /\ mQueuedExpiresAt' = mQueuedExpiresAt
  BY <1>2 DEF ApplyUpdate
<1>4. \A u \in Timers : u \in ToSet(mTimerQueue) <=> isStarted(mTaskState[u])
  BY <1>0 DEF QueueMatchesTaskState, Queued
<1>5. /\ mTimerQueue \in Seq(Timers) /\ mQueuedExpiresAt \in [Timers -> Nat]
      /\ mTaskState \in [Timers -> Nat]
  BY <1>0 DEF TypeOK
<1>6. /\ removed \in Seq(Timers) /\ IsInjective(removed) /\ Sorted(removed, mQueuedExpiresAt)
      /\ ToSet(removed) = IF changed THEN ToSet(mTimerQueue) \ {t} ELSE ToSet(mTimerQueue)
  <2>1. CASE changed /\ isStarted(mTaskState[t])
    <3>1. t \in ToSet(mTimerQueue) /\ removed = RemoveTimer(mTimerQueue, t)
      BY <1>4, <2>1
    <3> HIDE DEF removed, changed
    <3> QED
      BY <1>0, <1>5, <2>1, <3>1, RemoveTimerKeeps
  <2>2. CASE ~(changed /\ isStarted(mTaskState[t]))
    <3>1. removed = mTimerQueue /\ (changed => t \notin ToSet(mTimerQueue))
      BY <1>4, <2>2
    <3> HIDE DEF removed, changed
    <3> QED
      BY <1>0, <1>5, <3>1
  <2> QED
    BY <2>1, <2>2
<1>7. /\ mTimerQueue' \in Seq(Timers) /\ IsInjective(mTimerQueue')
      /\ mQueuedExpiresAt' \in [Timers -> Nat]
      /\ Sorted(mTimerQueue', mQueuedExpiresAt')
      /\ ToSet(mTimerQueue') = IF changed /\ isStarted(applied)
                               THEN ToSet(removed) \cup {t} ELSE ToSet(removed)
  <2>1. CASE changed /\ isStarted(applied)
    <3>1. t \notin ToSet(removed)
      BY <1>6, <2>1
    <3>2. /\ mQueuedExpiresAt' = [mQueuedExpiresAt EXCEPT ![t] = task.expiresAt]
          /\ mTimerQueue' = InsertTimer(removed, t, task.expiresAt)
      BY <1>3, <2>1
    <3>3. mQueuedExpiresAt' \in [Timers -> Nat]
      BY <1>1, <1>5, <3>2
    <3> HIDE DEF removed, changed, applied
    <3>4. /\ mTimerQueue' \in Seq(Timers) /\ IsInjective(mTimerQueue')
          /\ ToSet(mTimerQueue') = ToSet(removed) \cup {t}
          /\ Sorted(mTimerQueue', [mQueuedExpiresAt EXCEPT ![t] = task.expiresAt])
      BY <1>1, <1>5, <1>6, <3>1, <3>2, InsertTimerKeeps
    <3> QED
      BY <2>1, <3>2, <3>3, <3>4
  <2>2. CASE ~(changed /\ isStarted(applied))
    <3>1. mTimerQueue' = removed /\ mQueuedExpiresAt' = mQueuedExpiresAt
      BY <1>3, <2>2
    <3> HIDE DEF removed, changed, applied
    <3> QED
      BY <1>5, <1>6, <2>2, <3>1
  <2> QED
    BY <2>1, <2>2
<1>8. \A u \in Timers : /\ u \in ToSet(mTimerQueue') <=> isStarted(mTaskState'[u])
                        /\ u # t => (u \in ToSet(mTimerQueue') <=> u \in ToSet(mTimerQueue))
  <2> TAKE u \in Timers
  <2>1. mTaskState'[u] = IF u = t THEN applied ELSE mTaskState[u]
    BY <1>3, <1>5
  <2>2. changed => (u \in ToSet(removed) <=> u \in ToSet(mTimerQueue) /\ u # t)
    BY <1>6
  <2>3. ~changed => ToSet(removed) = ToSet(mTimerQueue) /\ applied = mTaskState[t]
    BY <1>6
  <2> HIDE DEF removed, changed, applied
  <2> QED
    BY <1>4, <1>7, <2>1, <2>2, <2>3
<1> HIDE DEF removed, changed, applied
<1> QED
  BY <1>2, <1>7, <1>8 DEF QueueMatchesTaskState, Queued

\* The task answers the message in its hand; after the last message of a timer
\* the timer is out of its queue and may go.
LEMMA ApplyKeepsMessages ==
  ASSUME IInv, ApplyUpdate
  PROVE  MessageInv'
<1>0. TypeOK /\ MessageInv
  BY DEF IInv
<1>1. task.step = "apply" /\ task.msg \in Messages /\ task.applicationState \in Nat
  BY <1>0, Facts DEF ApplyUpdate
<1>2. PICK m \in Messages : m = task.msg
  BY <1>1
<1>3. PICK t \in Timers : t = m.timer
  BY DEF Messages
<1>4. PICK e \in Threads : e = m.event
  BY DEF Messages
<1>5. /\ mIncomingQ' = mIncomingQ /\ mApplicationState' = mApplicationState
      /\ mOutstandingMessages' = mOutstandingMessages
      /\ task'.step = "loop"
      /\ \A u \in Timers : life'[u] = IF m.type = "UPDATE_DELETE" /\ u = t THEN "freed" ELSE life[u]
      /\ call' = IF m.type = "UPDATE_SYNC" THEN [call EXCEPT ![e].step = "signalled"] ELSE call
      /\ mTaskState' = [mTaskState EXCEPT ![t] = task.applicationState]
  BY <1>0, <1>2, <1>3, <1>4 DEF ApplyUpdate, AnswerEvent, Loop, TypeOK
<1>6. Awaited(m) /\ \A i \in DOMAIN mIncomingQ : ~SameAnswer(mIncomingQ[i], m)
  BY <1>0, <1>1, <1>2 DEF MessageInv, AnswersAwaited
<1>7. m.type = "UPDATE_SYNC" =>
        call[e].step = "wait" /\ call[e].timer = t /\ call[e] \in CallRecords
  BY <1>0, <1>3, <1>4, <1>6, Facts DEF Awaited
<1>8. \A b \in Threads :
        /\ call'[b].step = IF m.type = "UPDATE_SYNC" /\ b = e THEN "signalled" ELSE call[b].step
        /\ call'[b] # NoCall <=> call[b] # NoCall
        /\ call[b] # NoCall =>
             /\ call'[b].timer = call[b].timer /\ call'[b].type = call[b].type
             /\ call'[b].deletes <=> call[b].deletes
  <2> TAKE b \in Threads
  <2>1. CASE m.type = "UPDATE_SYNC" /\ b = e
    <3>1. call'[b] = [call[b] EXCEPT !.step = "signalled"]
      BY <1>0, <1>5, <2>1 DEF TypeOK
    <3>2. /\ call'[b].step = "signalled" /\ call'[b].timer = call[b].timer
          /\ call'[b].type = call[b].type /\ (call'[b].deletes <=> call[b].deletes)
      BY <1>7, <2>1, <3>1 DEF CallRecords
    <3> QED
      BY <1>7, <2>1, <3>2 DEF NoCall
  <2>2. CASE ~(m.type = "UPDATE_SYNC" /\ b = e)
    <3>1. call'[b] = call[b]
      BY <1>0, <1>5, <2>2 DEF TypeOK
    <3> QED
      BY <2>2, <3>1
  <2> QED
    BY <2>1, <2>2
<1>9. /\ \A b \in Threads : call'[b].step = "post" <=> call[b].step = "post"
      /\ \A b \in Threads : call[b].step = "post" => call[b] # NoCall
  BY <1>0, <1>7, <1>8, Facts
<1>10. /\ DOMAIN mIncomingQ = 1..Len(mIncomingQ)
       /\ \A i \in DOMAIN mIncomingQ : mIncomingQ[i] \in Messages
       /\ \A b \in Threads : call[b] # NoCall => call[b].timer \in Timers
  BY <1>0, Facts DEF CallRecords
<1>11. \A u \in Timers :
         /\ Unheard(u)' <=> Unheard(u)
         /\ NoCallOn(u)' <=> NoCallOn(u)
         /\ InQueue(u)' = InQueue(u) /\ Posting(u)' = Posting(u)
  BY <1>5, <1>8, <1>9 DEF Unheard, NoCallOn, InQueue, Posting
<1>12. \A b \in Threads : Deletes(b)' <=> Deletes(b)
  BY <1>8 DEF Deletes
<1>13. Counted'
  BY <1>0, <1>5, <1>11 DEF MessageInv, Counted
<1>14. CallsOrdered'
  <2> SUFFICES ASSUME NEW b \in Threads, call'[b] # NoCall
               PROVE  /\ call'[b].step \in {"wait", "signalled"} => call'[b].type = "UPDATE_SYNC"
                      /\ call'[b].deletes => call'[b].type = "UPDATE_SYNC"
    BY DEF CallsOrdered
  <2>1. call[b].step \in {"wait", "signalled"} => call[b].type = "UPDATE_SYNC"
    BY <1>0, <1>8 DEF MessageInv, CallsOrdered
  <2>2. call[b].deletes => call[b].type = "UPDATE_SYNC"
    BY <1>0, <1>8 DEF MessageInv, CallsOrdered
  <2> QED
    BY <1>7, <1>8, <2>1, <2>2
\* the message of a deletion was the last
<1>15. IsLast(m) => life[t] = "deleting" /\ Unheard(t)
  BY <1>0, <1>1, <1>2, <1>3 DEF MessageInv, LastIsLast
<1>16. m.type = "UPDATE_DELETE" => IsLast(m) /\ NoCallOn(t)
  BY <1>0, <1>1, <1>2, <1>3 DEF MessageInv, LastIsLast, IsLast
<1>17. DeleterAlone'
  <2> SUFFICES ASSUME NEW b \in Threads, Deletes(b)'
               PROVE  /\ life'[call'[b].timer] = "deleting"
                      /\ \A c \in Threads : call'[c] # NoCall /\ call'[c].timer = call'[b].timer => c = b
    BY DEF DeleterAlone
  <2>1. Deletes(b) /\ call[b] # NoCall /\ call'[b].timer = call[b].timer
    BY <1>8, <1>12 DEF Deletes
  <2>2. /\ life[call[b].timer] = "deleting"
        /\ \A c \in Threads : call[c] # NoCall /\ call[c].timer = call[b].timer => c = b
    BY <1>0, <2>1 DEF MessageInv, DeleterAlone
  <2>3. m.type = "UPDATE_DELETE" => call[b].timer # t
    BY <1>16, <2>1 DEF NoCallOn
  <2> QED
    BY <1>5, <1>8, <1>10, <2>1, <2>2, <2>3
<1>18. ASSUME NEW x \in Messages, Awaited(x), ~SameAnswer(x, m)
       PROVE  Awaited(x)' /\ (IsLast(x)' <=> IsLast(x))
  <2>1. x.event \in Threads
    BY DEF Messages
  <2>2. x.type = "UPDATE_SYNC" => /\ call'[x.event].step = "wait" /\ call'[x.event].timer = x.timer
                                  /\ call'[x.event].deletes <=> call[x.event].deletes
    <3> SUFFICES ASSUME x.type = "UPDATE_SYNC"
                 PROVE  /\ call'[x.event].step = "wait" /\ call'[x.event].timer = x.timer
                        /\ call'[x.event].deletes <=> call[x.event].deletes
      OBVIOUS
    <3>1. call[x.event].step = "wait" /\ call[x.event].timer = x.timer
      BY <1>18 DEF Awaited
    <3>2. call[x.event] # NoCall
      BY <1>0, <2>1, <3>1, Facts
    <3>3. ~(m.type = "UPDATE_SYNC" /\ x.event = e)
      BY <1>4, <1>18 DEF SameAnswer
    <3> QED
      BY <1>8, <2>1, <3>1, <3>2, <3>3
  <2> QED
    BY <2>2 DEF Awaited, IsLast
<1>19. \A i \in DOMAIN mIncomingQ :
         /\ mIncomingQ[i] \in Messages /\ Awaited(mIncomingQ[i]) /\ ~SameAnswer(mIncomingQ[i], m)
         /\ \A j \in DOMAIN mIncomingQ : SameAnswer(mIncomingQ[i], mIncomingQ[j]) => i = j
  BY <1>0, <1>6, <1>10 DEF MessageInv, AnswersAwaited
<1>20. ASSUME NEW i \in DOMAIN mIncomingQ, NEW x \in Messages, x = mIncomingQ[i]
       PROVE  Awaited(x)' /\ (IsLast(x)' <=> IsLast(x))
  BY <1>18, <1>19, <1>20
<1>21. AnswersAwaited'
  <2>1. ASSUME NEW i \in DOMAIN mIncomingQ PROVE Awaited(mIncomingQ[i])'
    <3>1. PICK x \in Messages : x = mIncomingQ[i]
      BY <1>10
    <3>2. Awaited(x)'
      BY <1>20, <3>1
    <3> QED
      BY <1>5, <3>1, <3>2 DEF Awaited
  <2> QED
    BY <1>5, <1>19, <2>1 DEF AnswersAwaited, SameAnswer
<1>22. LastIsLast'
  <2>1. ASSUME NEW i \in DOMAIN mIncomingQ, IsLast(mIncomingQ[i])'
        PROVE  LET u == mIncomingQ[i].timer
               IN /\ life'[u] = "deleting"
                  /\ \A j \in DOMAIN mIncomingQ : mIncomingQ[j].timer = u => j <= i
                  /\ \A b \in Threads : call'[b].step = "post" => call'[b].timer # u
                  /\ mIncomingQ[i].type = "UPDATE_DELETE" => NoCallOn(u)'
    <3>1. PICK x \in Messages : x = mIncomingQ[i]
      BY <1>10
    <3>2. IsLast(x)'
      BY <1>5, <2>1, <3>1 DEF IsLast
    <3>3. IsLast(mIncomingQ[i])
      BY <1>20, <3>1, <3>2
    <3>4. PICK u \in Timers : u = mIncomingQ[i].timer
      BY <3>1 DEF Messages
    <3>5. /\ life[u] = "deleting"
          /\ \A j \in DOMAIN mIncomingQ : mIncomingQ[j].timer = u => j <= i
          /\ \A b \in Threads : call[b].step = "post" => call[b].timer # u
          /\ mIncomingQ[i].type = "UPDATE_DELETE" => NoCallOn(u)
      BY <1>0, <3>3, <3>4 DEF MessageInv, LastIsLast
    <3>6. m.type = "UPDATE_DELETE" => u # t
      BY <1>15, <1>16, <3>4 DEF Unheard
    <3>7. \A b \in Threads : call'[b].step = "post" => call'[b].timer # u
      BY <1>8, <1>9, <3>5
    <3>8. mIncomingQ[i].type = "UPDATE_DELETE" => NoCallOn(u)'
      BY <1>11, <3>5
    <3> QED
      BY <1>5, <3>4, <3>5, <3>6, <3>7, <3>8 DEF NoCallOn
  <2>2. ASSUME NEW b \in Threads, call'[b].step = "signalled", call'[b].deletes
        PROVE  \A i \in DOMAIN mIncomingQ : mIncomingQ[i].timer # call'[b].timer
    <3>1. CASE call[b].step = "signalled"
      <4>1. call[b] # NoCall
        BY <1>0, <3>1, Facts
      <4>2. call[b].deletes /\ call'[b].timer = call[b].timer
        BY <1>8, <2>2, <4>1
      <4>3. Unheard(call[b].timer)
        BY <1>0, <3>1, <4>2 DEF MessageInv, LastIsLast
      <4> QED
        BY <4>2, <4>3 DEF Unheard
    <3>2. CASE call[b].step # "signalled"
      <4>1. m.type = "UPDATE_SYNC" /\ b = e
        BY <1>8, <2>2, <3>2
      <4>2. call[e] # NoCall /\ call[e].timer = t
        BY <1>0, <1>7, <4>1, Facts
      <4>3. call[e].deletes /\ call'[b].timer = t
        BY <1>8, <2>2, <4>1, <4>2
      <4>4. IsLast(m)
        BY <1>4, <4>1, <4>3 DEF IsLast
      <4> QED
        BY <1>15, <4>3, <4>4 DEF Unheard
    <3> QED
      BY <3>1, <3>2
  <2>3. ASSUME NEW b \in Threads, call'[b].step = "signalled", call'[b].deletes,
               NEW c \in Threads, call'[c].step = "post"
        PROVE  call'[c].timer # call'[b].timer
    <3>1. /\ call[b] # NoCall /\ call[b].deletes /\ call'[b].timer = call[b].timer
          /\ call[c] # NoCall /\ call[c].step = "post" /\ call'[c].timer = call[c].timer
      <4>1. call[b] # NoCall
        BY <1>0, <1>7, <1>8, <2>3, Facts
      <4>2. call[c] # NoCall /\ call[c].step = "post"
        BY <1>9, <2>3
      <4> QED
        BY <1>8, <2>3, <4>1, <4>2
    <3>2. Deletes(b)
      BY <3>1 DEF Deletes
    <3>3. c # b
      BY <2>3
    <3> QED
      BY <1>0, <3>1, <3>2, <3>3 DEF MessageInv, DeleterAlone
  <2> QED
    BY <1>5, <2>1, <2>2, <2>3 DEF LastIsLast, Unheard, NoCallOn
<1>23. Existing'
  <2>1. m.type = "UPDATE_DELETE" => t \notin Queued'
    <3> SUFFICES ASSUME m.type = "UPDATE_DELETE" PROVE t \notin Queued'
      OBVIOUS
    <3>1. Unheard(t) /\ life[t] = "deleting" /\ isStopped(mApplicationState[t])
      BY <1>0, <1>15, <1>16 DEF MessageInv, Existing
    <3>2. mOutstandingMessages[t] = 0
      BY <1>0, <3>1, UnheardIsZero DEF MessageInv
    <3>3. /\ mApplicationState[t] # mTaskState[t] => task.applicationState = mApplicationState[t]
          /\ task.applicationState >= mTaskState[t] /\ task.applicationState <= mApplicationState[t]
      BY <1>1, <1>2, <1>3, <3>2 DEF IInv, NoLostUpdate, ApplicationStateLeads
    <3>4. task.applicationState = mApplicationState[t]
      BY <1>0, <1>1, <3>3 DEF TypeOK
    <3>5. mTaskState'[t] = mApplicationState[t] /\ mApplicationState[t] \in Nat
      BY <1>0, <1>5, <3>4 DEF TypeOK
    <3>6. ~isStarted(mTaskState'[t])
      BY <3>1, <3>5, Parity
    <3> QED
      BY <3>6, ApplyKeepsQueue DEF QueueMatchesTaskState
  <2>2. \A u \in Timers : u # t => (u \in Queued' <=> u \in Queued)
    BY <1>2, <1>3, ApplyKeepsQueue
  <2>3. life[t] # "freed"
    BY <1>0, <1>1, <1>2, <1>3 DEF MessageInv, Existing
  <2>4. ASSUME NEW u \in Timers, life'[u] = "freed"
        PROVE  Unheard(u)' /\ NoCallOn(u)' /\ u \notin Queued'
    <3>1. CASE u = t
      <4>1. m.type = "UPDATE_DELETE"
        BY <1>5, <2>3, <2>4, <3>1
      <4> QED
        BY <1>11, <1>15, <1>16, <2>1, <3>1, <4>1
    <3>2. CASE u # t
      BY <1>0, <1>5, <1>11, <2>2, <2>4, <3>2 DEF MessageInv, Existing
    <3> QED
      BY <3>1, <3>2
  <2>5. \A u \in Timers : life'[u] = "deleting" => isStopped(mApplicationState'[u])
    BY <1>0, <1>5 DEF MessageInv, Existing
  <2> QED
    BY <1>5, <2>4, <2>5 DEF Existing
<1> QED
  BY <1>13, <1>14, <1>17, <1>21, <1>22, <1>23 DEF MessageInv

-----------------------------------------------------------------------------
(* The methods of the application.                                          *)

\* A method that leaves the timer with another state, or the state it had, makes
\* sure that a message is outstanding.
LEMMA StateAdvances ==
  ASSUME IInv, NEW t \in Timers,
         UNCHANGED <<mTaskState, mQueuedExpiresAt, mQueuedPeriodic, taskVars, clock>>,
         \A u \in Timers : /\ mApplicationState'[u] \in Nat /\ mOutstandingMessages'[u] \in Nat
                           /\ mOutstandingMessages'[u] >= mOutstandingMessages[u]
                           /\ mApplicationState'[u] >= mApplicationState[u],
         \A u \in Timers : u # t => mApplicationState'[u] = mApplicationState[u],
         mOutstandingMessages'[t] > 0,
         \A u \in Timers : mApplicationState'[u] = mApplicationState[u] =>
           mExpiresAt'[u] = mExpiresAt[u] /\ mPeriodic'[u] = mPeriodic[u]
  PROVE  QueueMatchesTaskState' /\ QueueSorted' /\ NoLostUpdate' /\ Copied'
<1>1. /\ mTaskState' = mTaskState /\ mQueuedExpiresAt' = mQueuedExpiresAt
      /\ mQueuedPeriodic' = mQueuedPeriodic /\ mTimerQueue' = mTimerQueue
      /\ task' = task /\ now' = now /\ clock' = clock
  BY DEF taskVars
<1>2. TypeOK /\ NoLostUpdate /\ ApplicationStateLeads /\ Copied
  BY DEF IInv, NoLostUpdate
<1>3. \A u \in Timers : mApplicationState[u] \in Nat /\ mTaskState[u] \in Nat /\ mOutstandingMessages[u] \in Nat
  BY <1>2 DEF TypeOK
<1>4. task.step = "apply" => task.msg.timer \in Timers /\ task.applicationState \in Nat
  BY <1>2, Facts DEF Messages
<1>5. QueueMatchesTaskState' /\ QueueSorted'
  BY <1>1 DEF IInv, QueueMatchesTaskState, QueueSorted, Queued
<1>6. \A u \in Timers : mApplicationState[u] >= mTaskState[u]
  BY <1>2 DEF ApplicationStateLeads
<1>7. task.step = "apply" =>
        /\ task.applicationState >= mTaskState[task.msg.timer]
        /\ task.applicationState <= mApplicationState[task.msg.timer]
  BY <1>2 DEF ApplicationStateLeads
<1>8. ApplicationStateLeads'
  <2>1. \A u \in Timers : mApplicationState'[u] >= mTaskState[u]
    BY <1>3, <1>6
  <2>2. task.step = "apply" => task.applicationState <= mApplicationState'[task.msg.timer]
    BY <1>3, <1>4, <1>7
  <2> QED
    BY <1>1, <1>7, <2>1, <2>2 DEF ApplicationStateLeads
<1>9. ASSUME NEW u \in Timers, mApplicationState'[u] # mTaskState[u]
      PROVE  \/ mOutstandingMessages'[u] > 0
             \/ /\ task.step = "apply" /\ task.msg.timer = u
                /\ task.applicationState = mApplicationState'[u]
  <2>1. CASE u = t
    BY <2>1
  <2>2. CASE u # t
    <3>1. mApplicationState'[u] = mApplicationState[u] /\ mOutstandingMessages'[u] >= mOutstandingMessages[u]
      BY <2>2
    <3> QED
      BY <1>2, <1>3, <1>9, <3>1 DEF NoLostUpdate
  <2> QED
    BY <2>1, <2>2
<1>10. NoLostUpdate'
  BY <1>1, <1>8, <1>9 DEF NoLostUpdate
<1>11. task.step = "apply" /\ task.applicationState = mApplicationState'[task.msg.timer] =>
         task.expiresAt = mExpiresAt'[task.msg.timer] /\ task.periodic = mPeriodic'[task.msg.timer]
  <2> SUFFICES ASSUME task.step = "apply", task.applicationState = mApplicationState'[task.msg.timer]
               PROVE  task.expiresAt = mExpiresAt'[task.msg.timer] /\ task.periodic = mPeriodic'[task.msg.timer]
    OBVIOUS
  <2>1. mApplicationState'[task.msg.timer] = mApplicationState[task.msg.timer]
    BY <1>3, <1>4, <1>7
  <2>2. mExpiresAt'[task.msg.timer] = mExpiresAt[task.msg.timer] /\ mPeriodic'[task.msg.timer] = mPeriodic[task.msg.timer]
    BY <1>4, <2>1
  <2> QED
    BY <1>2, <2>1, <2>2 DEF Copied
<1>12. \A u \in Timers : mTaskState[u] = mApplicationState'[u] /\ isStarted(mTaskState[u]) =>
         mQueuedPeriodic[u] = mPeriodic'[u]
  <2> SUFFICES ASSUME NEW u \in Timers, mTaskState[u] = mApplicationState'[u], isStarted(mTaskState[u])
               PROVE  mQueuedPeriodic[u] = mPeriodic'[u]
    OBVIOUS
  <2>1. mApplicationState'[u] = mApplicationState[u]
    BY <1>3, <1>6
  <2> QED
    BY <1>2, <2>1 DEF Copied
<1>13. Copied'
  BY <1>1, <1>2, <1>11, <1>12 DEF Copied
<1> QED
  BY <1>5, <1>10, <1>13

LEMMA WillPostType ==
  ASSUME TypeOK, NEW a \in Threads, NEW t \in Timers, NEW type \in MessageTypes,
         NEW deletes \in BOOLEAN, WillPost(a, t, type, deletes)
  PROVE  /\ call' \in [Threads -> Calls]
         /\ mOutstandingMessages' \in [Timers -> Nat]
         /\ \A u \in Timers : mOutstandingMessages'[u] >= mOutstandingMessages[u]
         /\ mOutstandingMessages'[t] > 0
<1>1. [step |-> "post", timer |-> t, type |-> type, deletes |-> deletes] \in Calls
  BY DEF Calls
<1>2. call' \in [Threads -> Calls]
  BY <1>1 DEF WillPost, TypeOK
<1>3. mOutstandingMessages' \in [Timers -> Nat] /\ mOutstandingMessages \in [Timers -> Nat]
      /\ \A u \in Timers : mOutstandingMessages'[u] =
           IF u = t THEN mOutstandingMessages[u] + 1 ELSE mOutstandingMessages[u]
  BY DEF WillPost, TypeOK
<1> QED
  BY <1>2, <1>3

\* What start and stop have in common.
LEMMA UpdateKeeps ==
  ASSUME IInv, NEW a \in Threads, NEW t \in Timers, NEW type \in {"UPDATE", "UPDATE_SYNC"},
         Enter(a, t), Advance(t), WillUpdate(a, t, type),
         mWasFired' \in [Timers -> BOOLEAN], mExpiresAt' \in [Timers -> Nat],
         mPeriodic' \in [Timers -> BOOLEAN],
         \A u \in Timers : u # t => mExpiresAt'[u] = mExpiresAt[u] /\ mPeriodic'[u] = mPeriodic[u],
         UNCHANGED <<life, mTaskState, mQueuedExpiresAt, mQueuedPeriodic, taskVars, clock>>
  PROVE  IInv'
<1>0. TypeOK /\ type \in MessageTypes
  BY DEF IInv, MessageTypes
<1>1. /\ mIncomingQ' = mIncomingQ /\ mTimerQueue' = mTimerQueue /\ task' = task
      /\ now' = now /\ clock' = clock /\ life' = life /\ mTaskState' = mTaskState
      /\ mQueuedExpiresAt' = mQueuedExpiresAt /\ mQueuedPeriodic' = mQueuedPeriodic
  BY DEF taskVars
<1>2. /\ mApplicationState' \in [Timers -> Nat]
      /\ \A u \in Timers : mApplicationState'[u] =
           IF u = t THEN mApplicationState[u] + 1 ELSE mApplicationState[u]
      /\ \A u \in Timers : mApplicationState[u] \in Nat
  BY <1>0 DEF Advance, TypeOK
<1>3. /\ call' \in [Threads -> Calls] /\ mOutstandingMessages' \in [Timers -> Nat]
      /\ \A u \in Timers : mOutstandingMessages'[u] >= mOutstandingMessages[u]
      /\ mOutstandingMessages'[t] > 0
  <2>1. CASE mOutstandingMessages[t] = 0
    BY <1>0, <2>1, WillPostType DEF WillUpdate
  <2>2. CASE mOutstandingMessages[t] # 0
    BY <1>0, <2>2 DEF WillUpdate, TypeOK
  <2> QED
    BY <2>1, <2>2
<1>4. TypeOK'
  BY <1>0, <1>1, <1>2, <1>3 DEF TypeOK
<1>5. MessageInv'
  <2>1. CASE mOutstandingMessages[t] = 0
    <3>1. WillPost(a, t, type, FALSE)
      BY <2>1 DEF WillUpdate
    <3> QED
      BY <1>0, <1>1, <1>2, <3>1, WillPostKeeps
  <2>2. CASE mOutstandingMessages[t] # 0
    <3>1. UNCHANGED <<mOutstandingMessages, call>>
      BY <2>2 DEF WillUpdate
    <3>2. \A u \in Timers : life[u] = "deleting" => mApplicationState'[u] = mApplicationState[u]
      BY <1>2 DEF Enter
    <3> QED
      BY <1>1, <3>1, <3>2, NoMessageKeeps DEF Queued
  <2> QED
    BY <2>1, <2>2
<1>6. QueueMatchesTaskState' /\ QueueSorted' /\ NoLostUpdate' /\ Copied'
  <2>1. \A u \in Timers : /\ mApplicationState'[u] \in Nat /\ mOutstandingMessages'[u] \in Nat
                          /\ mOutstandingMessages'[u] >= mOutstandingMessages[u]
                          /\ mApplicationState'[u] >= mApplicationState[u]
    BY <1>2, <1>3
  <2>2. \A u \in Timers : mApplicationState'[u] = mApplicationState[u] =>
           mExpiresAt'[u] = mExpiresAt[u] /\ mPeriodic'[u] = mPeriodic[u]
    BY <1>2
  <2>3. \A u \in Timers : u # t => mApplicationState'[u] = mApplicationState[u]
    BY <1>2
  <2> QED
    BY <1>1, <1>3, <2>1, <2>2, <2>3, StateAdvances DEF taskVars
<1> QED
  BY <1>4, <1>5, <1>6 DEF IInv

LEMMA StartKeeps ==
  ASSUME IInv, NEW a \in Threads, NEW t \in Timers, StartTimer(a, t)
  PROVE  IInv'
<1>0. TypeOK
  BY DEF IInv
<1>1. PICK start \in 0..MaxClock, periodic \in BOOLEAN :
        /\ mExpiresAt' = [mExpiresAt EXCEPT ![t] = start]
        /\ mPeriodic' = [mPeriodic EXCEPT ![t] = periodic]
  BY DEF StartTimer
<1>2. start \in Nat
  BY <1>1, TimerAssumption
<1>3. /\ mWasFired' \in [Timers -> BOOLEAN] /\ mExpiresAt' \in [Timers -> Nat]
      /\ mPeriodic' \in [Timers -> BOOLEAN]
      /\ \A u \in Timers : u # t => mExpiresAt'[u] = mExpiresAt[u] /\ mPeriodic'[u] = mPeriodic[u]
  BY <1>0, <1>1, <1>2 DEF StartTimer, TypeOK
<1>4. /\ Enter(a, t) /\ Advance(t) /\ WillUpdate(a, t, "UPDATE")
      /\ UNCHANGED <<life, mTaskState, mQueuedExpiresAt, mQueuedPeriodic, taskVars, clock>>
  BY DEF StartTimer
<1> QED
  BY <1>3, <1>4, UpdateKeeps

LEMMA StopKeeps ==
  ASSUME IInv, NEW a \in Threads, NEW t \in Timers, StopTimer(a, t)
  PROVE  IInv'
<1>0. TypeOK
  BY DEF IInv
<1>1. PICK type \in {"UPDATE", "UPDATE_SYNC"} : WillUpdate(a, t, type)
  BY DEF StopTimer
<1>2. /\ mWasFired' \in [Timers -> BOOLEAN] /\ mExpiresAt' \in [Timers -> Nat]
      /\ mPeriodic' \in [Timers -> BOOLEAN]
      /\ \A u \in Timers : u # t => mExpiresAt'[u] = mExpiresAt[u] /\ mPeriodic'[u] = mPeriodic[u]
  BY <1>0 DEF StopTimer, TypeOK
<1>3. /\ Enter(a, t) /\ Advance(t)
      /\ UNCHANGED <<life, mTaskState, mQueuedExpiresAt, mQueuedPeriodic, taskVars, clock>>
  BY DEF StopTimer
<1> QED
  BY <1>1, <1>2, <1>3, UpdateKeeps

\* What the two deletions have in common.
LEMMA DeletionKeeps ==
  ASSUME IInv, NEW a \in Threads, NEW t \in Timers, NEW type \in MessageTypes,
         NEW deletes \in BOOLEAN, deletes => type = "UPDATE_SYNC",
         deletes \/ type = "UPDATE_DELETE",
         EnterAlone(a, t), StopIfStarted(t), WillPost(a, t, type, deletes),
         life' = [life EXCEPT ![t] = "deleting"],
         UNCHANGED <<mTaskState, mWasFired, mExpiresAt, mPeriodic,
                     mQueuedExpiresAt, mQueuedPeriodic, taskVars, clock>>
  PROVE  IInv'
<1>0. TypeOK
  BY DEF IInv
<1>1. /\ mIncomingQ' = mIncomingQ /\ mTimerQueue' = mTimerQueue /\ task' = task
      /\ now' = now /\ clock' = clock /\ mTaskState' = mTaskState
      /\ mQueuedExpiresAt' = mQueuedExpiresAt /\ mQueuedPeriodic' = mQueuedPeriodic
      /\ mWasFired' = mWasFired /\ mExpiresAt' = mExpiresAt /\ mPeriodic' = mPeriodic
  BY DEF taskVars
<1>2. /\ mApplicationState' \in [Timers -> Nat] /\ isStopped(mApplicationState'[t])
      /\ \A u \in Timers : /\ u # t => mApplicationState'[u] = mApplicationState[u]
                           /\ mApplicationState[u] \in Nat
                           /\ mApplicationState'[u] >= mApplicationState[u]
  <2>0. mApplicationState \in [Timers -> Nat]
    BY <1>0 DEF TypeOK
  <2>1. CASE isStarted(mApplicationState[t])
    <3>1. mApplicationState' = [mApplicationState EXCEPT ![t] = @ + 1]
      BY <2>1 DEF StopIfStarted, Advance
    <3>2. isStopped(mApplicationState'[t])
      BY <2>0, <2>1, <3>1, Parity
    <3> QED
      BY <2>0, <3>1, <3>2
  <2>2. CASE ~isStarted(mApplicationState[t])
    <3>1. mApplicationState' = mApplicationState
      BY <2>2 DEF StopIfStarted
    <3>2. isStopped(mApplicationState'[t])
      BY <2>0, <2>2, <3>1, Parity
    <3> QED
      BY <2>0, <3>1, <3>2
  <2> QED
    BY <2>1, <2>2
<1>3. /\ call' \in [Threads -> Calls] /\ mOutstandingMessages' \in [Timers -> Nat]
      /\ \A u \in Timers : mOutstandingMessages'[u] >= mOutstandingMessages[u]
      /\ mOutstandingMessages'[t] > 0
  BY <1>0, WillPostType
<1>4. TypeOK'
  BY <1>0, <1>1, <1>2, <1>3 DEF TypeOK, Kinds
<1>5. MessageInv'
  <2>1. Enter(a, t)
    BY DEF EnterAlone
  <2> QED
    BY <1>1, <1>2, <2>1, WillPostKeeps
<1>6. QueueMatchesTaskState' /\ QueueSorted' /\ NoLostUpdate' /\ Copied'
  <2>1. \A u \in Timers : /\ mApplicationState'[u] \in Nat /\ mOutstandingMessages'[u] \in Nat
                          /\ mOutstandingMessages'[u] >= mOutstandingMessages[u]
                          /\ mApplicationState'[u] >= mApplicationState[u]
    BY <1>2, <1>3
  <2>2. \A u \in Timers : mExpiresAt'[u] = mExpiresAt[u] /\ mPeriodic'[u] = mPeriodic[u]
    BY <1>1
  <2> QED
    BY <1>1, <1>2, <1>3, <2>1, <2>2, StateAdvances DEF taskVars
<1> QED
  BY <1>4, <1>5, <1>6 DEF IInv

LEMMA DeleteAsyncKeeps ==
  ASSUME IInv, NEW a \in Threads, NEW t \in Timers, DeleteAsync(a, t)
  PROVE  IInv'
<1>1. "UPDATE_DELETE" \in MessageTypes /\ FALSE \in BOOLEAN
  BY DEF MessageTypes
<1>2. /\ EnterAlone(a, t) /\ StopIfStarted(t) /\ WillPost(a, t, "UPDATE_DELETE", FALSE)
      /\ life' = [life EXCEPT ![t] = "deleting"]
      /\ UNCHANGED <<mTaskState, mWasFired, mExpiresAt, mPeriodic,
                     mQueuedExpiresAt, mQueuedPeriodic, taskVars, clock>>
  BY DEF DeleteAsync
<1> QED
  BY <1>1, <1>2, DeletionKeeps

\* The destructor of a timer that is stopped does not tell the task; the theorems
\* exclude it.
NoStoppedDestructor == "destructorWhileStopped" \notin Deleters

LEMMA DestroyNeedsTask ==
  ASSUME NoStoppedDestructor, NEW a, NEW t, Destroy(a, t)
  PROVE  /\ isStarted(mApplicationState[t]) /\ NeedsTask(t)
         /\ life' = [life EXCEPT ![t] = "deleting"]
         /\ WillPost(a, t, "UPDATE_SYNC", TRUE)
<1>1. isStarted(mApplicationState[t])
  BY DEF Destroy, NoStoppedDestructor
<1>2. NeedsTask(t)
  BY <1>1 DEF NeedsTask
<1> QED
  BY <1>1, <1>2 DEF Destroy

LEMMA DestroyKeeps ==
  ASSUME NoStoppedDestructor, IInv, NEW a \in Threads, NEW t \in Timers, Destroy(a, t)
  PROVE  IInv'
<1>1. "UPDATE_SYNC" \in MessageTypes /\ TRUE \in BOOLEAN
  BY DEF MessageTypes
<1>2. /\ WillPost(a, t, "UPDATE_SYNC", TRUE) /\ life' = [life EXCEPT ![t] = "deleting"]
  BY DestroyNeedsTask
<1>3. /\ EnterAlone(a, t) /\ StopIfStarted(t)
      /\ UNCHANGED <<mTaskState, mWasFired, mExpiresAt, mPeriodic,
                     mQueuedExpiresAt, mQueuedPeriodic, taskVars, clock>>
  BY DEF Destroy
<1> QED
  BY <1>1, <1>2, <1>3, DeletionKeeps

LEMMA ConstructKeeps ==
  ASSUME IInv, NEW t \in Timers, Construct(t)
  PROVE  IInv'
<1>0. TypeOK /\ MessageInv /\ NoLostUpdate /\ ApplicationStateLeads /\ Copied
  BY DEF IInv, NoLostUpdate
<1>1. TypeOK'
  BY <1>0 DEF Construct, TypeOK, taskVars, Kinds
<1>2. /\ life[t] = "freed" /\ mTimerQueue' = mTimerQueue /\ task' = task /\ now' = now /\ clock' = clock
      /\ \A u \in Timers :
           /\ mApplicationState'[u] = IF u = t THEN 0 ELSE mApplicationState[u]
           /\ mTaskState'[u] = IF u = t THEN 0 ELSE mTaskState[u]
           /\ mOutstandingMessages'[u] = IF u = t THEN 0 ELSE mOutstandingMessages[u]
           /\ u # t => /\ mExpiresAt'[u] = mExpiresAt[u] /\ mPeriodic'[u] = mPeriodic[u]
                       /\ mQueuedExpiresAt'[u] = mQueuedExpiresAt[u]
                       /\ mQueuedPeriodic'[u] = mQueuedPeriodic[u]
  BY <1>0 DEF Construct, TypeOK, taskVars
<1>3. t \notin Queued /\ (task.step = "apply" => task.msg.timer \in Timers /\ task.msg.timer # t)
  BY <1>0, <1>2, Facts DEF MessageInv, Existing, Messages
<1>4. QueueMatchesTaskState'
  BY <1>2, <1>3, ZeroIsStopped DEF IInv, QueueMatchesTaskState, Queued
<1>5. QueueSorted'
  <2> SUFFICES ASSUME NEW i \in DOMAIN mTimerQueue, NEW j \in DOMAIN mTimerQueue, i < j
               PROVE  mQueuedExpiresAt'[mTimerQueue[i]] <= mQueuedExpiresAt'[mTimerQueue[j]]
    BY <1>2 DEF QueueSorted
  <2>1. mTimerQueue[i] \in Timers /\ mTimerQueue[j] \in Timers
    BY <1>0 DEF TypeOK
  <2>2. mTimerQueue[i] # t /\ mTimerQueue[j] # t
    BY <1>3 DEF Queued, ToSet
  <2> QED
    BY <1>2, <2>1, <2>2 DEF IInv, QueueSorted
<1>6. NoLostUpdate'
  BY <1>0, <1>2, <1>3 DEF NoLostUpdate, ApplicationStateLeads
<1>7. Copied'
  BY <1>0, <1>2, <1>3, ZeroIsStopped DEF Copied
<1> QED
  BY <1>1, <1>4, <1>5, <1>6, <1>7, ConstructKeepsMessages DEF IInv

LEMMA PostKeeps ==
  ASSUME IInv, NEW a \in Threads, PostMessage(a)
  PROVE  IInv'
<1>0. TypeOK
  BY DEF IInv
<1>1. call[a].step = "post" /\ call[a] \in CallRecords
  BY <1>0, Facts DEF PostMessage
<1>2. [type |-> call[a].type, timer |-> call[a].timer, event |-> a] \in Messages
  BY <1>1 DEF Messages, CallRecords
<1>3. [call[a] EXCEPT !.step = "wait"] \in Calls /\ NoCall \in Calls
  BY <1>1 DEF CallRecords, Calls
<1>4. mIncomingQ' \in Seq(Messages)
  BY <1>0, <1>2, AppendProperties DEF PostMessage, TypeOK
<1>5. call' \in [Threads -> Calls]
  BY <1>0, <1>3 DEF PostMessage, TypeOK
<1>6. TypeOK'
  BY <1>0, <1>4, <1>5 DEF PostMessage, TypeOK, timerVars
<1>7. QueueMatchesTaskState' /\ QueueSorted' /\ NoLostUpdate' /\ Copied'
  BY DEF PostMessage, timerVars, IInv, QueueMatchesTaskState, Queued, QueueSorted,
         NoLostUpdate, ApplicationStateLeads, Copied
<1> QED
  BY <1>6, <1>7, PostKeepsMessages DEF IInv

LEMMA AwakeKeeps ==
  ASSUME IInv, NEW a \in Threads, Awake(a)
  PROVE  IInv'
<1>0. TypeOK
  BY DEF IInv
<1>1. TypeOK'
  BY <1>0 DEF Awake, TypeOK, taskVars, Calls, Kinds
<1>2. QueueMatchesTaskState' /\ QueueSorted' /\ NoLostUpdate' /\ Copied'
  BY DEF Awake, taskVars, IInv, QueueMatchesTaskState, Queued, QueueSorted,
         NoLostUpdate, ApplicationStateLeads, Copied
<1> QED
  BY <1>1, <1>2, AwakeKeepsMessages DEF IInv

LEMMA TickKeeps ==
  ASSUME IInv, Tick
  PROVE  IInv'
<1>0. TypeOK
  BY DEF IInv
<1>1. /\ UNCHANGED <<timerVars, taskVars, call>> /\ clock' = clock + 1
  BY DEF Tick
<1>2. TypeOK'
  BY <1>0, <1>1 DEF TypeOK, timerVars, taskVars
<1>3. QueueMatchesTaskState' /\ QueueSorted' /\ NoLostUpdate'
  BY <1>1 DEF timerVars, taskVars, IInv, QueueMatchesTaskState, Queued, QueueSorted,
              NoLostUpdate, ApplicationStateLeads
<1>4. now <= clock + 1
  BY <1>0 DEF IInv, Copied, TypeOK
<1>5. Copied'
  BY <1>1, <1>4 DEF timerVars, taskVars, IInv, Copied
<1>6. MessageInv'
  BY <1>1, NoMessageKeeps DEF timerVars, taskVars, Queued
<1> QED
  BY <1>2, <1>3, <1>5, <1>6 DEF IInv

-----------------------------------------------------------------------------
(* The timer task.                                                          *)

LEMMA ReceiveKeeps ==
  ASSUME IInv, ReceiveMessage
  PROVE  IInv'
<1>0. TypeOK /\ MessageInv /\ NoLostUpdate /\ ApplicationStateLeads
  BY DEF IInv, NoLostUpdate
<1>1. mIncomingQ # <<>> /\ mIncomingQ \in Seq(Messages) /\ task = Loop
  BY <1>0 DEF ReceiveMessage, TypeOK
<1>2. PICK m \in Messages : m = Head(mIncomingQ)
  BY <1>1
<1>3. PICK t \in Timers : t = m.timer
  BY DEF Messages
<1>4. /\ mIncomingQ' = Tail(mIncomingQ)
      /\ mOutstandingMessages' = [mOutstandingMessages EXCEPT ![t] = @ - 1]
      /\ task' = [step |-> "apply", msg |-> m, applicationState |-> mApplicationState[t],
                  expiresAt |-> mExpiresAt[t], periodic |-> mPeriodic[t]]
      /\ UNCHANGED <<life, mApplicationState, mTaskState, mWasFired, mExpiresAt,
                     mPeriodic, mQueuedExpiresAt, mQueuedPeriodic, mTimerQueue, now, call, clock>>
  BY <1>2, <1>3 DEF ReceiveMessage
<1>5. mOutstandingMessages[t] > 0
  <2>1. 1 \in InQueue(t)
    BY <1>1, <1>2, <1>3 DEF InQueue
  <2>2. /\ Cardinality(InQueue(t)) \in Nat /\ Cardinality(Posting(t)) \in Nat
        /\ Cardinality(InQueue(t)) # 0
    BY <1>0, <2>1, Countable, FS_EmptySet
  <2> QED
    BY <1>0, <2>2 DEF MessageInv, Counted
<1>6. /\ mOutstandingMessages' \in [Timers -> Nat]
      /\ \A u \in Timers : u # t => mOutstandingMessages'[u] = mOutstandingMessages[u]
  BY <1>0, <1>4, <1>5 DEF TypeOK
<1>7. task' \in TaskSteps
  BY <1>0, <1>4 DEF TypeOK, TaskSteps
<1>8. mIncomingQ' \in Seq(Messages)
  BY <1>1, <1>4
<1>9. TypeOK'
  BY <1>0, <1>4, <1>6, <1>7, <1>8 DEF TypeOK
<1>10. QueueMatchesTaskState' /\ QueueSorted'
  BY <1>4 DEF IInv, QueueMatchesTaskState, Queued, QueueSorted
<1>11. /\ task'.step = "apply" /\ task'.msg = m /\ task'.applicationState = mApplicationState[t]
       /\ task'.expiresAt = mExpiresAt[t] /\ task'.periodic = mPeriodic[t]
  BY <1>4
<1>12. task.step # "apply"
  BY <1>1 DEF Loop
<1>13. ApplicationStateLeads'
  <2>1. mApplicationState[t] <= mApplicationState[t] /\ mApplicationState[t] >= mTaskState[t]
    BY <1>0 DEF TypeOK, ApplicationStateLeads
  <2> QED
    BY <1>0, <1>3, <1>4, <1>11, <2>1 DEF ApplicationStateLeads
<1>14. NoLostUpdate'
  <2> SUFFICES ASSUME NEW u \in Timers, mApplicationState[u] # mTaskState[u]
               PROVE  \/ mOutstandingMessages'[u] > 0
                      \/ task'.msg.timer = u /\ task'.applicationState = mApplicationState[u]
    BY <1>4, <1>11, <1>13 DEF NoLostUpdate
  <2>1. CASE u = t
    BY <1>3, <1>11, <2>1
  <2>2. CASE u # t
    BY <1>0, <1>6, <1>12, <2>2 DEF NoLostUpdate
  <2> QED
    BY <2>1, <2>2
<1>15. Copied'
  BY <1>3, <1>4, <1>11 DEF IInv, Copied
<1> QED
  BY <1>9, <1>10, <1>14, <1>15, ReceiveKeepsMessages DEF IInv

LEMMA ApplyKeeps ==
  ASSUME IInv, ApplyUpdate
  PROVE  IInv'
<1>0. TypeOK /\ MessageInv /\ NoLostUpdate /\ ApplicationStateLeads /\ Copied
  BY DEF IInv, NoLostUpdate
<1>1. /\ task.step = "apply" /\ task.msg \in Messages /\ task.applicationState \in Nat
      /\ task.expiresAt \in Nat /\ task.periodic \in BOOLEAN
  BY <1>0, Facts DEF ApplyUpdate
<1>2. PICK t \in Timers : t = task.msg.timer
  BY <1>1 DEF Messages
<1> DEFINE applied == task.applicationState
<1>3. /\ mTaskState' = [mTaskState EXCEPT ![t] = applied]
      /\ \A u \in Timers : mTaskState'[u] = IF u = t THEN applied ELSE mTaskState[u]
      /\ IF applied # mTaskState[t] /\ isStarted(applied)
         THEN mQueuedPeriodic' = [mQueuedPeriodic EXCEPT ![t] = task.periodic]
         ELSE mQueuedPeriodic' = mQueuedPeriodic
      /\ task' = Loop /\ now' = clock
      /\ UNCHANGED <<mApplicationState, mOutstandingMessages, mWasFired, mExpiresAt,
                     mPeriodic, mIncomingQ, clock>>
  BY <1>0, <1>2 DEF ApplyUpdate, TypeOK
<1>4. task'.step = "loop"
  BY <1>3 DEF Loop
<1>5. call' \in [Threads -> Calls]
  <2>1. CASE task.msg.type = "UPDATE_SYNC"
    <3>1. PICK e \in Threads : e = task.msg.event
      BY <1>1 DEF Messages
    <3>2. call[e].step = "wait"
      BY <1>0, <1>1, <2>1, <3>1 DEF MessageInv, AnswersAwaited, Awaited
    <3>3. call[e] \in CallRecords
      BY <1>0, <3>2, Facts
    <3>4. [call[e] EXCEPT !.step = "signalled"] \in Calls
      BY <3>3 DEF CallRecords, Calls
    <3>5. call' = [call EXCEPT ![e].step = "signalled"]
      BY <2>1, <3>1 DEF ApplyUpdate, AnswerEvent
    <3> QED
      BY <1>0, <3>4, <3>5 DEF TypeOK
  <2>2. CASE task.msg.type # "UPDATE_SYNC"
    BY <1>0, <2>2 DEF ApplyUpdate, AnswerEvent, TypeOK
  <2> QED
    BY <2>1, <2>2
<1>6. life' \in [Timers -> Kinds]
  BY <1>0 DEF ApplyUpdate, TypeOK, Kinds
<1>7. mTaskState' \in [Timers -> Nat] /\ mQueuedPeriodic' \in [Timers -> BOOLEAN]
  BY <1>0, <1>1, <1>3 DEF TypeOK
<1>8. TypeOK'
  BY <1>0, <1>3, <1>5, <1>6, <1>7, ApplyKeepsQueue DEF TypeOK, TaskSteps
<1>9. QueueMatchesTaskState' /\ QueueSorted'
  <2>1. /\ mTimerQueue' \in Seq(Timers) /\ Sorted(mTimerQueue', mQueuedExpiresAt')
        /\ QueueMatchesTaskState'
    BY ApplyKeepsQueue
  <2>2. DOMAIN mTimerQueue' = 1..Len(mTimerQueue')
    BY <2>1
  <2> QED
    BY <2>1, <2>2 DEF QueueSorted, Sorted
<1>10. /\ applied >= mTaskState[t] /\ applied <= mApplicationState[t]
       /\ mApplicationState[t] \in Nat /\ mTaskState[t] \in Nat
  BY <1>0, <1>1, <1>2 DEF ApplicationStateLeads, TypeOK
<1>11. ApplicationStateLeads'
  BY <1>0, <1>1, <1>3, <1>4, <1>10 DEF ApplicationStateLeads
<1>12. NoLostUpdate'
  <2> SUFFICES ASSUME NEW u \in Timers, mApplicationState[u] # mTaskState'[u]
               PROVE  mOutstandingMessages[u] > 0
    BY <1>3, <1>11 DEF NoLostUpdate
  <2>1. CASE u = t
    <3>1. mApplicationState[t] # applied
      BY <1>3, <2>1
    <3>2. mApplicationState[t] # mTaskState[t]
      BY <1>1, <1>10, <3>1
    <3> QED
      BY <1>0, <2>1, <3>1, <3>2 DEF NoLostUpdate
  <2>2. CASE u # t
    BY <1>0, <1>2, <1>3, <2>2 DEF NoLostUpdate
  <2> QED
    BY <2>1, <2>2
<1>13. Copied'
  <2>1. ASSUME NEW u \in Timers, mTaskState'[u] = mApplicationState[u], isStarted(mTaskState'[u])
        PROVE  mQueuedPeriodic'[u] = mPeriodic[u]
    <3>1. CASE u = t
      <4>1. applied = mApplicationState[t] /\ isStarted(applied)
        BY <1>3, <2>1, <3>1
      <4>2. CASE applied # mTaskState[t]
        <5>1. mQueuedPeriodic' = [mQueuedPeriodic EXCEPT ![t] = task.periodic]
          BY <1>3, <4>1, <4>2
        <5>2. task.periodic = mPeriodic[t]
          BY <1>0, <1>1, <1>2, <4>1 DEF Copied
        <5> QED
          BY <1>0, <3>1, <5>1, <5>2 DEF TypeOK
      <4>3. CASE applied = mTaskState[t]
        <5>1. mQueuedPeriodic' = mQueuedPeriodic
          BY <1>3, <4>3
        <5> QED
          BY <1>0, <3>1, <4>1, <4>3, <5>1 DEF Copied
      <4> QED
        BY <4>2, <4>3
    <3>2. CASE u # t
      <4>1. mQueuedPeriodic'[u] = mQueuedPeriodic[u] /\ mTaskState'[u] = mTaskState[u]
        BY <1>0, <1>3, <3>2 DEF TypeOK
      <4> QED
        BY <1>0, <2>1, <4>1 DEF Copied
    <3> QED
      BY <3>1, <3>2
  <2>2. clock <= clock
    BY <1>0 DEF TypeOK
  <2> QED
    BY <1>3, <1>4, <2>1, <2>2 DEF Copied
<1> QED
  BY <1>8, <1>9, <1>12, <1>13, ApplyKeepsMessages DEF IInv

LEMMA ReceiveTimeoutKeeps ==
  ASSUME IInv, ReceiveTimeout
  PROVE  IInv'
<1>0. TypeOK
  BY DEF IInv
<1>1. /\ UNCHANGED <<timerVars, mIncomingQ, mTimerQueue, task, call, clock>> /\ now' = clock
  BY DEF ReceiveTimeout
<1>2. TypeOK'
  BY <1>0, <1>1 DEF TypeOK, timerVars
<1>3. QueueMatchesTaskState' /\ QueueSorted' /\ NoLostUpdate'
  BY <1>1 DEF timerVars, IInv, QueueMatchesTaskState, Queued, QueueSorted,
              NoLostUpdate, ApplicationStateLeads
<1>4. clock <= clock
  BY <1>0 DEF TypeOK
<1>5. Copied'
  BY <1>1, <1>4 DEF timerVars, IInv, Copied
<1>6. MessageInv'
  BY <1>1, NoMessageKeeps DEF timerVars, Queued
<1> QED
  BY <1>2, <1>3, <1>5, <1>6 DEF IInv

LEMMA SignalReturnsKeeps ==
  ASSUME IInv, SignalReturns
  PROVE  IInv'
<1>0. TypeOK
  BY DEF IInv
<1>1. /\ task.step = "signal" /\ task' = Loop /\ task'.step = "loop"
      /\ mWasFired' \in [Timers -> BOOLEAN]
      /\ UNCHANGED <<life, mApplicationState, mTaskState, mOutstandingMessages,
                     mExpiresAt, mPeriodic, mQueuedExpiresAt, mQueuedPeriodic,
                     mIncomingQ, mTimerQueue, now, call, clock>>
  BY <1>0 DEF SignalReturns, Loop, TypeOK
<1>2. TypeOK'
  BY <1>0, <1>1 DEF TypeOK, TaskSteps
<1>3. QueueMatchesTaskState' /\ QueueSorted' /\ NoLostUpdate' /\ Copied'
  BY <1>1 DEF IInv, QueueMatchesTaskState, Queued, QueueSorted,
              NoLostUpdate, ApplicationStateLeads, Copied
<1>4. MessageInv'
  BY <1>1, NoMessageKeeps DEF Queued
<1> QED
  BY <1>2, <1>3, <1>4 DEF IInv

LEMMA FireKeeps ==
  ASSUME IInv, FireTimer
  PROVE  IInv'
<1>0. /\ TypeOK /\ MessageInv /\ NoLostUpdate /\ ApplicationStateLeads /\ Copied
      /\ QueueMatchesTaskState /\ IsInjective(mTimerQueue)
      /\ Sorted(mTimerQueue, mQueuedExpiresAt)
  BY SortedQueue DEF IInv, NoLostUpdate, QueueMatchesTaskState
<1>1. /\ task = Loop /\ task.step = "loop" /\ mTimerQueue # <<>> /\ mTimerQueue \in Seq(Timers)
      /\ mQueuedExpiresAt \in [Timers -> Nat]
      /\ UNCHANGED <<life, mOutstandingMessages, mWasFired, mExpiresAt, mPeriodic,
                     mQueuedPeriodic, mIncomingQ, now, call, clock>>
  BY <1>0 DEF FireTimer, Due, Loop, TypeOK
<1>2. /\ Head(mTimerQueue) \in ToSet(mTimerQueue) /\ Tail(mTimerQueue) \in Seq(Timers)
      /\ ToSet(Tail(mTimerQueue)) = ToSet(mTimerQueue) \ {Head(mTimerQueue)}
      /\ IsInjective(Tail(mTimerQueue))
      /\ Sorted(Tail(mTimerQueue), mQueuedExpiresAt)
  BY <1>0, <1>1, TailKeeps
<1>3. PICK t \in Timers : t = Head(mTimerQueue)
  BY <1>1
<1>4. /\ isStarted(mTaskState[t]) /\ life[t] # "freed" /\ t \in Queued
      /\ mTaskState[t] \in Nat /\ mApplicationState[t] \in Nat
      /\ ~isStarted(mTaskState[t] + 1)
  <2>1. t \in Queued /\ mTaskState[t] \in Nat /\ mApplicationState[t] \in Nat
    BY <1>0, <1>2, <1>3 DEF Queued, TypeOK
  <2>2. isStarted(mTaskState[t]) /\ life[t] # "freed"
    BY <1>0, <2>1 DEF QueueMatchesTaskState, MessageInv, Existing
  <2> QED
    BY <2>1, <2>2, Parity
<1>5. \A u \in Timers : u \in ToSet(mTimerQueue) <=> isStarted(mTaskState[u])
  BY <1>0 DEF QueueMatchesTaskState, Queued
<1>6. FireStopped(t) \/ FireOneShot(t) \/ FirePeriodic(t)
  BY <1>3 DEF FireTimer
<1>7. CASE FireStopped(t)
  <2>1. /\ mTaskState[t] # mApplicationState[t] /\ mTimerQueue' = Tail(mTimerQueue)
        /\ mTaskState' = [mTaskState EXCEPT ![t] = mTaskState[t] + 1]
        /\ UNCHANGED <<mApplicationState, mQueuedExpiresAt, task>>
    BY <1>7 DEF FireStopped, Report
  <2>2. /\ mTaskState' \in [Timers -> Nat]
        /\ \A u \in Timers : mTaskState'[u] = IF u = t THEN mTaskState[t] + 1 ELSE mTaskState[u]
    BY <1>0, <1>4, <2>1 DEF TypeOK
  <2>3. TypeOK'
    BY <1>0, <1>1, <1>2, <2>1, <2>2 DEF TypeOK
  <2>4. QueueMatchesTaskState' /\ QueueSorted'
    <3>1. QueueMatchesTaskState'
      BY <1>2, <1>3, <1>4, <1>5, <2>1, <2>2 DEF QueueMatchesTaskState, Queued
    <3>2. DOMAIN mTimerQueue' = 1..Len(mTimerQueue')
      BY <1>2, <2>1
    <3>3. QueueSorted'
      BY <1>2, <2>1, <3>2 DEF QueueSorted, Sorted
    <3> QED
      BY <3>1, <3>3
  <2>5. ApplicationStateLeads'
    <3>1. mTaskState[t] + 1 <= mApplicationState[t]
      BY <1>0, <1>4, <2>1 DEF ApplicationStateLeads
    <3> QED
      BY <1>0, <1>1, <2>1, <2>2, <3>1 DEF ApplicationStateLeads
  <2>6. NoLostUpdate'
    BY <1>0, <1>1, <2>1, <2>2, <2>5 DEF NoLostUpdate
  <2>7. Copied'
    BY <1>0, <1>1, <1>4, <2>1, <2>2 DEF Copied
  <2>8. MessageInv'
    BY <1>1, <1>2, <2>1, NoMessageKeeps DEF Queued
  <2> QED
    BY <2>3, <2>4, <2>6, <2>7, <2>8 DEF IInv
<1>8. Report(t) => life[t] = "live"
  <2>1. Report(t) => ~isStopped(mApplicationState[t])
    BY <1>4, Parity DEF Report
  <2>2. life[t] # "deleting" \/ isStopped(mApplicationState[t])
    BY <1>0 DEF MessageInv, Existing
  <2> QED
    BY <1>0, <1>4, <2>1, <2>2 DEF TypeOK, Kinds
<1>9. CASE FireOneShot(t)
  <2>1. /\ mTaskState[t] = mApplicationState[t] /\ mTimerQueue' = Tail(mTimerQueue)
        /\ mTaskState' = [mTaskState EXCEPT ![t] = mTaskState[t] + 1]
        /\ mApplicationState' = [mApplicationState EXCEPT ![t] = mTaskState[t] + 1]
        /\ mQueuedExpiresAt' = mQueuedExpiresAt /\ life[t] = "live"
        /\ task' = [step |-> "signal", timer |-> t] /\ task'.step = "signal" /\ task'.timer = t
    BY <1>8, <1>9 DEF FireOneShot, Report
  <2>2. /\ mTaskState' \in [Timers -> Nat] /\ mApplicationState' \in [Timers -> Nat]
        /\ \A u \in Timers :
             /\ mTaskState'[u] = IF u = t THEN mTaskState[t] + 1 ELSE mTaskState[u]
             /\ mApplicationState'[u] = IF u = t THEN mTaskState[t] + 1 ELSE mApplicationState[u]
    BY <1>0, <1>4, <2>1 DEF TypeOK
  <2>3. TypeOK'
    BY <1>0, <1>1, <1>2, <2>1, <2>2 DEF TypeOK, TaskSteps
  <2>4. QueueMatchesTaskState' /\ QueueSorted'
    <3>1. QueueMatchesTaskState'
      BY <1>2, <1>3, <1>4, <1>5, <2>1, <2>2 DEF QueueMatchesTaskState, Queued
    <3>2. DOMAIN mTimerQueue' = 1..Len(mTimerQueue')
      BY <1>2, <2>1
    <3>3. QueueSorted'
      BY <1>2, <2>1, <3>2 DEF QueueSorted, Sorted
    <3> QED
      BY <3>1, <3>3
  <2>5. ApplicationStateLeads'
    <3>1. mTaskState[t] + 1 >= mTaskState[t] + 1
      BY <1>4
    <3> QED
      BY <1>0, <2>1, <2>2, <3>1 DEF ApplicationStateLeads
  <2>6. NoLostUpdate'
    BY <1>0, <1>1, <2>1, <2>2, <2>5 DEF NoLostUpdate
  <2>7. Copied'
    BY <1>0, <1>1, <1>4, <2>1, <2>2 DEF Copied
  <2>8. MessageInv'
    BY <1>1, <1>2, <2>1, <2>2, NoMessageKeeps DEF Queued
  <2> QED
    BY <2>3, <2>4, <2>6, <2>7, <2>8 DEF IInv
<1>10. CASE FirePeriodic(t)
  <2> DEFINE next == mQueuedExpiresAt[t] + Period
  <2>1. /\ mTaskState[t] = mApplicationState[t]
        /\ mTimerQueue' = InsertTimer(Tail(mTimerQueue), t, next)
        /\ mQueuedExpiresAt' = [mQueuedExpiresAt EXCEPT ![t] = next]
        /\ mTaskState' = mTaskState /\ mApplicationState' = mApplicationState
        /\ life[t] = "live" /\ next \in Nat
        /\ task' = [step |-> "signal", timer |-> t] /\ task'.step = "signal" /\ task'.timer = t
    BY <1>1, <1>8, <1>10, TimerAssumption DEF FirePeriodic, Report
  <2> HIDE DEF next
  <2>2. /\ mTimerQueue' \in Seq(Timers) /\ ToSet(mTimerQueue') = ToSet(Tail(mTimerQueue)) \cup {t}
        /\ IsInjective(mTimerQueue') /\ Sorted(mTimerQueue', [mQueuedExpiresAt EXCEPT ![t] = next])
    <3>1. PICK s \in Seq(Timers) : s = Tail(mTimerQueue)
      BY <1>2
    <3>2. t \notin ToSet(s) /\ IsInjective(s) /\ Sorted(s, mQueuedExpiresAt)
      BY <1>2, <1>3, <3>1
    <3>3. mTimerQueue' = InsertTimer(s, t, next) /\ next \in Nat /\ mQueuedExpiresAt \in [Timers -> Nat]
      BY <1>1, <2>1, <3>1
    <3>4. /\ mTimerQueue' \in Seq(Timers) /\ ToSet(mTimerQueue') = ToSet(s) \cup {t}
          /\ IsInjective(mTimerQueue') /\ Sorted(mTimerQueue', [mQueuedExpiresAt EXCEPT ![t] = next])
      BY <3>2, <3>3, InsertTimerKeeps
    <3> QED
      BY <3>1, <3>4
  <2>3. Sorted(mTimerQueue', mQueuedExpiresAt') /\ ToSet(mTimerQueue') = ToSet(mTimerQueue)
    BY <1>2, <1>3, <2>1, <2>2
  <2>4. TypeOK'
    <3>1. mQueuedExpiresAt' \in [Timers -> Nat]
      BY <1>1, <2>1
    <3> QED
      BY <1>0, <1>1, <2>1, <2>2, <3>1 DEF TypeOK, TaskSteps
  <2>5. QueueMatchesTaskState' /\ QueueSorted'
    <3>1. QueueMatchesTaskState'
      BY <1>5, <2>1, <2>2, <2>3 DEF QueueMatchesTaskState, Queued
    <3>2. DOMAIN mTimerQueue' = 1..Len(mTimerQueue')
      BY <2>2
    <3>3. QueueSorted'
      BY <2>3, <3>2 DEF QueueSorted, Sorted
    <3> QED
      BY <3>1, <3>3
  <2>6. NoLostUpdate'
    BY <1>0, <1>1, <2>1 DEF NoLostUpdate, ApplicationStateLeads
  <2>7. Copied'
    BY <1>0, <1>1, <2>1 DEF Copied
  <2>8. MessageInv'
    BY <1>1, <2>1, <2>3, NoMessageKeeps DEF Queued
  <2> QED
    BY <2>4, <2>5, <2>6, <2>7, <2>8 DEF IInv
<1> QED
  BY <1>6, <1>7, <1>9, <1>10

-----------------------------------------------------------------------------
(* The theorems.                                                            *)

LEMMA Initially ==
  ASSUME Init
  PROVE  IInv
<1>1. TypeOK
  <2>1. NoCall \in Calls
    BY DEF Calls
  <2> QED
    BY <2>1 DEF Init, TypeOK, Kinds, TaskSteps
<1>2. /\ mIncomingQ = <<>> /\ mTimerQueue = <<>> /\ task.step = "loop" /\ now = 0 /\ clock = 0
      /\ \A a \in Threads : call[a] = NoCall /\ call[a].step = "none"
      /\ \A t \in Timers : /\ mApplicationState[t] = 0 /\ mTaskState[t] = 0
                           /\ mOutstandingMessages[t] = 0 /\ life[t] = "freed"
  BY DEF Init, Loop, NoCall
<1>3. DOMAIN mIncomingQ = {} /\ DOMAIN mTimerQueue = {} /\ Queued = {}
  BY <1>2 DEF Queued, ToSet
<1>4. Counted
  <2> SUFFICES ASSUME NEW t \in Timers
               PROVE  mOutstandingMessages[t] = Cardinality(InQueue(t)) + Cardinality(Posting(t))
    BY DEF Counted
  <2>1. InQueue(t) = {} /\ Posting(t) = {}
    BY <1>2, <1>3 DEF InQueue, Posting
  <2>2. Cardinality(InQueue(t)) = 0 /\ Cardinality(Posting(t)) = 0
    BY <2>1, FS_EmptySet
  <2> QED
    BY <1>2, <2>2
<1>5. CallsOrdered /\ DeleterAlone /\ AnswersAwaited /\ LastIsLast
  BY <1>2, <1>3 DEF CallsOrdered, DeleterAlone, Deletes, AnswersAwaited, LastIsLast
<1>6. Existing
  BY <1>2, <1>3 DEF Existing, Unheard, NoCallOn
<1>7. QueueMatchesTaskState
  BY <1>2, <1>3, ZeroIsStopped DEF QueueMatchesTaskState, IsInjective
<1>8. QueueSorted /\ NoLostUpdate
  BY <1>2, <1>3 DEF QueueSorted, NoLostUpdate, ApplicationStateLeads
<1>9. Copied
  BY <1>2, ZeroIsStopped DEF Copied
<1> QED
  BY <1>1, <1>4, <1>5, <1>6, <1>7, <1>8, <1>9 DEF IInv, MessageInv

LEMMA StepKeeps ==
  ASSUME NoStoppedDestructor, IInv, [Next]_vars
  PROVE  IInv'
<1>1. CASE Next
  <2>1. ASSUME NEW t \in Timers, Construct(t) PROVE IInv'
    BY <2>1, ConstructKeeps
  <2>2. ASSUME NEW a \in Threads, NEW t \in Timers,
               StartTimer(a, t) \/ StopTimer(a, t) \/ Destroy(a, t) \/ DeleteAsync(a, t)
        PROVE  IInv'
    BY <2>2, StartKeeps, StopKeeps, DestroyKeeps, DeleteAsyncKeeps
  <2>3. ASSUME NEW a \in Threads, PostMessage(a) \/ Awake(a) PROVE IInv'
    BY <2>3, PostKeeps, AwakeKeeps
  <2>4. CASE TimerTask
    BY <2>4, ReceiveKeeps, ApplyKeeps, ReceiveTimeoutKeeps, FireKeeps, SignalReturnsKeeps
       DEF TimerTask
  <2>5. CASE Tick
    BY <2>5, TickKeeps
  <2> QED
    BY <1>1, <2>1, <2>2, <2>3, <2>4, <2>5 DEF Next, Application
<1>2. CASE UNCHANGED vars
  <2>1. UNCHANGED <<life, mApplicationState, mTaskState, mOutstandingMessages, mWasFired,
                    mExpiresAt, mPeriodic, mQueuedExpiresAt, mQueuedPeriodic,
                    mIncomingQ, mTimerQueue, task, now, call, clock>>
    BY <1>2 DEF vars, timerVars, taskVars
  <2>2. MessageInv'
    BY <2>1, NoMessageKeeps DEF Queued
  <2>3. TypeOK'
    BY <2>1 DEF IInv, TypeOK
  <2>4. QueueMatchesTaskState' /\ QueueSorted' /\ NoLostUpdate' /\ Copied'
    BY <2>1 DEF IInv, QueueMatchesTaskState, Queued, QueueSorted,
                NoLostUpdate, ApplicationStateLeads, Copied
  <2> QED
    BY <2>2, <2>3, <2>4 DEF IInv
<1> QED
  BY <1>1, <1>2

\* The inductive invariant holds in every reachable state of the timers.
THEOREM Inductive == ASSUME NoStoppedDestructor PROVE Spec => []IInv
<1>1. Init => IInv
  BY Initially
<1>2. IInv /\ [Next]_vars => IInv'
  BY StepKeeps
<1> QED
  BY <1>1, <1>2, PTL DEF Spec

\* The state counters and the counts of outstanding messages stay natural
\* numbers, and the task knows what it is doing.
THEOREM TypeCorrect == ASSUME NoStoppedDestructor PROVE Spec => []TypeOK
<1>1. IInv => TypeOK
  BY DEF IInv
<1> QED
  BY <1>1, Inductive, PTL

\* removeTimer() always finds the timer it looks for and insertTimer() never
\* links one twice: the parity of mTaskState says which timers are in the queue.
THEOREM ParityTellsTheQueue == ASSUME NoStoppedDestructor PROVE Spec => []QueueMatchesTaskState
<1>1. IInv => QueueMatchesTaskState
  BY DEF IInv
<1> QED
  BY <1>1, Inductive, PTL

\* The head of the queue is the first timer to expire.
THEOREM HeadExpiresFirst == ASSUME NoStoppedDestructor PROVE Spec => []QueueSorted
<1>1. IInv => QueueSorted
  BY DEF IInv
<1> QED
  BY <1>1, Inductive, PTL

\* mApplicationState is never behind mTaskState, and while it is ahead the task
\* will hear of it, though most starts and stops send no message.
THEOREM UpdatesReachTheTask == ASSUME NoStoppedDestructor PROVE Spec => []NoLostUpdate
<1>1. IInv => NoLostUpdate
  BY DEF IInv
<1> QED
  BY <1>1, Inductive, PTL

\* handleMessage() deletes a timer on its last message, and nobody refers to a
\* timer that is gone: no message, no call, neither the task nor its queue.
THEOREM NobodyRefersToTheDead == ASSUME NoStoppedDestructor PROVE Spec => []NoDanglingTimer
<1>1. IInv => NoDanglingTimer
  <2> SUFFICES ASSUME IInv PROVE NoDanglingTimer
    OBVIOUS
  <2>0. TypeOK /\ MessageInv
    BY DEF IInv
  <2>1. DeleteIsLast
    <3> SUFFICES ASSUME task.step = "apply", task.msg.type = "UPDATE_DELETE"
                 PROVE  /\ life[task.msg.timer] = "deleting"
                        /\ isStopped(mApplicationState[task.msg.timer])
                        /\ mOutstandingMessages[task.msg.timer] = 0
      BY DEF DeleteIsLast
    <3>1. PICK t \in Timers : t = task.msg.timer
      BY <2>0, Facts DEF Messages
    <3>2. life[t] = "deleting" /\ Unheard(t)
      BY <2>0, <3>1 DEF MessageInv, LastIsLast, IsLast
    <3>3. isStopped(mApplicationState[t])
      BY <2>0, <3>2 DEF MessageInv, Existing
    <3>4. mOutstandingMessages[t] = 0
      BY <2>0, <3>2, UnheardIsZero DEF MessageInv
    <3> QED
      BY <3>1, <3>2, <3>3, <3>4
  <2>2. \A t \in Timers : life[t] = "freed" => Unheard(t) /\ NoCallOn(t) /\ t \notin Queued
    BY <2>0 DEF MessageInv, Existing
  <2>3. \A t \in Queued : t \in Timers
    BY <2>0 DEF TypeOK, Queued, ToSet
  <2>4. /\ \A i \in DOMAIN mIncomingQ : mIncomingQ[i].timer \in Timers
        /\ \A a \in Threads : call[a] # NoCall => call[a].timer \in Timers
    BY <2>0, Facts DEF Messages, CallRecords
  <2>5. /\ task.step = "apply" => life[task.msg.timer] # "freed"
        /\ task.step = "signal" => life[task.timer] # "freed"
    BY <2>0 DEF MessageInv, Existing
  <2> QED
    BY <2>1, <2>2, <2>3, <2>4, <2>5 DEF NoDanglingTimer, Unheard, NoCallOn
<1> QED
  BY <1>1, Inductive, PTL

-----------------------------------------------------------------------------
(* The timers implement TimerService.                                       *)

\* A step that makes one timer something else for the application, and one that
\* changes nothing it can see.
LEMMA TimerBecomes ==
  ASSUME NEW t \in Timers, NEW s, NEW d,
         abstractState'[t] = s, abstractDue'[t] = d,
         \A u \in Timers : u # t =>
           abstractState'[u] = abstractState[u] /\ abstractDue'[u] = abstractDue[u]
  PROVE  Service!Become(t, s, d)
<1>1. abstractState' = [abstractState EXCEPT ![t] = s]
  BY DEF abstractState
<1>2. abstractDue' = [abstractDue EXCEPT ![t] = d]
  BY DEF abstractDue
<1> QED
  BY <1>1, <1>2 DEF Service!Become

LEMMA TimersStay ==
  ASSUME \A u \in Timers : abstractState'[u] = abstractState[u] /\ abstractDue'[u] = abstractDue[u]
  PROVE  abstractState' = abstractState /\ abstractDue' = abstractDue
<1>1. abstractState' = abstractState
  BY DEF abstractState
<1>2. abstractDue' = abstractDue
  BY DEF abstractDue
<1> QED
  BY <1>1, <1>2

\* What the application sees of a timer.
LEMMA Seen ==
  ASSUME NEW t \in Timers
  PROVE  /\ life[t] # "live" => abstractState[t] = "none" /\ abstractDue[t] = 0
         /\ life[t] = "live" /\ isStopped(mApplicationState[t]) =>
              abstractState[t] = "stopped" /\ abstractDue[t] = 0
         /\ life[t] = "live" /\ ~isStopped(mApplicationState[t]) =>
              /\ abstractState[t] = IF mPeriodic[t] THEN "periodic" ELSE "oneshot"
              /\ abstractDue[t] = IF mTaskState[t] = mApplicationState[t]
                                  THEN mQueuedExpiresAt[t] ELSE mExpiresAt[t]
BY DEF abstractState, abstractDue, Exists

LEMMA SeenNext ==
  ASSUME NEW t \in Timers
  PROVE  /\ life'[t] # "live" => abstractState'[t] = "none" /\ abstractDue'[t] = 0
         /\ life'[t] = "live" /\ isStopped(mApplicationState'[t]) =>
              abstractState'[t] = "stopped" /\ abstractDue'[t] = 0
         /\ life'[t] = "live" /\ ~isStopped(mApplicationState'[t]) =>
              /\ abstractState'[t] = IF mPeriodic'[t] THEN "periodic" ELSE "oneshot"
              /\ abstractDue'[t] = IF mTaskState'[t] = mApplicationState'[t]
                                   THEN mQueuedExpiresAt'[t] ELSE mExpiresAt'[t]
BY DEF abstractState, abstractDue, Exists, isStopped

LEMMA SeenSame ==
  ASSUME NEW t \in Timers, life'[t] = life[t],
         mApplicationState'[t] = mApplicationState[t], mTaskState'[t] = mTaskState[t],
         mExpiresAt'[t] = mExpiresAt[t], mPeriodic'[t] = mPeriodic[t],
         mQueuedExpiresAt'[t] = mQueuedExpiresAt[t]
  PROVE  abstractState'[t] = abstractState[t] /\ abstractDue'[t] = abstractDue[t]
BY DEF abstractState, abstractDue, Exists, isStopped

\* Nobody enters a timer whose event routine executes.
LEMMA EnterNotRunning ==
  ASSUME NEW a, NEW t \in Timers, Enter(a, t)
  PROVE  abstractRunning # t /\ life[t] = "live"
BY TimerAssumption DEF Enter, Locked, abstractRunning

LEMMA ConstructImplements ==
  ASSUME IInv, NEW t \in Timers, Construct(t)
  PROVE  Service!Create(t)
<1>0. TypeOK /\ MessageInv
  BY DEF IInv
<1>1. /\ life[t] = "freed" /\ task' = task /\ clock' = clock
      /\ life'[t] = "live" /\ mApplicationState'[t] = 0
      /\ \A u \in Timers : u # t =>
           /\ life'[u] = life[u] /\ mApplicationState'[u] = mApplicationState[u]
           /\ mTaskState'[u] = mTaskState[u] /\ mExpiresAt'[u] = mExpiresAt[u]
           /\ mPeriodic'[u] = mPeriodic[u] /\ mQueuedExpiresAt'[u] = mQueuedExpiresAt[u]
  BY <1>0 DEF Construct, TypeOK, taskVars
<1>2. abstractState[t] = "none" /\ abstractState'[t] = "stopped" /\ abstractDue'[t] = 0
  BY <1>1, Seen, SeenNext, ZeroIsStopped
<1>3. abstractRunning # t
  BY <1>0, <1>1, TimerAssumption DEF MessageInv, Existing, abstractRunning
<1>4. Service!Become(t, "stopped", 0)
  BY <1>1, <1>2, SeenSame, TimerBecomes
<1>5. abstractRunning' = abstractRunning
  BY <1>1 DEF abstractRunning
<1> QED
  BY <1>1, <1>2, <1>3, <1>4, <1>5 DEF Service!Create

LEMMA StartImplements ==
  ASSUME IInv, NEW a \in Threads, NEW t \in Timers, StartTimer(a, t)
  PROVE  Service!Start(t)
<1>0. TypeOK /\ ApplicationStateLeads
  BY DEF IInv, NoLostUpdate
<1>1. PICK start \in 0..MaxClock, periodic \in BOOLEAN :
        /\ mExpiresAt' = [mExpiresAt EXCEPT ![t] = start]
        /\ mPeriodic' = [mPeriodic EXCEPT ![t] = periodic]
  BY DEF StartTimer
<1>2. /\ Enter(a, t) /\ isStopped(mApplicationState[t])
      /\ task' = task /\ clock' = clock /\ life' = life /\ mTaskState' = mTaskState
      /\ mQueuedExpiresAt' = mQueuedExpiresAt
      /\ mApplicationState' = [mApplicationState EXCEPT ![t] = @ + 1]
  BY DEF StartTimer, Advance, taskVars
<1>3. /\ mExpiresAt'[t] = start /\ (mPeriodic'[t] <=> periodic)
      /\ mApplicationState'[t] = mApplicationState[t] + 1
      /\ mApplicationState[t] \in Nat /\ mTaskState[t] \in Nat
      /\ \A u \in Timers : u # t =>
           /\ mApplicationState'[u] = mApplicationState[u]
           /\ mExpiresAt'[u] = mExpiresAt[u] /\ mPeriodic'[u] = mPeriodic[u]
  BY <1>0, <1>1, <1>2 DEF TypeOK
<1>4. ~isStopped(mApplicationState'[t]) /\ mTaskState'[t] # mApplicationState'[t]
  <2>1. mApplicationState[t] >= mTaskState[t]
    BY <1>0 DEF ApplicationStateLeads
  <2>2. mTaskState[t] # mApplicationState[t] + 1
    BY <1>3, <2>1
  <2> QED
    BY <1>2, <1>3, <2>2, Parity
<1>5. abstractRunning # t /\ life[t] = "live"
  BY <1>2, EnterNotRunning
<1>6. abstractState[t] = "stopped"
  BY <1>2, <1>5, Seen
<1>7. \E kind \in {"oneshot", "periodic"} : abstractState'[t] = kind
  BY <1>2, <1>4, <1>5, SeenNext
<1>8. abstractDue'[t] = start
  BY <1>2, <1>3, <1>4, <1>5, SeenNext
<1>9. PICK kind \in {"oneshot", "periodic"} : Service!Become(t, kind, start)
  BY <1>2, <1>3, <1>7, <1>8, SeenSame, TimerBecomes
<1>10. abstractRunning' = abstractRunning
  BY <1>2 DEF abstractRunning
<1> QED
  BY <1>1, <1>2, <1>5, <1>6, <1>9, <1>10 DEF Service!Start

LEMMA StopImplements ==
  ASSUME IInv, NEW a \in Threads, NEW t \in Timers, StopTimer(a, t)
  PROVE  Service!Stop(t)
<1>0. TypeOK
  BY DEF IInv
<1>1. /\ Enter(a, t) /\ isStarted(mApplicationState[t])
      /\ task' = task /\ clock' = clock /\ life' = life /\ mTaskState' = mTaskState
      /\ mQueuedExpiresAt' = mQueuedExpiresAt /\ mExpiresAt' = mExpiresAt /\ mPeriodic' = mPeriodic
      /\ mApplicationState' = [mApplicationState EXCEPT ![t] = @ + 1]
  BY DEF StopTimer, Advance, taskVars
<1>2. /\ mApplicationState'[t] = mApplicationState[t] + 1 /\ mApplicationState[t] \in Nat
      /\ \A u \in Timers : u # t => mApplicationState'[u] = mApplicationState[u]
  BY <1>0, <1>1 DEF TypeOK
<1>3. isStopped(mApplicationState'[t]) /\ ~isStopped(mApplicationState[t])
  BY <1>1, <1>2, Parity
<1>4. abstractRunning # t /\ life[t] = "live"
  BY <1>1, EnterNotRunning
<1>5. abstractState[t] \in {"oneshot", "periodic"}
  BY <1>3, <1>4, Seen
<1>6. abstractState'[t] = "stopped" /\ abstractDue'[t] = 0
  BY <1>1, <1>3, <1>4, SeenNext
<1>7. Service!Become(t, "stopped", 0)
  BY <1>1, <1>2, <1>6, SeenSame, TimerBecomes
<1>8. abstractRunning' = abstractRunning
  BY <1>1 DEF abstractRunning
<1> QED
  BY <1>1, <1>4, <1>5, <1>7, <1>8 DEF Service!Stop

LEMMA DeletionImplements ==
  ASSUME IInv, NEW a \in Threads, NEW t \in Timers, EnterAlone(a, t), StopIfStarted(t),
         life' = [life EXCEPT ![t] = "deleting"],
         UNCHANGED <<mTaskState, mWasFired, mExpiresAt, mPeriodic,
                     mQueuedExpiresAt, mQueuedPeriodic, taskVars, clock>>
  PROVE  Service!Delete(t)
<1>0. TypeOK
  BY DEF IInv
<1>1. /\ task' = task /\ clock' = clock /\ mTaskState' = mTaskState
      /\ mQueuedExpiresAt' = mQueuedExpiresAt /\ mExpiresAt' = mExpiresAt /\ mPeriodic' = mPeriodic
      /\ life'[t] = "deleting"
      /\ \A u \in Timers : u # t =>
           life'[u] = life[u] /\ mApplicationState'[u] = mApplicationState[u]
  BY <1>0 DEF StopIfStarted, Advance, TypeOK, taskVars
<1>2. abstractRunning # t /\ life[t] = "live"
  BY EnterNotRunning DEF EnterAlone
<1>3. abstractState[t] # "none"
  BY <1>2, Seen
<1>4. abstractState'[t] = "none" /\ abstractDue'[t] = 0
  BY <1>1, SeenNext
<1>5. Service!Become(t, "none", 0)
  BY <1>1, <1>4, SeenSame, TimerBecomes
<1>6. abstractRunning' = abstractRunning
  BY <1>1 DEF abstractRunning
<1> QED
  BY <1>1, <1>2, <1>3, <1>5, <1>6 DEF Service!Delete

\* What the application does not see.
LEMMA PostIsHidden ==
  ASSUME NEW a \in Threads, PostMessage(a)
  PROVE  UNCHANGED Service!vars
<1>1. UNCHANGED <<timerVars, task, clock>>
  BY DEF PostMessage
<1>2. abstractState' = abstractState /\ abstractDue' = abstractDue
  BY <1>1, SeenSame, TimersStay DEF timerVars
<1> QED
  BY <1>1, <1>2 DEF Service!vars, abstractRunning

LEMMA AwakeIsHidden ==
  ASSUME IInv, NEW a \in Threads, Awake(a)
  PROVE  UNCHANGED Service!vars
<1>0. TypeOK /\ MessageInv
  BY DEF IInv
<1>1. call[a] # NoCall /\ call[a] \in CallRecords
  BY <1>0, Facts DEF Awake
<1>2. PICK t \in Timers : t = call[a].timer
  BY <1>1 DEF CallRecords
<1>3. /\ task' = task /\ clock' = clock
      /\ UNCHANGED <<mApplicationState, mTaskState, mExpiresAt, mPeriodic, mQueuedExpiresAt>>
      /\ \A u \in Timers : life'[u] = IF u = t /\ call[a].deletes THEN "freed" ELSE life[u]
  BY <1>0, <1>2 DEF Awake, TypeOK, taskVars
<1>4. call[a].deletes => life[t] = "deleting"
  BY <1>0, <1>1, <1>2 DEF MessageInv, DeleterAlone, Deletes
<1>5. ASSUME NEW u \in Timers
      PROVE  abstractState'[u] = abstractState[u] /\ abstractDue'[u] = abstractDue[u]
  <2>1. CASE u = t /\ call[a].deletes
    BY <1>3, <1>4, <2>1, Seen, SeenNext
  <2>2. CASE ~(u = t /\ call[a].deletes)
    BY <1>3, <2>2, SeenSame
  <2> QED
    BY <2>1, <2>2
<1>6. abstractState' = abstractState /\ abstractDue' = abstractDue
  BY <1>5, TimersStay
<1> QED
  BY <1>3, <1>6 DEF Service!vars, abstractRunning

LEMMA ReceiveIsHidden ==
  ASSUME ReceiveMessage
  PROVE  UNCHANGED Service!vars
<1>1. /\ UNCHANGED <<life, mApplicationState, mTaskState, mExpiresAt, mPeriodic, mQueuedExpiresAt, clock>>
      /\ task.step = "loop" /\ task'.step = "apply"
  BY DEF ReceiveMessage, Loop
<1>2. abstractState' = abstractState /\ abstractDue' = abstractDue
  BY <1>1, SeenSame, TimersStay
<1>3. abstractRunning' = abstractRunning
  BY <1>1 DEF abstractRunning
<1> QED
  BY <1>1, <1>2, <1>3 DEF Service!vars

\* The time at which the task takes a timer over is the one the application set.
LEMMA ApplyIsHidden ==
  ASSUME IInv, ApplyUpdate
  PROVE  UNCHANGED Service!vars
<1>0. TypeOK /\ MessageInv /\ ApplicationStateLeads /\ Copied
  BY DEF IInv, NoLostUpdate
<1>1. task.step = "apply" /\ task.msg \in Messages /\ task.applicationState \in Nat
  BY <1>0, Facts DEF ApplyUpdate
<1>2. PICK t \in Timers : t = task.msg.timer
  BY <1>1 DEF Messages
<1> DEFINE applied == task.applicationState
<1>3. /\ \A u \in Timers :
           /\ mTaskState'[u] = IF u = t THEN applied ELSE mTaskState[u]
           /\ mQueuedExpiresAt'[u] = IF u = t /\ applied # mTaskState[t] /\ isStarted(applied)
                                     THEN task.expiresAt ELSE mQueuedExpiresAt[u]
           /\ life'[u] = IF u = t /\ task.msg.type = "UPDATE_DELETE" THEN "freed" ELSE life[u]
      /\ mApplicationState' = mApplicationState /\ mExpiresAt' = mExpiresAt
      /\ mPeriodic' = mPeriodic /\ clock' = clock /\ task'.step = "loop"
  BY <1>0, <1>2 DEF ApplyUpdate, Loop, TypeOK
<1>4. task.msg.type = "UPDATE_DELETE" => life[t] = "deleting"
  BY <1>0, <1>1, <1>2 DEF MessageInv, LastIsLast, IsLast
<1>5. ASSUME NEW u \in Timers
      PROVE  abstractState'[u] = abstractState[u] /\ abstractDue'[u] = abstractDue[u]
  <2>1. CASE u # t
    BY <1>3, <2>1, SeenSame
  <2>2. CASE u = t /\ life[t] # "live"
    <3>1. life'[t] # "live"
      BY <1>3, <2>2
    <3> QED
      BY <2>2, <3>1, Seen, SeenNext
  <2>3. CASE u = t /\ life[t] = "live" /\ isStopped(mApplicationState[t])
    <3>1. life'[t] = "live" /\ mApplicationState'[t] = mApplicationState[t]
      BY <1>3, <1>4, <2>3
    <3> QED
      BY <2>3, <3>1, Seen, SeenNext
  <2>4. CASE u = t /\ life[t] = "live" /\ ~isStopped(mApplicationState[t])
    <3>1. /\ life'[t] = "live" /\ mApplicationState'[t] = mApplicationState[t]
          /\ mPeriodic'[t] = mPeriodic[t] /\ mExpiresAt'[t] = mExpiresAt[t]
      BY <1>3, <1>4, <2>4
    <3>2. abstractState'[t] = abstractState[t]
      BY <2>4, <3>1, Seen, SeenNext
    <3>3. /\ abstractDue[t] = IF mTaskState[t] = mApplicationState[t]
                              THEN mQueuedExpiresAt[t] ELSE mExpiresAt[t]
          /\ abstractDue'[t] = IF applied = mApplicationState[t]
                               THEN mQueuedExpiresAt'[t] ELSE mExpiresAt[t]
      BY <1>3, <2>4, <3>1, Seen, SeenNext
    <3>4. /\ applied >= mTaskState[t] /\ applied <= mApplicationState[t]
          /\ mApplicationState[t] \in Nat /\ mTaskState[t] \in Nat
      BY <1>0, <1>1, <1>2 DEF ApplicationStateLeads, TypeOK
    <3>5. CASE applied = mTaskState[t]
      BY <1>3, <2>4, <3>2, <3>3, <3>5
    <3>6. CASE applied # mTaskState[t]
      <4>1. abstractDue[t] = mExpiresAt[t]
        BY <1>1, <3>3, <3>4, <3>6
      <4>2. applied = mApplicationState[t] => mQueuedExpiresAt'[t] = mExpiresAt[t]
        <5> SUFFICES ASSUME applied = mApplicationState[t] PROVE mQueuedExpiresAt'[t] = mExpiresAt[t]
          OBVIOUS
        <5>1. isStarted(applied) /\ task.expiresAt = mExpiresAt[t]
          BY <1>0, <1>1, <1>2, <2>4, <3>4, Parity DEF Copied
        <5> QED
          BY <1>3, <3>6, <5>1
      <4> QED
        BY <2>4, <3>2, <3>3, <4>1, <4>2
    <3> QED
      BY <3>5, <3>6
  <2> QED
    BY <2>1, <2>2, <2>3, <2>4
<1>6. abstractState' = abstractState /\ abstractDue' = abstractDue
  BY <1>5, TimersStay
<1>7. abstractRunning' = abstractRunning
  BY <1>1, <1>3 DEF abstractRunning
<1> QED
  BY <1>3, <1>6, <1>7 DEF Service!vars

\* A firing is either hidden, for a timer that the application has stopped, or
\* one that the application expects.
LEMMA FireImplements ==
  ASSUME IInv, FireTimer
  PROVE  (\E t \in Timers : Service!Fire(t)) \/ UNCHANGED Service!vars
<1>0. /\ TypeOK /\ MessageInv /\ ApplicationStateLeads /\ Copied /\ QueueMatchesTaskState
  BY DEF IInv, NoLostUpdate
<1>1. /\ task.step = "loop" /\ Due(now) /\ mTimerQueue # <<>> /\ mTimerQueue \in Seq(Timers)
      /\ UNCHANGED <<life, mExpiresAt, mPeriodic, mQueuedPeriodic, clock>>
  BY <1>0 DEF FireTimer, Due, Loop, TypeOK
<1>2. PICK t \in Timers : t = Head(mTimerQueue)
  BY <1>1
<1>3. t \in Queued
  <2>1. 1 \in 1..Len(mTimerQueue) /\ mTimerQueue[1] = t
    BY <1>1, <1>2
  <2> QED
    BY <1>1, <2>1, QueueElements DEF Queued
<1>4. /\ isStarted(mTaskState[t]) /\ life[t] # "freed"
      /\ mTaskState[t] \in Nat /\ mApplicationState[t] \in Nat /\ mQueuedExpiresAt[t] \in Nat
  BY <1>0, <1>3 DEF QueueMatchesTaskState, MessageInv, Existing, TypeOK
<1>5. abstractRunning = NoTimer
  BY <1>1 DEF abstractRunning
<1>6. FireStopped(t) \/ FireOneShot(t) \/ FirePeriodic(t)
  BY <1>2 DEF FireTimer
<1>7. CASE FireStopped(t)
  <2>1. /\ mTaskState[t] # mApplicationState[t]
        /\ \A u \in Timers : mTaskState'[u] = IF u = t THEN mTaskState[t] + 1 ELSE mTaskState[u]
        /\ UNCHANGED <<mApplicationState, mQueuedExpiresAt, task>>
    BY <1>0, <1>7 DEF FireStopped, Report, TypeOK
  <2>2. mTaskState'[t] = mApplicationState[t] => isStopped(mApplicationState[t])
    BY <1>4, <2>1, Parity
  <2>3. ASSUME NEW u \in Timers
        PROVE  abstractState'[u] = abstractState[u] /\ abstractDue'[u] = abstractDue[u]
    <3>1. CASE u # t
      BY <1>1, <2>1, <3>1, SeenSame
    <3>2. CASE u = t
      BY <1>1, <2>1, <2>2, <3>2, Seen, SeenNext
    <3> QED
      BY <3>1, <3>2
  <2>4. abstractState' = abstractState /\ abstractDue' = abstractDue
    BY <2>3, TimersStay
  <2> QED
    BY <1>1, <2>1, <2>4 DEF Service!vars, abstractRunning
<1>8. CASE mTaskState[t] = mApplicationState[t]
           /\ (FireOneShot(t) \/ FirePeriodic(t))
  <2>1. ~isStopped(mApplicationState[t]) /\ life[t] = "live"
    <3>1. ~isStopped(mApplicationState[t])
      BY <1>4, <1>8, Parity
    <3> QED
      BY <1>0, <1>4, <3>1 DEF MessageInv, Existing, TypeOK, Kinds
  <2>2. /\ abstractState[t] = (IF mPeriodic[t] THEN "periodic" ELSE "oneshot")
        /\ abstractDue[t] = mQueuedExpiresAt[t]
        /\ mQueuedPeriodic[t] = mPeriodic[t]
    BY <1>0, <1>4, <1>8, <2>1, Seen DEF Copied
  <2>3. clock >= abstractDue[t]
    <3>1. mQueuedExpiresAt[t] <= now /\ now <= clock /\ now \in Nat /\ clock \in Nat
      BY <1>0, <1>1, <1>2 DEF Due, Copied, TypeOK
    <3> QED
      BY <1>4, <2>2, <3>1
  <2>4. task' = [step |-> "signal", timer |-> t]
    BY <1>8 DEF FireOneShot, FirePeriodic
  <2>5. abstractRunning' = t
    BY <2>4 DEF abstractRunning
  <2>6. CASE FireOneShot(t)
    <3>1. /\ ~mQueuedPeriodic[t] /\ mQueuedExpiresAt' = mQueuedExpiresAt
          /\ \A u \in Timers :
               /\ mTaskState'[u] = IF u = t THEN mTaskState[t] + 1 ELSE mTaskState[u]
               /\ mApplicationState'[u] = IF u = t THEN mTaskState[t] + 1 ELSE mApplicationState[u]
      BY <1>0, <2>6 DEF FireOneShot, TypeOK
    <3>2. abstractState[t] = "oneshot"
      BY <2>2, <3>1
    <3>3. isStopped(mApplicationState'[t])
      BY <1>4, <3>1, Parity
    <3>4. abstractState'[t] = "stopped" /\ abstractDue'[t] = 0
      BY <1>1, <2>1, <3>3, SeenNext
    <3>5. Service!Become(t, "stopped", 0)
      BY <1>1, <3>1, <3>4, SeenSame, TimerBecomes
    <3> QED
      BY <1>1, <1>5, <2>3, <2>5, <3>2, <3>5 DEF Service!Fire
  <2>7. CASE FirePeriodic(t)
    <3>1. /\ mQueuedPeriodic[t] /\ mTaskState' = mTaskState /\ mApplicationState' = mApplicationState
          /\ \A u \in Timers : mQueuedExpiresAt'[u] =
               IF u = t THEN mQueuedExpiresAt[t] + Period ELSE mQueuedExpiresAt[u]
      BY <1>0, <2>7 DEF FirePeriodic, TypeOK
    <3>2. abstractState[t] = "periodic"
      BY <2>2, <3>1
    <3>3. abstractState'[t] = "periodic" /\ abstractDue'[t] = abstractDue[t] + Period
      BY <1>1, <1>8, <2>1, <2>2, <3>1, SeenNext
    <3>4. Service!Become(t, "periodic", abstractDue[t] + Period)
      BY <1>1, <3>1, <3>3, SeenSame, TimerBecomes
    <3> QED
      BY <1>1, <1>5, <2>3, <2>5, <3>2, <3>4 DEF Service!Fire
  <2> QED
    BY <1>8, <2>6, <2>7
<1>9. FireOneShot(t) \/ FirePeriodic(t) => mTaskState[t] = mApplicationState[t]
  BY DEF FireOneShot, FirePeriodic, Report
<1> QED
  BY <1>6, <1>7, <1>8, <1>9

LEMMA SignalReturnsImplements ==
  ASSUME IInv, SignalReturns
  PROVE  Service!Return
<1>0. TypeOK
  BY DEF IInv
<1>1. /\ task.step = "signal" /\ task.timer \in Timers /\ task'.step = "loop"
      /\ UNCHANGED <<life, mApplicationState, mTaskState, mExpiresAt, mPeriodic, mQueuedExpiresAt, clock>>
  BY <1>0, Facts DEF SignalReturns, Loop
<1>2. abstractRunning # NoTimer /\ abstractRunning' = NoTimer
  BY <1>1, TimerAssumption DEF abstractRunning
<1>3. abstractState' = abstractState /\ abstractDue' = abstractDue
  BY <1>1, SeenSame, TimersStay
<1> QED
  BY <1>1, <1>2, <1>3 DEF Service!Return

\* The methods, the firings and the end of an event routine are TimerService's;
\* the messages between the threads and the task are hidden.
LEMMA StepImplements ==
  ASSUME NoStoppedDestructor, IInv, [Next]_vars
  PROVE  [Service!Next]_Service!vars
<1>1. ASSUME NEW t \in Timers, Construct(t) PROVE Service!Next
  BY <1>1, ConstructImplements DEF Service!Next
<1>2. ASSUME NEW a \in Threads, NEW t \in Timers, StartTimer(a, t) PROVE Service!Next
  BY <1>2, StartImplements DEF Service!Next
<1>3. ASSUME NEW a \in Threads, NEW t \in Timers, StopTimer(a, t) PROVE Service!Next
  BY <1>3, StopImplements DEF Service!Next
<1>4. ASSUME NEW a \in Threads, NEW t \in Timers, Destroy(a, t) PROVE Service!Next
  <2>1. Service!Delete(t)
    BY <1>4, DestroyNeedsTask, DeletionImplements DEF Destroy
  <2> QED
    BY <2>1 DEF Service!Next
<1>5. ASSUME NEW a \in Threads, NEW t \in Timers, DeleteAsync(a, t) PROVE Service!Next
  <2>1. Service!Delete(t)
    BY <1>5, DeletionImplements DEF DeleteAsync
  <2> QED
    BY <2>1 DEF Service!Next
<1>6. ASSUME NEW a \in Threads, PostMessage(a) \/ Awake(a) PROVE UNCHANGED Service!vars
  BY <1>6, PostIsHidden, AwakeIsHidden
<1>7. CASE ReceiveMessage \/ ApplyUpdate
  BY <1>7, ReceiveIsHidden, ApplyIsHidden
<1>8. CASE ReceiveTimeout \/ UNCHANGED vars
  <2>1. UNCHANGED <<life, mApplicationState, mTaskState, mExpiresAt, mPeriodic, mQueuedExpiresAt,
                    task, clock>>
    BY <1>8 DEF ReceiveTimeout, timerVars, taskVars, vars
  <2>2. abstractState' = abstractState /\ abstractDue' = abstractDue
    BY <2>1, SeenSame, TimersStay
  <2> QED
    BY <2>1, <2>2 DEF Service!vars, abstractRunning
<1>9. CASE FireTimer
  BY <1>9, FireImplements DEF Service!Next
<1>10. CASE SignalReturns
  BY <1>10, SignalReturnsImplements DEF Service!Next
<1>11. CASE Tick
  <2>1. /\ clock < MaxClock /\ clock' = clock + 1
        /\ UNCHANGED <<life, mApplicationState, mTaskState, mExpiresAt, mPeriodic, mQueuedExpiresAt, task>>
    BY <1>11 DEF Tick, timerVars, taskVars
  <2>2. abstractState' = abstractState /\ abstractDue' = abstractDue
    BY <2>1, SeenSame, TimersStay
  <2> QED
    BY <2>1, <2>2 DEF Service!Next, Service!Tick, abstractRunning
<1> QED
  BY <1>1, <1>2, <1>3, <1>4, <1>5, <1>6, <1>7, <1>8, <1>9, <1>10, <1>11
     DEF Next, Application, TimerTask

LEMMA InitImplements ==
  ASSUME Init
  PROVE  Service!Init
<1>1. \A t \in Timers : life[t] # "live"
  BY DEF Init
<1>2. abstractState = [t \in Timers |-> "none"] /\ abstractDue = [t \in Timers |-> 0]
  BY <1>1 DEF abstractState, abstractDue, Exists
<1>3. abstractRunning = NoTimer /\ clock = 0
  BY DEF Init, Loop, abstractRunning
<1> QED
  BY <1>2, <1>3 DEF Service!Init

\* The timer task and its messages do what OsTimer.h promises: no timer fires
\* early, twice for one start, after a successful stop() or deletion, or while
\* another event routine runs.
THEOREM TimersImplementService == ASSUME NoStoppedDestructor PROVE Spec => ImplementsTimerService
<1>1. Init => Service!Init
  BY InitImplements
<1>2. IInv /\ [Next]_vars => [Service!Next]_Service!vars
  BY StepImplements
<1> QED
  BY <1>1, <1>2, Inductive, PTL DEF Spec, ImplementsTimerService, Service!Spec
=============================================================================
