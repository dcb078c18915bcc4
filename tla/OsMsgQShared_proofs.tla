------------------------- MODULE OsMsgQShared_proofs -------------------------
(* The safety of the message queue, for any set of threads, any capacity    *)
(* and any number of messages, and that it implements MsgQueue.             *)
EXTENDS OsMsgQShared, FiniteSetTheorems, SequenceTheorems, TLAPS

Places == {"idle", "acquireEmpty", "insert", "acquireFull", "remove"}

\* The threads at a place, under a given program counter.
At(p, place) == {t \in Threads : p[t] = place}

NInsert == Cardinality(In("insert"))
NRemove == Cardinality(In("remove"))

\* The number of threads at a place is a number, and not 0 if one is there.
LEMMA CountType ==
  ASSUME NEW p, NEW place
  PROVE  /\ IsFiniteSet(At(p, place))
         /\ Cardinality(At(p, place)) \in Nat
         /\ \A t \in Threads : p[t] = place => Cardinality(At(p, place)) > 0
<1>1. At(p, place) \in SUBSET Threads
  BY DEF At
<1>2. IsFiniteSet(At(p, place))
  BY <1>1, MsgQAssumption, FS_Subset
<1>3. Cardinality(At(p, place)) \in Nat
  BY <1>2, FS_CardinalityType
<1>4. ASSUME NEW t \in Threads, p[t] = place
      PROVE  Cardinality(At(p, place)) > 0
  <2>1. t \in At(p, place)
    BY <1>4 DEF At
  <2>2. Cardinality(At(p, place)) # 0
    BY <2>1, <1>2, FS_EmptySet
  <2> QED
    BY <2>2, <1>3
<1> QED
  BY <1>2, <1>3, <1>4

Arrival(place, from, to) == IF place = to THEN 1 ELSE IF place = from THEN -1 ELSE 0

\* A thread that goes from one place to another changes the counts by one.
LEMMA CountMove ==
  ASSUME NEW p \in [Threads -> Places], NEW t \in Threads, NEW to \in Places,
         NEW place, p[t] # to
  PROVE  Cardinality(At([p EXCEPT ![t] = to], place))
           = Cardinality(At(p, place)) + Arrival(place, p[t], to)
<1> DEFINE q == [p EXCEPT ![t] = to]
<1>1. CASE place = to
  <2>1. At(q, place) = At(p, place) \cup {t} /\ t \notin At(p, place)
    BY <1>1 DEF At
  <2>2. Cardinality(At(p, place) \cup {t}) = Cardinality(At(p, place)) + 1
    BY <2>1, CountType, FS_AddElement
  <2> QED
    BY <1>1, <2>1, <2>2 DEF Arrival
<1>2. CASE place # to /\ place = p[t]
  <2>1. At(q, place) = At(p, place) \ {t} /\ t \in At(p, place)
    BY <1>2 DEF At
  <2>2. Cardinality(At(p, place) \ {t}) = Cardinality(At(p, place)) - 1
    BY <2>1, CountType, FS_RemoveElement
  <2>3. Cardinality(At(p, place)) \in Nat
    BY CountType
  <2> QED
    BY <1>2, <2>1, <2>2, <2>3 DEF Arrival
<1>3. CASE place # to /\ place # p[t]
  <2>1. At(q, place) = At(p, place)
    BY <1>3 DEF At
  <2>2. Cardinality(At(p, place)) \in Nat
    BY CountType
  <2> QED
    BY <1>3, <2>1, <2>2 DEF Arrival
<1> QED
  BY <1>1, <1>2, <1>3

\* The two counts that SlotsAccounted speaks of, before and after a move.
LEMMA CountsMove ==
  ASSUME pc \in [Threads -> Places], NEW t \in Threads, NEW to \in Places,
         pc[t] # to, Goto(t, to)
  PROVE  /\ pc' \in [Threads -> Places]
         /\ NInsert' = NInsert + Arrival("insert", pc[t], to)
         /\ NRemove' = NRemove + Arrival("remove", pc[t], to)
<1>1. pc' = [pc EXCEPT ![t] = to]
  BY DEF Goto
<1>2. \A place : Cardinality(At(pc', place))
                   = Cardinality(At(pc, place)) + Arrival(place, pc[t], to)
  BY <1>1, CountMove
<1>3. /\ NInsert = Cardinality(At(pc, "insert"))
      /\ NRemove = Cardinality(At(pc, "remove"))
      /\ NInsert' = Cardinality(At(pc', "insert"))
      /\ NRemove' = Cardinality(At(pc', "remove"))
  BY DEF NInsert, NRemove, In, At
<1>4. pc' \in [Threads -> Places]
  BY <1>1
<1> QED
  BY <1>2, <1>3, <1>4

LEMMA CountsType ==
  /\ NInsert \in Nat /\ NRemove \in Nat
  /\ \A t \in Threads : /\ pc[t] = "insert" => NInsert > 0
                        /\ pc[t] = "remove" => NRemove > 0
<1>1. NInsert = Cardinality(At(pc, "insert")) /\ NRemove = Cardinality(At(pc, "remove"))
  BY DEF NInsert, NRemove, In, At
<1> QED
  BY <1>1, CountType

-----------------------------------------------------------------------------
(* The inductive invariant.                                                *)

\* All the messages there ever were in the queue, and the threads that carry one.
Line == delivered \o mDlist
Busy == {t \in Threads : pc[t] \in {"acquireEmpty", "insert"}}

\* SenderOrderKept, of any line of messages.
Ordered(line) ==
  \A i, j \in 1..Len(line) :
    i < j /\ line[i].from = line[j].from /\ ~line[i].urgent /\ ~line[j].urgent
      => line[i].num < line[j].num

\* No message has a number that its sender has not reached, nor the number of
\* the message its sender carries.
Below(line, n, busy) ==
  \A i \in 1..Len(line) :
    /\ line[i].num <= n[line[i].from]
    /\ line[i].from \in busy => line[i].num < n[line[i].from]

\* A thread that sends carries its latest message, which nobody else has.
CarriesLatest ==
  /\ \A t \in Busy : rMsg[t].from = t /\ rMsg[t].num = numSent[t]
  /\ Below(Line, numSent, Busy)

\* The calls that succeeded account for the messages in the queue, unless a
\* send hook took some.
CallsCounted == ~SendHook => Len(mDlist) = mNumInsertExitOk - mNumRemoveExitOk

IInv ==
  /\ TypeOK
  /\ SlotsAccounted
  /\ CallsCounted
  /\ CarriesLatest
  /\ SenderOrderKept

\* The accounting of the semaphores in numbers.
Numbers ==
  /\ mEmpty \in Nat /\ mFull \in Nat
  /\ Len(mDlist) \in Nat
  /\ mEmpty + NInsert + Len(mDlist) = mMaxMsgs
  /\ mFull + NRemove = Len(mDlist)

LEMMA NumbersOfIInv == IInv => Numbers
<1> SUFFICES ASSUME IInv PROVE Numbers
  OBVIOUS
<1>1. Len(mDlist) \in Nat
  BY LenProperties DEF IInv, TypeOK
<1> QED
  BY <1>1 DEF IInv, TypeOK, SlotsAccounted, Numbers, NInsert, NRemove

LEMMA InitIInv == Init => IInv
<1> SUFFICES ASSUME Init PROVE IInv
  OBVIOUS
<1>1. mDlist = <<>> /\ delivered = <<>>
  BY DEF Init
<1>2. mDlist \in Seq(Messages) /\ delivered \in Seq(Messages)
  BY <1>1, EmptySeq
<1>3. Len(mDlist) = 0 /\ Len(delivered \o mDlist) = 0
  BY <1>1, <1>2, EmptySeq, ConcatEmptySeq
<1>4. TypeOK
  BY <1>2, MsgQAssumption DEF Init, TypeOK
<1>5. In("insert") = {} /\ In("remove") = {}
  BY DEF Init, In
<1>6. SlotsAccounted
  <2>1. Cardinality(In("insert")) = 0 /\ Cardinality(In("remove")) = 0
    BY <1>5, FS_EmptySet
  <2> QED
    BY <1>3, <2>1, MsgQAssumption DEF Init, SlotsAccounted
<1>7. CarriesLatest /\ SenderOrderKept
  BY <1>3 DEF Init, CarriesLatest, SenderOrderKept, Below, Line, Busy
<1> QED
  BY <1>3, <1>4, <1>6, <1>7 DEF Init, IInv, CallsCounted

-----------------------------------------------------------------------------
(* The slots.                                                              *)

\* What an action that moves thread t does to the semaphores and to the list.
LEMMA SlotsStep ==
  ASSUME IInv, NEW t \in Threads, doSend(t) \/ doReceive(t)
  PROVE  /\ Numbers'
         /\ mDlist' \in Seq(Messages) /\ delivered' \in Seq(Messages)
         /\ CallsCounted'
<1> USE MsgQAssumption
<1>1. Numbers /\ NInsert \in Nat /\ NRemove \in Nat
  BY NumbersOfIInv, CountsType
<1>2. pc \in [Threads -> Places] /\ mDlist \in Seq(Messages)
      /\ delivered \in Seq(Messages)
      /\ mNumInsertExitOk \in Nat /\ mNumRemoveExitOk \in Nat /\ CallsCounted
  BY DEF IInv, TypeOK, Places
<1>3. ASSUME UNCHANGED <<mDlist, semaphores, mNumRemoveExitOk, delivered>>,
             UNCHANGED mNumInsertExitOk \/ SendHook,
             NEW to \in {"idle", "acquireEmpty", "acquireFull"},
             pc[t] \notin {"insert", "remove"},
             pc[t] # to => Goto(t, to), pc[t] = to => UNCHANGED pc
      PROVE  /\ Numbers' /\ mDlist' \in Seq(Messages) /\ delivered' \in Seq(Messages)
             /\ CallsCounted'
  <2>1. NInsert' = NInsert /\ NRemove' = NRemove
    <3>1. CASE pc[t] = to
      BY <1>3, <3>1 DEF NInsert, NRemove, In
    <3>2. CASE pc[t] # to
      <4>1. NInsert' = NInsert + Arrival("insert", pc[t], to)
            /\ NRemove' = NRemove + Arrival("remove", pc[t], to)
        BY <1>2, <1>3, <3>2, CountsMove DEF Places
      <4> QED
        BY <4>1, <1>1, <1>3 DEF Arrival
    <3> QED
      BY <3>1, <3>2
  <2> QED
    BY <1>1, <1>2, <1>3, <2>1 DEF Numbers, CallsCounted, semaphores
<1>4. ASSUME send(t) \/ receive(t) \/ sendTimesOut(t) \/ receiveTimesOut(t)
             \/ sendHandledByHook(t)
      PROVE  /\ Numbers' /\ mDlist' \in Seq(Messages) /\ delivered' \in Seq(Messages)
             /\ CallsCounted'
  <2>1. CASE send(t)
    BY <1>3, <2>1 DEF send, diagnostics
  <2>2. CASE receive(t)
    BY <1>3, <2>2 DEF receive, diagnostics
  <2>3. CASE sendTimesOut(t)
    BY <1>3, <2>3 DEF sendTimesOut, Return, diagnostics
  <2>4. CASE receiveTimesOut(t)
    BY <1>3, <2>4 DEF receiveTimesOut, Return, diagnostics
  <2>5. CASE sendHandledByHook(t)
    <3>1. pc' = pc
      BY <1>2, <2>5 DEF sendHandledByHook, Return, Goto
    <3> QED
      BY <1>3, <2>5, <3>1 DEF sendHandledByHook
  <2> QED
    BY <1>4, <2>1, <2>2, <2>3, <2>4, <2>5
<1>5. CASE AcquireEmpty(t)
  <2>1. NInsert' = NInsert + 1 /\ NRemove' = NRemove
    BY <1>1, <1>2, <1>5, CountsMove DEF AcquireEmpty, Places, Arrival
  <2> QED
    BY <1>1, <1>2, <1>5, <2>1 DEF AcquireEmpty, Numbers, CallsCounted, diagnostics
<1>6. CASE AcquireFull(t)
  <2>1. NInsert' = NInsert /\ NRemove' = NRemove + 1
    BY <1>1, <1>2, <1>6, CountsMove DEF AcquireFull, Places, Arrival
  <2> QED
    BY <1>1, <1>2, <1>6, <2>1 DEF AcquireFull, Numbers, CallsCounted, diagnostics
<1>7. CASE Insert(t)
  <2>1. NInsert' = NInsert - 1 /\ NRemove' = NRemove
    BY <1>1, <1>2, <1>7, CountsMove DEF Insert, Return, Places, Arrival
  <2>2. rMsg[t] \in Messages
    BY <1>7 DEF Insert, IInv, TypeOK
  <2>3. mDlist' \in Seq(Messages) /\ Len(mDlist') = Len(mDlist) + 1
    BY <1>2, <1>7, <2>2 DEF Insert, insertMsg
  <2>4. Numbers'
    <3>1. mEmpty' = mEmpty /\ mFull' = mFull + 1
      BY <1>7 DEF Insert
    <3> QED
      BY <1>1, <2>1, <2>3, <3>1 DEF Numbers
  <2>5. CallsCounted'
    BY <1>1, <1>2, <1>7, <2>3 DEF Insert, Numbers, CallsCounted
  <2> QED
    BY <1>2, <1>7, <2>3, <2>4, <2>5 DEF Insert
<1>8. CASE Remove(t)
  <2>1. NInsert' = NInsert /\ NRemove' = NRemove - 1 /\ NRemove > 0
    BY <1>1, <1>2, <1>8, CountsMove, CountsType DEF Remove, Return, Places, Arrival
  <2>2. mDlist # <<>>
    BY <1>1, <2>1, EmptySeq DEF Numbers
  <2>3. /\ Head(mDlist) \in Messages
        /\ Tail(mDlist) \in Seq(Messages) /\ Len(Tail(mDlist)) = Len(mDlist) - 1
    BY <1>2, <2>2, HeadTailProperties
  <2>4. Len(mDlist') = Len(mDlist) - 1
    BY <1>8, <2>3 DEF Remove
  <2>5. Numbers'
    <3>1. mEmpty' = mEmpty + 1 /\ mFull' = mFull
      BY <1>8 DEF Remove
    <3> QED
      BY <1>1, <2>1, <2>4, <3>1 DEF Numbers
  <2>6. CallsCounted'
    BY <1>1, <1>2, <1>8, <2>4 DEF Remove, Numbers, CallsCounted
  <2>7. mDlist' \in Seq(Messages) /\ delivered' \in Seq(Messages)
    BY <1>2, <1>8, <2>3 DEF Remove
  <2> QED
    BY <2>5, <2>6, <2>7
<1> QED
  BY <1>4, <1>5, <1>6, <1>7, <1>8 DEF doSend, doReceive

-----------------------------------------------------------------------------
(* The order.                                                              *)

\* An urgent message may be put anywhere in the line.
LEMMA UrgentOrder ==
  ASSUME NEW d \in Seq(Messages), NEW q \in Seq(Messages), NEW m \in Messages,
         m.urgent, Ordered(d \o q)
  PROVE  /\ Ordered(d \o (<<m>> \o q))
         /\ \A i \in 1..Len(d \o (<<m>> \o q)) :
              \/ (d \o (<<m>> \o q))[i] = m
              \/ \E k \in 1..Len(d \o q) : (d \o (<<m>> \o q))[i] = (d \o q)[k]
<1> DEFINE old == d \o q
           new == d \o (<<m>> \o q)
           n == Len(d)
<1>1. <<m>> \in Seq(Messages) /\ Len(<<m>>) = 1 /\ <<m>>[1] = m
  OBVIOUS
<1>2. /\ <<m>> \o q \in Seq(Messages)
      /\ Len(<<m>> \o q) = Len(q) + 1
      /\ \A i \in 1..Len(q) + 1 : (<<m>> \o q)[i] = IF i = 1 THEN m ELSE q[i - 1]
  BY <1>1, ConcatProperties, LenProperties
<1>3. n \in Nat /\ Len(q) \in Nat
  BY LenProperties
<1>4. /\ Len(old) = n + Len(q)
      /\ \A i \in 1..n + Len(q) : old[i] = IF i <= n THEN d[i] ELSE q[i - n]
  BY ConcatProperties
<1>5. /\ Len(new) = n + Len(q) + 1
      /\ \A i \in 1..n + Len(q) + 1 :
           new[i] = IF i <= n THEN d[i] ELSE (<<m>> \o q)[i - n]
  <2>1. Len(new) = n + Len(<<m>> \o q)
    BY <1>2, ConcatProperties
  <2>2. \A i \in 1..n + Len(<<m>> \o q) :
          new[i] = IF i <= n THEN d[i] ELSE (<<m>> \o q)[i - n]
    BY <1>2, ConcatProperties
  <2> QED
    BY <2>1, <2>2, <1>2, <1>3
<1> DEFINE was(i) == IF i <= n THEN i ELSE i - 1
<1>6. ASSUME NEW i \in 1..Len(new), i # n + 1
      PROVE  was(i) \in 1..Len(old) /\ new[i] = old[was(i)]
  <2>1. CASE i <= n
    BY <1>3, <1>4, <1>5, <2>1
  <2>2. CASE i > n + 1
    <3>1. new[i] = (<<m>> \o q)[i - n] /\ i - n \in 1..Len(q) + 1
      BY <1>3, <1>5, <2>2
    <3>2. new[i] = q[i - n - 1]
      BY <1>2, <1>3, <3>1, <2>2
    <3>3. i - 1 \in 1..n + Len(q) /\ ~(i - 1 <= n) /\ (i - 1) - n = i - n - 1
      BY <1>3, <1>5, <2>2
    <3> QED
      BY <1>3, <1>4, <3>2, <3>3
  <2> QED
    BY <1>3, <1>5, <1>6, <2>1, <2>2
<1>7. new[n + 1] = m
  BY <1>2, <1>3, <1>5
<1> HIDE DEF old, new
<1>8. Ordered(new)
  <2> SUFFICES ASSUME NEW i \in 1..Len(new), NEW j \in 1..Len(new), i < j,
                      new[i].from = new[j].from, ~new[i].urgent, ~new[j].urgent
               PROVE  new[i].num < new[j].num
    BY DEF Ordered
  <2>1. i # n + 1 /\ j # n + 1
    BY <1>7
  <2>2. was(i) < was(j)
    BY <2>1, <1>3
  <2> HIDE DEF was
  <2> QED
    BY <1>6, <2>1, <2>2 DEF Ordered, old
<1>9. \A i \in 1..Len(new) : new[i] = m \/ \E k \in 1..Len(old) : new[i] = old[k]
  <2> HIDE DEF was
  <2> QED
    BY <1>6, <1>7
<1> QED
  BY <1>8, <1>9 DEF old, new

Newest(m, line) ==
  \A k \in 1..Len(line) : line[k].from = m.from => line[k].num < m.num

\* A message newer than what its sender has in the line may go to the end.
LEMMA TailOrder ==
  ASSUME NEW d \in Seq(Messages), NEW q \in Seq(Messages), NEW m \in Messages,
         Ordered(d \o q), Newest(m, d \o q)
  PROVE  /\ Ordered(d \o Append(q, m))
         /\ \A i \in 1..Len(d \o Append(q, m)) :
              \/ (d \o Append(q, m))[i] = m
              \/ \E k \in 1..Len(d \o q) : (d \o Append(q, m))[i] = (d \o q)[k]
<1>1. d \o q \in Seq(Messages) /\ Append(q, m) = q \o <<m>> /\ <<m>> \in Seq(Messages)
  BY ConcatProperties, AppendIsConcat
<1>2. d \o Append(q, m) = Append(d \o q, m)
  <2>1. d \o (q \o <<m>>) = (d \o q) \o <<m>>
    BY <1>1, ConcatAssociative
  <2> QED
    BY <1>1, <2>1, AppendIsConcat
<1> DEFINE old == d \o q
           new == Append(d \o q, m)
<1>3. /\ Len(new) = Len(old) + 1
      /\ \A i \in 1..Len(old) : new[i] = old[i]
      /\ new[Len(old) + 1] = m
      /\ Len(old) \in Nat
  BY <1>1, AppendProperties, LenProperties
<1>6. Ordered(old) /\ Newest(m, old)
  OBVIOUS
<1> HIDE DEF old, new
<1>4. Ordered(new)
  <2> SUFFICES ASSUME NEW i \in 1..Len(new), NEW j \in 1..Len(new), i < j,
                      new[i].from = new[j].from, ~new[i].urgent, ~new[j].urgent
               PROVE  new[i].num < new[j].num
    BY DEF Ordered
  <2>1. i \in 1..Len(old) /\ new[i] = old[i]
    BY <1>3
  <2>2. CASE j = Len(old) + 1
    <3>1. new[j] = m
      BY <1>3, <2>2
    <3> QED
      BY <1>6, <2>1, <3>1 DEF Newest
  <2>3. CASE j # Len(old) + 1
    <3>1. j \in 1..Len(old) /\ new[j] = old[j]
      BY <1>3, <2>3
    <3> QED
      BY <1>6, <2>1, <3>1 DEF Ordered
  <2> QED
    BY <2>2, <2>3
<1>5. \A i \in 1..Len(new) : new[i] = m \/ \E k \in 1..Len(old) : new[i] = old[k]
  BY <1>3
<1> QED
  BY <1>2, <1>4, <1>5 DEF old, new


LEMMA LineOfIInv ==
  IInv <=> /\ TypeOK /\ SlotsAccounted /\ CallsCounted
           /\ \A t \in Busy : rMsg[t].from = t /\ rMsg[t].num = numSent[t]
           /\ Below(Line, numSent, Busy)
           /\ Ordered(Line)
BY DEF IInv, CarriesLatest, SenderOrderKept, Ordered, Line

\* What an action that moves thread t does to the messages and their numbers.
LEMMA LineStep ==
  ASSUME IInv, NEW t \in Threads, doSend(t) \/ doReceive(t)
  PROVE  /\ \A u \in Busy' : rMsg'[u].from = u /\ rMsg'[u].num = numSent'[u]
         /\ Below(Line', numSent', Busy')
         /\ Ordered(Line')
<1> USE MsgQAssumption
<1>1. /\ \A u \in Busy : rMsg[u].from = u /\ rMsg[u].num = numSent[u]
      /\ Below(Line, numSent, Busy)
      /\ Ordered(Line)
  BY LineOfIInv
<1>2. /\ pc \in [Threads -> Places] /\ rMsg \in [Threads -> Messages \cup {NoMsg}]
      /\ numSent \in [Threads -> 0..MaxSends]
      /\ mDlist \in Seq(Messages) /\ delivered \in Seq(Messages)
  BY DEF IInv, TypeOK, Places
<1>3. /\ Line \in Seq(Messages)
      /\ \A i \in 1..Len(Line) : Line[i] \in Messages /\ Line[i].from \in Threads
                                 /\ Line[i].num \in Nat
  <2>1. Line \in Seq(Messages)
    BY <1>2, ConcatProperties DEF Line
  <2>2. \A i \in 1..Len(Line) : Line[i] \in Messages
    BY <2>1, ElementOfSeq
  <2> QED
    BY <2>1, <2>2 DEF Messages
\* An action that changes neither the line nor the numbers, and starts no send.
<1>4. ASSUME Line' = Line, UNCHANGED numSent,
             Busy' \subseteq Busy, \A u \in Busy' : rMsg'[u] = rMsg[u]
      PROVE  /\ \A u \in Busy' : rMsg'[u].from = u /\ rMsg'[u].num = numSent'[u]
             /\ Below(Line', numSent', Busy') /\ Ordered(Line')
  BY <1>1, <1>4 DEF Below
<1>5. CASE AcquireEmpty(t) \/ AcquireFull(t) \/ receive(t)
  BY <1>2, <1>4, <1>5 DEF AcquireEmpty, AcquireFull, receive, Goto, Busy, Line
<1>6. CASE sendTimesOut(t) \/ receiveTimesOut(t)
  BY <1>2, <1>4, <1>6 DEF sendTimesOut, receiveTimesOut, Return, Goto, Busy, Line
<1>7. CASE Remove(t)
  <2>1. mDlist # <<>>
    <3>1. Numbers /\ NRemove > 0 /\ NRemove \in Nat
      BY <1>7, NumbersOfIInv, CountsType DEF Remove
    <3> QED
      BY <3>1, EmptySeq DEF Numbers
  <2>2. Line' = Line
    <3>1. /\ Head(mDlist) \in Messages /\ Tail(mDlist) \in Seq(Messages)
          /\ mDlist = <<Head(mDlist)>> \o Tail(mDlist)
      BY <1>2, <2>1, HeadTailProperties, ConcatProperties
    <3>2. <<Head(mDlist)>> \in Seq(Messages)
      BY <3>1
    <3>3. Append(delivered, Head(mDlist)) \o Tail(mDlist)
            = (delivered \o <<Head(mDlist)>>) \o Tail(mDlist)
      BY <1>2, <3>1, AppendIsConcat
    <3>4. (delivered \o <<Head(mDlist)>>) \o Tail(mDlist)
            = delivered \o (<<Head(mDlist)>> \o Tail(mDlist))
      BY <1>2, <3>1, <3>2, ConcatAssociative
    <3> QED
      BY <1>7, <3>1, <3>3, <3>4 DEF Remove, Line
  <2> QED
    BY <1>2, <1>4, <1>7, <2>2 DEF Remove, Return, Goto, Busy
<1>8. CASE send(t) \/ sendHandledByHook(t)
  <2>1. Line' = Line
    BY <1>8 DEF send, sendHandledByHook, Line
  <2>2. numSent' = [numSent EXCEPT ![t] = @ + 1] /\ t \notin Busy
    BY <1>8 DEF send, sendHandledByHook, Busy
  <2>3. Busy' \subseteq Busy \cup {t}
    BY <1>2, <1>8 DEF send, sendHandledByHook, Return, Goto, Busy
  <2>4. \A u \in Busy' : rMsg'[u].from = u /\ rMsg'[u].num = numSent'[u]
    BY <1>1, <1>2, <1>8, <2>2, <2>3
       DEF send, sendHandledByHook, Return, Goto, Busy
  <2>5. Below(Line', numSent', Busy')
    BY <1>1, <1>2, <1>3, <2>1, <2>2, <2>3 DEF Below
  <2> QED
    BY <1>1, <2>1, <2>4, <2>5
<1>9. CASE Insert(t)
  <2> DEFINE m == rMsg[t]
  <2>1. /\ t \in Busy /\ m \in Messages /\ m.from = t /\ m.num = numSent[t]
        /\ m.urgent \in BOOLEAN
    <3>1. t \in Busy /\ m \in Messages
      BY <1>9 DEF Insert, Busy, IInv, TypeOK
    <3> QED
      BY <1>1, <3>1 DEF Messages
  <2>2. Newest(m, Line)
    BY <1>1, <2>1 DEF Below, Newest
  <2>3. /\ Ordered(Line')
        /\ \A i \in 1..Len(Line') :
             Line'[i] = m \/ \E k \in 1..Len(Line) : Line'[i] = Line[k]
    <3>1. CASE m.urgent
      <4>1. Line' = delivered \o (<<m>> \o mDlist)
        BY <1>9, <3>1 DEF Insert, insertMsg, Line
      <4> DEFINE new == delivered \o (<<m>> \o mDlist)
      <4>2. /\ Ordered(new)
            /\ \A i \in 1..Len(new) :
                 new[i] = m \/ \E k \in 1..Len(Line) : new[i] = Line[k]
        <5> HIDE DEF m
        <5> QED
          BY <1>1, <1>2, <2>1, <3>1, UrgentOrder DEF Line
      <4> QED
        BY <4>1, <4>2
    <3>2. CASE ~m.urgent
      <4>1. Line' = delivered \o Append(mDlist, m)
        BY <1>9, <3>2 DEF Insert, insertMsg, Line
      <4> DEFINE new == delivered \o Append(mDlist, m)
      <4>2. /\ Ordered(new)
            /\ \A i \in 1..Len(new) :
                 new[i] = m \/ \E k \in 1..Len(Line) : new[i] = Line[k]
        <5> HIDE DEF m
        <5>1. Ordered(delivered \o mDlist) /\ Newest(m, delivered \o mDlist)
          BY <1>1, <2>2 DEF Line
        <5>2. m \in Messages
          BY <2>1
        <5> QED
          BY <1>2, <5>1, <5>2, TailOrder, Zenon DEF Line
      <4> QED
        BY <4>1, <4>2
    <3> QED
      BY <3>1, <3>2
  <2>4. Busy' = Busy \ {t} /\ UNCHANGED numSent
    BY <1>2, <1>9 DEF Insert, Return, Goto, Busy
  <2>5. \A u \in Busy' : rMsg'[u].from = u /\ rMsg'[u].num = numSent'[u]
    BY <1>1, <1>2, <1>9, <2>4 DEF Insert, Return, Busy
  <2>6. Below(Line', numSent', Busy')
    <3>1. numSent[t] \in Nat
      BY <1>2
    <3> QED
      BY <1>1, <2>1, <2>3, <2>4, <3>1 DEF Below
  <2> QED
    BY <2>3, <2>5, <2>6
<1> QED
  BY <1>5, <1>6, <1>7, <1>8, <1>9 DEF doSend, doReceive

-----------------------------------------------------------------------------
(* The rest of the types, and the invariant.                               *)

LEMMA TypeStep ==
  ASSUME IInv, NEW t \in Threads, doSend(t) \/ doReceive(t)
  PROVE  TypeOK'
<1> USE MsgQAssumption
<1>1. /\ mDlist' \in Seq(Messages) /\ delivered' \in Seq(Messages)
      /\ mEmpty' \in 0..mMaxMsgs /\ mFull' \in 0..mMaxMsgs
  <2>1. Numbers' /\ mDlist' \in Seq(Messages) /\ delivered' \in Seq(Messages)
    BY SlotsStep
  <2>2. NInsert' \in Nat /\ NRemove' \in Nat
    <3>1. /\ NInsert' = Cardinality(At(pc', "insert"))
          /\ NRemove' = Cardinality(At(pc', "remove"))
      BY DEF NInsert, NRemove, In, At
    <3> QED
      BY <3>1, CountType
  <2>3. mEmpty' \in 0..mMaxMsgs /\ mFull' \in 0..mMaxMsgs
    <3>1. /\ mEmpty' \in Nat /\ mFull' \in Nat /\ Len(mDlist') \in Nat
          /\ mEmpty' + NInsert' + Len(mDlist') = mMaxMsgs
          /\ mFull' + NRemove' = Len(mDlist')
      BY <2>1, Zenon DEF Numbers
    <3> QED
      BY <3>1, <2>2
  <2> QED
    BY <2>1, <2>3
<1>2. NoMsg \notin Messages
  BY DEF Messages
<1> DEFINE Rest ==
      /\ mNumInsertExitOk' \in Nat /\ mNumRemoveExitOk' \in Nat
      /\ pc' \in [Threads -> Places]
      /\ rMsg' \in [Threads -> Messages \cup {NoMsg}]
      /\ \A u \in Threads : rMsg'[u] # NoMsg <=> pc'[u] \in {"acquireEmpty", "insert"}
      /\ timed' \in [Threads -> BOOLEAN]
      /\ status' \in [Threads -> {"OS_SUCCESS", "OS_WAIT_TIMEOUT"}]
      /\ numSent' \in [Threads -> 0..MaxSends]
<1>3. Rest
  <2> USE DEF IInv, TypeOK, Places, Goto
  <2>1. CASE send(t)
    <3>1. PICK isUrgent \in Urgent, finite \in BOOLEAN :
            /\ rMsg' = [rMsg EXCEPT ![t] = [from |-> t, num |-> numSent'[t],
                                            urgent |-> isUrgent]]
            /\ timed' = [timed EXCEPT ![t] = finite]
      BY <2>1 DEF send
    <3>2. numSent' = [numSent EXCEPT ![t] = @ + 1] /\ numSent[t] < MaxSends
          /\ t \in Senders /\ numSent[t] \in 0..MaxSends
      BY <2>1 DEF send
    <3>3. numSent' \in [Threads -> 0..MaxSends] /\ numSent'[t] \in 1..MaxSends
      BY <3>2
    <3>4. [from |-> t, num |-> numSent'[t], urgent |-> isUrgent] \in Messages
      BY <3>2, <3>3 DEF Messages
    <3> QED
      BY <1>2, <2>1, <3>1, <3>3, <3>4 DEF send, diagnostics
  <2>2. CASE sendHandledByHook(t)
    <3>1. numSent' \in [Threads -> 0..MaxSends]
      BY <2>2 DEF sendHandledByHook
    <3> QED
      BY <2>2, <3>1 DEF sendHandledByHook, Return
  <2>3. CASE AcquireEmpty(t) \/ AcquireFull(t) \/ receive(t)
    BY <2>3 DEF AcquireEmpty, AcquireFull, receive, diagnostics
  <2>4. CASE sendTimesOut(t) \/ receiveTimesOut(t)
    BY <2>4 DEF sendTimesOut, receiveTimesOut, Return, diagnostics
  <2>5. CASE Insert(t)
    BY <2>5 DEF Insert, Return
  <2>6. CASE Remove(t)
    <3>1. /\ Return(t, "OS_SUCCESS") /\ UNCHANGED <<mNumInsertExitOk, numSent>>
          /\ mNumRemoveExitOk' = mNumRemoveExitOk + 1
      BY <2>6 DEF Remove
    <3> QED
      BY <3>1 DEF Return
  <2> QED
    BY <2>1, <2>2, <2>3, <2>4, <2>5, <2>6 DEF doSend, doReceive
<1> QED
  BY <1>1, <1>3 DEF TypeOK, Places

LEMMA NextIInv == IInv /\ [Next]_vars => IInv'
<1> SUFFICES ASSUME IInv, [Next]_vars PROVE IInv'
  OBVIOUS
<1>1. CASE UNCHANGED vars
  BY <1>1 DEF vars, semaphores, diagnostics, IInv, TypeOK, SlotsAccounted,
       CallsCounted, CarriesLatest, SenderOrderKept, Below, Line, Busy, In
<1>2. CASE Next
  <2>1. PICK t \in Threads : doSend(t) \/ doReceive(t)
    BY <1>2 DEF Next
  <2>2. TypeOK'
    BY <2>1, TypeStep
  <2>3. Numbers' /\ CallsCounted'
    BY <2>1, SlotsStep
  <2>4. SlotsAccounted'
    BY <2>3 DEF Numbers, SlotsAccounted, NInsert, NRemove
  <2>5. /\ \A u \in Busy' : rMsg'[u].from = u /\ rMsg'[u].num = numSent'[u]
        /\ Below(Line', numSent', Busy')
        /\ Ordered(Line')
    BY <2>1, LineStep
  <2>6. CarriesLatest' /\ SenderOrderKept'
    BY <2>5 DEF CarriesLatest, SenderOrderKept, Ordered, Below, Line
  <2> QED
    BY <2>2, <2>3, <2>4, <2>6 DEF IInv
<1> QED
  BY <1>1, <1>2

\* The invariant holds of every behaviour of the queue.
THEOREM Invariance == Spec => []IInv
BY InitIInv, NextIInv, PTL DEF Spec

\* The semaphores never leave 0..mMaxMsgs and no thread is lost in a call.
THEOREM TypeCorrect == Spec => []TypeOK
BY Invariance, PTL DEF IInv

\* Every slot and every message is in a semaphore, in the list or in the hands
\* of a thread on its way to mGuard.
THEOREM SlotsConserved == Spec => []SlotsAccounted
BY Invariance, PTL DEF IInv

\* The assertions of doSend() and doReceive() hold.
THEOREM NoAssertionFails == Spec => []AssertionsHold
<1>1. IInv => AssertionsHold
  <2> SUFFICES ASSUME IInv, NEW t \in Threads
               PROVE  /\ pc[t] = "remove" => mDlist # <<>> /\ mEmpty < mMaxMsgs
                      /\ pc[t] = "insert" => mFull < mMaxMsgs
    BY DEF AssertionsHold
  <2>1. Numbers /\ NInsert \in Nat /\ NRemove \in Nat
        /\ (pc[t] = "insert" => NInsert > 0) /\ (pc[t] = "remove" => NRemove > 0)
    BY NumbersOfIInv, CountsType
  <2>2. pc[t] = "remove" => mDlist # <<>>
    BY <2>1, EmptySeq DEF Numbers
  <2> QED
    BY <2>1, <2>2, MsgQAssumption DEF Numbers
<1> QED
  BY <1>1, Invariance, PTL

\* The messages of a sender that are not urgent keep their order.
THEOREM SendersInOrder == Spec => []SenderOrderKept
BY Invariance, PTL DEF IInv

\* testMessageQ() never fails, but for the count of the sends a hook handled.
THEOREM SelfTestHolds == Spec => []TestMessageQ
<1>1. IInv => TestMessageQ
  <2> SUFFICES ASSUME IInv, \A t \in Threads : pc[t] = "idle"
               PROVE  /\ mEmpty = mMaxMsgs - Len(mDlist)
                      /\ mFull = Len(mDlist)
                      /\ ~SendHook => Len(mDlist) = mNumInsertExitOk - mNumRemoveExitOk
    BY DEF TestMessageQ
  <2>1. In("insert") = {} /\ In("remove") = {}
    BY DEF In
  <2>2. NInsert = 0 /\ NRemove = 0
    BY <2>1, FS_EmptySet DEF NInsert, NRemove
  <2> QED
    BY <2>2, NumbersOfIInv, MsgQAssumption DEF Numbers, IInv, CallsCounted
<1> QED
  BY <1>1, Invariance, PTL

-----------------------------------------------------------------------------
(* The queue implements MsgQueue.                                          *)

\* What a move of one thread changes in the calls that MsgQueue sees.
LEMMA CallsMove ==
  ASSUME NEW t \in Threads, NEW to, Goto(t, to),
         pc \in [Threads -> Places],
         \A u \in Threads \ {t} : rMsg'[u] = rMsg[u]
  PROVE  /\ Calls' = [Calls EXCEPT ![t] = CallOf(t)']
         /\ pc'[t] = to
<1>1. pc' = [pc EXCEPT ![t] = to]
  BY DEF Goto
<1>2. \A u \in Threads \ {t} : CallOf(u)' = CallOf(u)
  BY <1>1 DEF CallOf
<1> QED
  BY <1>1, <1>2 DEF Calls

\* Threads on their way to mGuard are among the others in the same call.
LEMMA OthersUnderway ==
  ASSUME NEW t \in Threads, NEW place, NEW op, pc[t] # place,
         \A u \in Threads : pc[u] = place => CallOf(u).op = op
  PROVE  /\ Cardinality(In(place)) <= Cardinality(Q!Others(t, op))
         /\ Cardinality(Q!Others(t, op)) \in Nat
<1>1. In(place) \subseteq Q!Others(t, op) /\ Q!Others(t, op) \subseteq Threads
  BY DEF In, Q!Others, Calls
<1>2. IsFiniteSet(Q!Others(t, op))
  BY <1>1, MsgQAssumption, FS_Subset
<1> QED
  BY <1>1, <1>2, FS_Subset, FS_CardinalityType

\* The instance has the same notion of cardinality.
LEMMA SameCardinality == \A S : Q!Cardinality(S) = Cardinality(S)
BY DEF Q!Cardinality, Cardinality

LEMMA InitRefines == Init => Q!Init
BY DEF Init, Q!Init, Q!None, Calls, CallOf

LEMMA StepRefines == IInv /\ [Next]_vars => [Q!Next]_(Q!vars)
<1> SUFFICES ASSUME IInv, [Next]_vars PROVE [Q!Next]_(Q!vars)
  OBVIOUS
<1> USE MsgQAssumption
<1>1. CASE UNCHANGED vars
  BY <1>1 DEF vars, Q!vars, Calls, CallOf
<1>2. CASE Next
  <2>1. PICK t \in Threads : doSend(t) \/ doReceive(t)
    BY <1>2 DEF Next
  <2>2. /\ pc \in [Threads -> Places] /\ rMsg \in [Threads -> Messages \cup {NoMsg}]
        /\ Numbers
    BY NumbersOfIInv DEF IInv, TypeOK, Places
  <2>3. NInsert \in Nat /\ NRemove \in Nat
        /\ (pc[t] = "insert" => NInsert > 0) /\ (pc[t] = "remove" => NRemove > 0)
    BY CountsType
  <2>4. CASE send(t)
    <3>1. rMsg'[t] \in Messages
      <4>1. TypeOK' /\ pc'[t] = "acquireEmpty"
        BY <2>1, <2>2, <2>4, TypeStep DEF send, Goto
      <4> QED
        BY <4>1 DEF TypeOK
    <3>2. Calls[t] = Q!None
      BY <2>4 DEF send, Calls, CallOf, Q!None
    <3>3. Calls' = [Calls EXCEPT ![t] = Q!Sending(rMsg'[t])]
      <4>1. Calls' = [Calls EXCEPT ![t] = CallOf(t)'] /\ pc'[t] = "acquireEmpty"
        BY <2>2, <2>4, CallsMove DEF send
      <4> QED
        BY <4>1 DEF CallOf, Q!Sending
    <3>4. Q!Begin(t, Q!Sending(rMsg'[t]))
      BY <2>4, <3>2, <3>3 DEF send, Q!Begin
    <3> QED
      BY <3>1, <3>4 DEF Q!Next
  <2>5. CASE receive(t)
    <3>1. Calls[t] = Q!None
      BY <2>5 DEF receive, Calls, CallOf, Q!None
    <3>2. Calls' = [Calls EXCEPT ![t] = Q!Receiving]
      <4>1. Calls' = [Calls EXCEPT ![t] = CallOf(t)'] /\ pc'[t] = "acquireFull"
        BY <2>2, <2>5, CallsMove DEF receive
      <4> QED
        BY <4>1 DEF CallOf, Q!Receiving
    <3>3. Q!Begin(t, Q!Receiving)
      BY <2>5, <3>1, <3>2 DEF receive, Q!Begin
    <3> QED
      BY <3>3 DEF Q!Next
  <2>6. ASSUME NEW s, Return(t, s)
        PROVE  Q!Return(t, s)
    <3>1. Calls' = [Calls EXCEPT ![t] = CallOf(t)'] /\ pc'[t] = "idle"
      BY <2>2, <2>6, CallsMove DEF Return
    <3> QED
      BY <2>6, <3>1 DEF Return, CallOf, Q!Return, Q!None
  <2>7. CASE sendHandledByHook(t)
    <3>1. Calls[t] = Q!None
      BY <2>7 DEF sendHandledByHook, Calls, CallOf, Q!None
    <3>2. Q!Divert(t)
      BY <2>6, <2>7, <3>1 DEF sendHandledByHook, Q!Divert
    <3> QED
      BY <3>2 DEF Q!Next
  <2>8. CASE AcquireEmpty(t)
    <3>1. Calls' = [Calls EXCEPT ![t] = CallOf(t)'] /\ pc'[t] = "insert"
      BY <2>2, <2>8, CallsMove DEF AcquireEmpty
    <3>2. CallOf(t)' = CallOf(t)
      BY <2>8, <3>1 DEF AcquireEmpty, CallOf
    <3> QED
      BY <2>8, <3>1, <3>2 DEF AcquireEmpty, Q!vars, Calls
  <2>9. CASE AcquireFull(t)
    <3>1. Calls' = [Calls EXCEPT ![t] = CallOf(t)'] /\ pc'[t] = "remove"
      BY <2>2, <2>9, CallsMove DEF AcquireFull
    <3>2. CallOf(t)' = CallOf(t)
      BY <2>9, <3>1 DEF AcquireFull, CallOf
    <3> QED
      BY <2>9, <3>1, <3>2 DEF AcquireFull, Q!vars, Calls
  <2>10. CASE sendTimesOut(t)
    <3>1. Calls[t].op = "send"
      BY <2>10 DEF sendTimesOut, Calls, CallOf
    <3>2. Len(mDlist) + Cardinality(Q!Others(t, "send")) >= mMaxMsgs
      <4>1. mEmpty = 0 /\ pc[t] # "insert"
        BY <2>10 DEF sendTimesOut
      <4>2. \A u \in Threads : pc[u] = "insert" => CallOf(u).op = "send"
        BY DEF CallOf
      <4>3. /\ NInsert <= Cardinality(Q!Others(t, "send"))
            /\ Cardinality(Q!Others(t, "send")) \in Nat
        BY <4>1, <4>2, OthersUnderway DEF NInsert
      <4> QED
        BY <2>2, <2>3, <4>1, <4>3 DEF Numbers
    <3>3. Q!SendGivesUp(t)
      BY <2>6, <2>10, <3>1, <3>2, SameCardinality DEF sendTimesOut, Q!SendGivesUp
    <3> QED
      BY <3>3 DEF Q!Next
  <2>11. CASE receiveTimesOut(t)
    <3>1. Calls[t] = Q!Receiving
      BY <2>11 DEF receiveTimesOut, Calls, CallOf, Q!Receiving
    <3>2. Len(mDlist) <= Cardinality(Q!Others(t, "receive"))
      <4>1. mFull = 0 /\ pc[t] # "remove"
        BY <2>11 DEF receiveTimesOut
      <4>2. \A u \in Threads : pc[u] = "remove" => CallOf(u).op = "receive"
        BY DEF CallOf
      <4>3. /\ NRemove <= Cardinality(Q!Others(t, "receive"))
            /\ Cardinality(Q!Others(t, "receive")) \in Nat
        BY <4>1, <4>2, OthersUnderway DEF NRemove
      <4> QED
        BY <2>2, <2>3, <4>1, <4>3 DEF Numbers
    <3>3. Q!ReceiveGivesUp(t)
      BY <2>6, <2>11, <3>1, <3>2, SameCardinality DEF receiveTimesOut, Q!ReceiveGivesUp
    <3> QED
      BY <3>3 DEF Q!Next
  <2>12. CASE Insert(t)
    <3>1. Calls[t] = [op |-> "send", msg |-> rMsg[t]]
      BY <2>12 DEF Insert, Calls, CallOf
    <3>2. Len(mDlist) < mMaxMsgs
      BY <2>2, <2>3, <2>12 DEF Insert, Numbers
    <3>3. Q!Put(t)
      BY <2>6, <2>12, <3>1, <3>2 DEF Insert, insertMsg, Q!Put
    <3> QED
      BY <3>3 DEF Q!Next
  <2>13. CASE Remove(t)
    <3>1. Calls[t] = Q!Receiving
      BY <2>13 DEF Remove, Calls, CallOf, Q!Receiving
    <3>2. mDlist # <<>>
      BY <2>2, <2>3, <2>13, EmptySeq DEF Remove, Numbers
    <3>3. Q!Take(t)
      BY <2>6, <2>13, <3>1, <3>2 DEF Remove, Q!Take
    <3> QED
      BY <3>3 DEF Q!Next
  <2> QED
    BY <2>1, <2>4, <2>5, <2>7, <2>8, <2>9, <2>10, <2>11, <2>12, <2>13
       DEF doSend, doReceive
<1> QED
  BY <1>1, <1>2

\* The queue behaves as the bounded queue of MsgQueue does, with the two
\* semaphores that admit threads to it out of sight.
THEOREM Refinement == Spec => ImplementsMsgQueue
BY Invariance, InitRefines, StepRefines, PTL DEF Spec, ImplementsMsgQueue, Q!Spec
=============================================================================
