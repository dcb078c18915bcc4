------------------------ MODULE OsRWMutexShared_proofs ------------------------
(* The safety of the reader/writer lock, for any set of tasks.              *)
EXTENDS OsRWMutexShared, FiniteSetTheorems, TLAPS

-----------------------------------------------------------------------------
(* Counting the tasks at a set of locations.                               *)

In(p, L) == {u \in Tasks : p[u] \in L}
Indicator(l, L) == IF l \in L THEN 1 ELSE 0

ReadingL == {"reading"}
ReadersL == {"awaitReadTicket", "tryReadTicket", "reading"}
HoldersL == {"awaitExcl", "tryExcl", "writing", "releasedExcl"}
WritersL == {"awaitWriteTicket", "tryWriteTicket"} \cup HoldersL

\* The sets that the properties count, as sets of locations.
LEMMA SetsOfLocations ==
  /\ Reading = In(pc, ReadingL)
  /\ ReadWaiters \cup Reading = In(pc, ReadersL)
  /\ TicketHolders = In(pc, HoldersL)
  /\ WriteWaiters \cup TicketHolders = In(pc, WritersL)
BY DEF In, ReadingL, ReadersL, HoldersL, WritersL, Reading, ReadWaiters,
       TicketHolders, WriteWaiters, At

\* The number of tasks at some locations is a number.
LEMMA CountType ==
  ASSUME NEW p, NEW L
  PROVE  IsFiniteSet(In(p, L)) /\ Cardinality(In(p, L)) \in Nat
<1>1. In(p, L) \in SUBSET Tasks
  BY DEF In
<1>2. IsFiniteSet(In(p, L))
  BY <1>1, TasksAssumption, FS_Subset
<1> QED
  BY <1>2, FS_CardinalityType

\* When one task moves, only that task enters or leaves the locations counted.
LEMMA CountMove ==
  ASSUME NEW p \in [Tasks -> Locations], NEW t \in Tasks, NEW to \in Locations,
         NEW L
  PROVE  Cardinality(In([p EXCEPT ![t] = to], L))
           = Cardinality(In(p, L)) + Indicator(to, L) - Indicator(p[t], L)
<1> DEFINE q == [p EXCEPT ![t] = to]
           Others == In(p, L) \ {t}
<1>1. IsFiniteSet(In(p, L)) /\ IsFiniteSet(Others)
  BY CountType, FS_RemoveElement
<1>2. Cardinality(In(p, L)) = Cardinality(Others) + Indicator(p[t], L)
  <2>1. CASE p[t] \in L
    <3>1. t \in In(p, L)
      BY <2>1 DEF In
    <3>2. Cardinality(Others) = Cardinality(In(p, L)) - 1
      BY <3>1, <1>1, FS_RemoveElement
    <3> QED
      BY <3>2, <2>1, CountType DEF Indicator
  <2>2. CASE p[t] \notin L
    <3>1. Others = In(p, L)
      BY <2>2 DEF In
    <3> QED
      BY <3>1, <2>2, CountType DEF Indicator
  <2> QED
    BY <2>1, <2>2
<1>3. Cardinality(In(q, L)) = Cardinality(Others) + Indicator(to, L)
  <2>1. CASE to \in L
    <3>1. In(q, L) = Others \cup {t}
      BY <2>1 DEF In
    <3>2. t \notin Others
      OBVIOUS
    <3>3. Cardinality(Others \cup {t}) = Cardinality(Others) + 1
      BY <3>2, <1>1, FS_AddElement
    <3> QED
      BY <3>1, <3>3, <2>1 DEF Indicator
  <2>2. CASE to \notin L
    <3>1. In(q, L) = Others
      BY <2>2 DEF In
    <3>2. Cardinality(Others) \in Nat
      BY <1>1, FS_CardinalityType
    <3> HIDE DEF Others, q
    <3> QED
      BY <3>1, <3>2, <2>2 DEF Indicator
  <2> QED
    BY <2>1, <2>2
<1>4. Cardinality(Others) \in Nat
  BY <1>1, FS_CardinalityType
<1> QED
  BY <1>2, <1>3, <1>4 DEF Indicator

-----------------------------------------------------------------------------
(* The four counts that TicketsConserved speaks of.                        *)

NReading == Cardinality(Reading)
NReaders == Cardinality(ReadWaiters \cup Reading)
NHolders == Cardinality(TicketHolders)
NWriters == Cardinality(WriteWaiters \cup TicketHolders)

\* They are numbers.
LEMMA CountsType ==
  /\ NReading \in Nat /\ NReaders \in Nat
  /\ NHolders \in Nat /\ NWriters \in Nat
BY SetsOfLocations, CountType DEF NReading, NReaders, NHolders, NWriters

\* What a task that moves changes in them.
LEMMA CountsMove ==
  ASSUME TypeOK, NEW t \in Tasks, NEW from, NEW to \in Locations,
         Goto(t, from, to)
  PROVE  /\ pc' \in [Tasks -> Locations]
         /\ NReading' = NReading + Indicator(to, ReadingL)
                                 - Indicator(from, ReadingL)
         /\ NReaders' = NReaders + Indicator(to, ReadersL)
                                 - Indicator(from, ReadersL)
         /\ NHolders' = NHolders + Indicator(to, HoldersL)
                                 - Indicator(from, HoldersL)
         /\ NWriters' = NWriters + Indicator(to, WritersL)
                                 - Indicator(from, WritersL)
<1>1. pc \in [Tasks -> Locations] /\ pc[t] = from
      /\ pc' = [pc EXCEPT ![t] = to]
  BY DEF TypeOK, Goto
<1>2. \A L : Cardinality(In(pc', L))
               = Cardinality(In(pc, L)) + Indicator(to, L) - Indicator(from, L)
  BY <1>1, CountMove
<1>3. /\ NReading = Cardinality(In(pc, ReadingL))
      /\ NReaders = Cardinality(In(pc, ReadersL))
      /\ NHolders = Cardinality(In(pc, HoldersL))
      /\ NWriters = Cardinality(In(pc, WritersL))
  BY SetsOfLocations DEF NReading, NReaders, NHolders, NWriters
<1>4. /\ NReading' = Cardinality(In(pc', ReadingL))
      /\ NReaders' = Cardinality(In(pc', ReadersL))
      /\ NHolders' = Cardinality(In(pc', HoldersL))
      /\ NWriters' = Cardinality(In(pc', WritersL))
  BY DEF In, ReadingL, ReadersL, HoldersL, WritersL, Reading, ReadWaiters,
         TicketHolders, WriteWaiters, At, NReading, NReaders, NHolders, NWriters
<1>5. pc' \in [Tasks -> Locations]
  BY <1>1
<1> QED
  BY <1>2, <1>3, <1>4, <1>5

\* A task at one of the locations is counted.
LEMMA CountPositive ==
  ASSUME NEW t \in Tasks
  PROVE  /\ pc[t] \in ReadingL => NReading > 0
         /\ pc[t] \in ReadersL => NReaders > 0
         /\ pc[t] \in HoldersL => NHolders > 0
         /\ pc[t] \in WritersL => NWriters > 0
<1>1. ASSUME NEW L, pc[t] \in L
      PROVE  Cardinality(In(pc, L)) > 0
  <2>1. t \in In(pc, L)
    BY <1>1 DEF In
  <2>2. Cardinality(In(pc, L)) # 0
    BY <2>1, CountType, FS_EmptySet
  <2> QED
    BY <2>2, CountType
<1> QED
  BY <1>1, SetsOfLocations DEF NReading, NReaders, NHolders, NWriters

-----------------------------------------------------------------------------
(* The inductive invariant.                                                *)

\* No ticket is granted to anybody who did not ask.
GrantedToActive ==
  /\ mRunningReadersCnt <= mActiveReadersCnt
  /\ mRunningWritersCnt <= mActiveWritersCnt

\* Tickets for reading and tickets for writing are never out together.
TicketsExclude == mRunningReadersCnt = 0 \/ mRunningWritersCnt = 0

\* A conditional writer that has found the lock free keeps mGuard; it is the
\* only active writer, and its ticket is there.
TryWriterAlone ==
  \A t \in Tasks :
    pc[t] = "tryWriteTicket" =>
      /\ mGuard = t
      /\ mWriteSem = 1
      /\ \A u \in Tasks : pc[u] \in WritersL => u = t

IInv ==
  /\ TypeOK
  /\ TicketsConserved
  /\ NoLostGrant
  /\ GrantedToActive
  /\ TicketsExclude
  /\ TryWriterAlone

\* Its part about numbers only, in terms of the four counts.
Numbers ==
  /\ mReadSem \in Nat /\ mWriteSem \in Nat
  /\ mActiveReadersCnt \in Nat /\ mActiveWritersCnt \in Nat
  /\ mRunningReadersCnt \in Nat /\ mRunningWritersCnt \in Nat
  /\ mRunningReadersCnt = mReadSem + NReading
  /\ mRunningWritersCnt = mWriteSem + NHolders
  /\ mActiveReadersCnt = NReaders
  /\ mActiveWritersCnt = NWriters
  /\ NoLostGrant
  /\ GrantedToActive
  /\ TicketsExclude

\* The rest of it.
Places ==
  /\ mGuard \in Tasks \cup {NoTask}
  /\ mWriteExclSem \in {0, 1}
  /\ pc \in [Tasks -> Locations]
  /\ TryWriterAlone

\* The two parts are the invariant.
LEMMA IInvParts == IInv <=> Numbers /\ Places
BY DEF IInv, TypeOK, TicketsConserved, Numbers, Places,
       NReading, NReaders, NHolders, NWriters

\* It holds at first: nobody is anywhere but idle.
LEMMA InitIInv == Init => IInv
<1> SUFFICES ASSUME Init PROVE IInv
  OBVIOUS
<1>1. /\ Reading = {} /\ ReadWaiters \cup Reading = {}
      /\ TicketHolders = {} /\ WriteWaiters \cup TicketHolders = {}
  BY DEF Init, Reading, ReadWaiters, TicketHolders, WriteWaiters, At
<1>2. NReading = 0 /\ NReaders = 0 /\ NHolders = 0 /\ NWriters = 0
  BY <1>1, FS_EmptySet DEF NReading, NReaders, NHolders, NWriters
<1>3. Numbers
  BY <1>2 DEF Init, Numbers, NoLostGrant, GrantedToActive, TicketsExclude
<1>4. Places
  BY DEF Init, Places, Locations, TryWriterAlone
<1> QED
  BY <1>3, <1>4, IInvParts

-----------------------------------------------------------------------------
(* Every step keeps it: one lemma per action. First comes what the four    *)
(* counts do, then the numbers, then the places.                           *)

\* acquireRead() declares the reader.
LEMMA BeginReadIInv ==
  ASSUME IInv, NEW t \in Tasks, BeginRead(t)
  PROVE  IInv'
<1>1. Numbers /\ Places /\ TypeOK
  BY IInvParts DEF IInv
<1>2. Goto(t, "idle", "awaitReadTicket")
  BY DEF BeginRead
<1>3. "awaitReadTicket" \in Locations
  BY DEF Locations
<1>4. /\ NReading' = NReading /\ NReaders' = NReaders + 1
      /\ NHolders' = NHolders /\ NWriters' = NWriters
  BY <1>1, <1>2, <1>3, CountsMove, CountsType
     DEF Indicator, ReadingL, ReadersL, HoldersL, WritersL
<1>5. Numbers'
  BY <1>1, <1>2, <1>4, CountsType
     DEF BeginRead, counters, DeclareReader, grantReadTickets,
         Numbers, NoLostGrant, GrantedToActive, TicketsExclude
<1>6. TryWriterAlone'
  BY <1>1, <1>2
     DEF BeginRead, DeclareReader, grantReadTickets, Places, TryWriterAlone, Goto,
         Locations, HoldersL, WritersL
<1>7. Places'
  BY <1>1, <1>2, <1>3, <1>6, TasksAssumption
     DEF BeginRead, DeclareReader, grantReadTickets, Places, Goto
<1> QED
  BY <1>5, <1>7, IInvParts, PTL

\* tryAcquireRead() declares the reader.
LEMMA TryBeginReadIInv ==
  ASSUME IInv, NEW t \in Tasks, TryBeginRead(t)
  PROVE  IInv'
<1>1. Numbers /\ Places /\ TypeOK
  BY IInvParts DEF IInv
<1>2. Goto(t, "idle", "tryReadTicket")
  BY DEF TryBeginRead
<1>3. "tryReadTicket" \in Locations
  BY DEF Locations
<1>4. /\ NReading' = NReading /\ NReaders' = NReaders + 1
      /\ NHolders' = NHolders /\ NWriters' = NWriters
  BY <1>1, <1>2, <1>3, CountsMove, CountsType
     DEF Indicator, ReadingL, ReadersL, HoldersL, WritersL
<1>5. Numbers'
  BY <1>1, <1>2, <1>4, CountsType
     DEF TryBeginRead, counters, DeclareReader, grantReadTickets,
         Numbers, NoLostGrant, GrantedToActive, TicketsExclude
<1>6. TryWriterAlone'
  BY <1>1, <1>2
     DEF TryBeginRead, DeclareReader, grantReadTickets, Places, TryWriterAlone, Goto,
         Locations, HoldersL, WritersL
<1>7. Places'
  BY <1>1, <1>2, <1>3, <1>6, TasksAssumption
     DEF TryBeginRead, DeclareReader, grantReadTickets, Places, Goto
<1> QED
  BY <1>5, <1>7, IInvParts, PTL

\* mReadSem.acquire() in acquireRead() and tryAcquireRead().
LEMMA TakeReadTicketIInv ==
  ASSUME IInv, NEW t \in Tasks, TakeReadTicket(t)
  PROVE  IInv'
<1>1. Numbers /\ Places /\ TypeOK
  BY IInvParts DEF IInv
<1>2. PICK from \in {"awaitReadTicket", "tryReadTicket"} : Goto(t, from, "reading")
  BY DEF TakeReadTicket
<1>3. "reading" \in Locations
  BY DEF Locations
<1>4. /\ NReading' = NReading + 1 /\ NReaders' = NReaders
      /\ NHolders' = NHolders /\ NWriters' = NWriters
  BY <1>1, <1>2, <1>3, CountsMove, CountsType
     DEF Indicator, ReadingL, ReadersL, HoldersL, WritersL
<1>5. Numbers'
  BY <1>1, <1>4, CountsType
     DEF TakeReadTicket, counters, Numbers, NoLostGrant, GrantedToActive,
         TicketsExclude
<1>6. TryWriterAlone'
  BY <1>1, <1>2 DEF TakeReadTicket, Places, TryWriterAlone, Goto, Locations,
                    HoldersL, WritersL
<1>7. Places'
  BY <1>1, <1>2, <1>3, <1>6 DEF TakeReadTicket, Places, Goto
<1> QED
  BY <1>5, <1>7, IInvParts, PTL

\* releaseRead().
LEMMA ReleaseReadIInv ==
  ASSUME IInv, NEW t \in Tasks, ReleaseRead(t)
  PROVE  IInv'
<1>1. Numbers /\ Places /\ TypeOK
  BY IInvParts DEF IInv
<1>2. Goto(t, "reading", "idle")
  BY DEF ReleaseRead
<1>3. "idle" \in Locations
  BY DEF Locations
<1>4. /\ NReading' = NReading - 1 /\ NReaders' = NReaders - 1
      /\ NHolders' = NHolders /\ NWriters' = NWriters
  BY <1>1, <1>2, <1>3, CountsMove, CountsType
     DEF Indicator, ReadingL, ReadersL, HoldersL, WritersL
<1>5. NReading > 0 /\ NReaders > 0
  BY <1>2, CountPositive DEF Goto, ReadingL, ReadersL
<1>6. Numbers'
  BY <1>1, <1>4, <1>5, CountsType
     DEF ReleaseRead, counters, grantWriteTickets,
         Numbers, NoLostGrant, GrantedToActive, TicketsExclude
<1>7. TryWriterAlone'
  BY <1>1, <1>2, TasksAssumption
     DEF ReleaseRead, grantWriteTickets, Places, TryWriterAlone, Goto
<1>8. Places'
  BY <1>1, <1>2, <1>3, <1>7, TasksAssumption
     DEF ReleaseRead, grantWriteTickets, Places, Goto
<1> QED
  BY <1>6, <1>8, IInvParts, PTL

\* acquireWrite() declares the writer.
LEMMA BeginWriteIInv ==
  ASSUME IInv, NEW t \in Tasks, BeginWrite(t)
  PROVE  IInv'
<1>1. Numbers /\ Places /\ TypeOK
  BY IInvParts DEF IInv
<1>2. Goto(t, "idle", "awaitWriteTicket")
  BY DEF BeginWrite
<1>3. "awaitWriteTicket" \in Locations
  BY DEF Locations
<1>4. /\ NReading' = NReading /\ NReaders' = NReaders
      /\ NHolders' = NHolders /\ NWriters' = NWriters + 1
  BY <1>1, <1>2, <1>3, CountsMove, CountsType
     DEF Indicator, ReadingL, ReadersL, HoldersL, WritersL
<1>5. Numbers'
  BY <1>1, <1>2, <1>4, CountsType
     DEF BeginWrite, counters, DeclareWriter, grantWriteTickets,
         Numbers, NoLostGrant, GrantedToActive, TicketsExclude
<1>6. TryWriterAlone'
  BY <1>1, <1>2, TasksAssumption
     DEF BeginWrite, DeclareWriter, grantWriteTickets, Places, TryWriterAlone,
         Goto
<1>7. Places'
  BY <1>1, <1>2, <1>3, <1>6, TasksAssumption
     DEF BeginWrite, DeclareWriter, grantWriteTickets, Places, Goto
<1> QED
  BY <1>5, <1>7, IInvParts, PTL

\* mWriteSem.acquire().
LEMMA TakeWriteTicketIInv ==
  ASSUME IInv, NEW t \in Tasks, TakeWriteTicket(t)
  PROVE  IInv'
<1>1. Numbers /\ Places /\ TypeOK
  BY IInvParts DEF IInv
<1>2. Goto(t, "awaitWriteTicket", "awaitExcl")
  BY DEF TakeWriteTicket
<1>3. "awaitExcl" \in Locations
  BY DEF Locations
<1>4. /\ NReading' = NReading /\ NReaders' = NReaders
      /\ NHolders' = NHolders + 1 /\ NWriters' = NWriters
  BY <1>1, <1>2, <1>3, CountsMove, CountsType
     DEF Indicator, ReadingL, ReadersL, HoldersL, WritersL
<1>5. Numbers'
  BY <1>1, <1>2, <1>4, CountsType
     DEF TakeWriteTicket, counters,
         Numbers, NoLostGrant, GrantedToActive, TicketsExclude
<1>6. TryWriterAlone'
  BY <1>1, <1>2
     DEF TakeWriteTicket, Places, TryWriterAlone, Goto,
         Locations, HoldersL, WritersL
<1>7. Places'
  BY <1>1, <1>2, <1>3, <1>6, TasksAssumption
     DEF TakeWriteTicket, Places, Goto
<1> QED
  BY <1>5, <1>7, IInvParts, PTL

\* doAcquireExclWrite(FALSE).
LEMMA TakeExclIInv ==
  ASSUME IInv, NEW t \in Tasks, TakeExcl(t)
  PROVE  IInv'
<1>1. Numbers /\ Places /\ TypeOK
  BY IInvParts DEF IInv
<1>2. Goto(t, "awaitExcl", "writing")
  BY DEF TakeExcl
<1>3. "writing" \in Locations
  BY DEF Locations
<1>4. /\ NReading' = NReading /\ NReaders' = NReaders
      /\ NHolders' = NHolders /\ NWriters' = NWriters
  BY <1>1, <1>2, <1>3, CountsMove, CountsType
     DEF Indicator, ReadingL, ReadersL, HoldersL, WritersL
<1>5. Numbers'
  BY <1>1, <1>2, <1>4, CountsType
     DEF TakeExcl, counters,
         Numbers, NoLostGrant, GrantedToActive, TicketsExclude
<1>6. TryWriterAlone'
  BY <1>1, <1>2
     DEF TakeExcl, Places, TryWriterAlone, Goto,
         Locations, HoldersL, WritersL
<1>7. Places'
  BY <1>1, <1>2, <1>3, <1>6, TasksAssumption
     DEF TakeExcl, Places, Goto
<1> QED
  BY <1>5, <1>7, IInvParts, PTL

\* tryAcquireWrite() declares the writer and keeps mGuard.
LEMMA TryBeginWriteIInv ==
  ASSUME IInv, NEW t \in Tasks, TryBeginWrite(t)
  PROVE  IInv'
<1>1. Numbers /\ Places /\ TypeOK
  BY IInvParts DEF IInv
<1>2. Goto(t, "idle", "tryWriteTicket")
  BY DEF TryBeginWrite
<1>3. "tryWriteTicket" \in Locations
  BY DEF Locations
<1>4. /\ NReading' = NReading /\ NReaders' = NReaders
      /\ NHolders' = NHolders /\ NWriters' = NWriters + 1
  BY <1>1, <1>2, <1>3, CountsMove, CountsType
     DEF Indicator, ReadingL, ReadersL, HoldersL, WritersL
<1>5. Numbers'
  BY <1>1, <1>2, <1>4, CountsType
     DEF TryBeginWrite, counters, DeclareWriter, grantWriteTickets,
         Numbers, NoLostGrant, GrantedToActive, TicketsExclude
<1>6. TryWriterAlone'
  <2>1. /\ mActiveWritersCnt = 0 /\ NWriters = 0 /\ mWriteSem = 0
        /\ mRunningReadersCnt = 0 /\ mRunningWritersCnt = 0
    BY <1>1, CountsType DEF TryBeginWrite, Numbers, NoLostGrant
  <2>2. \A u \in Tasks : pc[u] \notin WritersL
    BY <2>1, CountPositive
  <2>3. mWriteSem' = 1 /\ mGuard' = t
    BY <2>1 DEF TryBeginWrite, DeclareWriter, grantWriteTickets
  <2>4. \A u \in Tasks : pc'[u] \in WritersL => u = t
    BY <1>1, <1>2, <2>2 DEF Places, Goto
  <2> QED
    BY <2>3, <2>4 DEF TryWriterAlone, WritersL
<1>7. Places'
  BY <1>1, <1>2, <1>3, <1>6, TasksAssumption
     DEF TryBeginWrite, DeclareWriter, grantWriteTickets, Places, Goto
<1> QED
  BY <1>5, <1>7, IInvParts, PTL

\* tryAcquireWrite() takes its ticket, which is there.
LEMMA TryTakeWriteTicketIInv ==
  ASSUME IInv, NEW t \in Tasks, TryTakeWriteTicket(t)
  PROVE  IInv'
<1>1. Numbers /\ Places /\ TypeOK
  BY IInvParts DEF IInv
<1>2. mWriteSem > 0 /\ Goto(t, "tryWriteTicket", "tryExcl")
  BY <1>1 DEF TryTakeWriteTicket, Places, TryWriterAlone, Goto
<1>3. "tryExcl" \in Locations
  BY DEF Locations
<1>4. /\ NReading' = NReading /\ NReaders' = NReaders
      /\ NHolders' = NHolders + 1 /\ NWriters' = NWriters
  BY <1>1, <1>2, <1>3, CountsMove, CountsType
     DEF Indicator, ReadingL, ReadersL, HoldersL, WritersL
<1>5. Numbers'
  BY <1>1, <1>2, <1>4, CountsType
     DEF TryTakeWriteTicket, counters, GiveUpWriteTicket,
         Numbers, NoLostGrant, GrantedToActive, TicketsExclude
<1>6. TryWriterAlone'
  BY <1>1, <1>2
     DEF TryTakeWriteTicket, GiveUpWriteTicket, Places, TryWriterAlone, Goto,
         Locations, HoldersL, WritersL
<1>7. Places'
  BY <1>1, <1>2, <1>3, <1>6, TasksAssumption
     DEF TryTakeWriteTicket, GiveUpWriteTicket, Places, Goto
<1> QED
  BY <1>5, <1>7, IInvParts, PTL

\* doAcquireExclWrite(TRUE).
LEMMA TryTakeExclIInv ==
  ASSUME IInv, NEW t \in Tasks, TryTakeExcl(t)
  PROVE  IInv'
<1>1. Numbers /\ Places /\ TypeOK
  BY IInvParts DEF IInv
<1>2. Goto(t, "tryExcl", "writing")
  BY DEF TryTakeExcl
<1>3. "writing" \in Locations
  BY DEF Locations
<1>4. /\ NReading' = NReading /\ NReaders' = NReaders
      /\ NHolders' = NHolders /\ NWriters' = NWriters
  BY <1>1, <1>2, <1>3, CountsMove, CountsType
     DEF Indicator, ReadingL, ReadersL, HoldersL, WritersL
<1>5. Numbers'
  BY <1>1, <1>2, <1>4, CountsType
     DEF TryTakeExcl, counters,
         Numbers, NoLostGrant, GrantedToActive, TicketsExclude
<1>6. TryWriterAlone'
  BY <1>1, <1>2
     DEF TryTakeExcl, Places, TryWriterAlone, Goto,
         Locations, HoldersL, WritersL
<1>7. Places'
  BY <1>1, <1>2, <1>3, <1>6, TasksAssumption
     DEF TryTakeExcl, Places, Goto
<1> QED
  BY <1>5, <1>7, IInvParts, PTL

\* releaseWrite() releases mWriteExclSem.
LEMMA ReleaseExclIInv ==
  ASSUME IInv, NEW t \in Tasks, ReleaseExcl(t)
  PROVE  IInv'
<1>1. Numbers /\ Places /\ TypeOK
  BY IInvParts DEF IInv
<1>2. Goto(t, "writing", "releasedExcl")
  BY DEF ReleaseExcl
<1>3. "releasedExcl" \in Locations
  BY DEF Locations
<1>4. /\ NReading' = NReading /\ NReaders' = NReaders
      /\ NHolders' = NHolders /\ NWriters' = NWriters
  BY <1>1, <1>2, <1>3, CountsMove, CountsType
     DEF Indicator, ReadingL, ReadersL, HoldersL, WritersL
<1>5. Numbers'
  BY <1>1, <1>2, <1>4, CountsType
     DEF ReleaseExcl, counters,
         Numbers, NoLostGrant, GrantedToActive, TicketsExclude
<1>6. TryWriterAlone'
  BY <1>1, <1>2
     DEF ReleaseExcl, Places, TryWriterAlone, Goto,
         Locations, HoldersL, WritersL
<1>7. Places'
  BY <1>1, <1>2, <1>3, <1>6, TasksAssumption
     DEF ReleaseExcl, Places, Goto
<1> QED
  BY <1>5, <1>7, IInvParts, PTL

\* doReleaseNonExclWrite(FALSE).
LEMMA ReleaseWriteTicketIInv ==
  ASSUME IInv, NEW t \in Tasks, ReleaseWriteTicket(t)
  PROVE  IInv'
<1>1. Numbers /\ Places /\ TypeOK
  BY IInvParts DEF IInv
<1>2. Goto(t, "releasedExcl", "idle")
  BY DEF ReleaseWriteTicket
<1>3. "idle" \in Locations
  BY DEF Locations
<1>4. /\ NReading' = NReading /\ NReaders' = NReaders
      /\ NHolders' = NHolders - 1 /\ NWriters' = NWriters - 1
  BY <1>1, <1>2, <1>3, CountsMove, CountsType
     DEF Indicator, ReadingL, ReadersL, HoldersL, WritersL
<1>5. NHolders > 0 /\ NWriters > 0
  BY <1>2, CountPositive DEF Goto, HoldersL, WritersL
<1>6. Numbers'
  BY <1>1, <1>4, <1>5, CountsType
     DEF ReleaseWriteTicket, counters, GiveUpWriteTicket, grantReadTickets,
         Numbers, NoLostGrant, GrantedToActive, TicketsExclude
<1>7. TryWriterAlone'
  BY <1>1, <1>2
     DEF ReleaseWriteTicket, GiveUpWriteTicket, grantReadTickets, Places, TryWriterAlone, Goto,
         Locations, HoldersL, WritersL
<1>8. Places'
  BY <1>1, <1>2, <1>3, <1>7, TasksAssumption
     DEF ReleaseWriteTicket, GiveUpWriteTicket, grantReadTickets, Places, Goto
<1> QED
  BY <1>6, <1>8, IInvParts, PTL

\* One step of anybody, or of the environment.
LEMMA NextIInv == IInv /\ [Next]_vars => IInv'
<1> SUFFICES ASSUME IInv, [Next]_vars PROVE IInv'
  OBVIOUS
<1>1. CASE UNCHANGED vars
  BY <1>1 DEF vars, counters, IInv, TypeOK, TicketsConserved, NoLostGrant,
       GrantedToActive, TicketsExclude, TryWriterAlone, Reading, ReadWaiters,
       TicketHolders, WriteWaiters, At
<1>2. CASE Next
  <2>1. PICK t \in Tasks :
          \/ BeginRead(t)     \/ TryBeginRead(t)       \/ TakeReadTicket(t)
          \/ ReleaseRead(t)
          \/ BeginWrite(t)    \/ TakeWriteTicket(t)    \/ TakeExcl(t)
          \/ TryBeginWrite(t) \/ TryTakeWriteTicket(t) \/ TryTakeExcl(t)
          \/ ReleaseExcl(t)   \/ ReleaseWriteTicket(t)
    BY <1>2 DEF Next
  <2> QED
    BY <2>1, BeginReadIInv, TryBeginReadIInv, TakeReadTicketIInv,
       ReleaseReadIInv, BeginWriteIInv, TakeWriteTicketIInv, TakeExclIInv,
       TryBeginWriteIInv, TryTakeWriteTicketIInv, TryTakeExclIInv,
       ReleaseExclIInv, ReleaseWriteTicketIInv
<1> QED
  BY <1>1, <1>2

\* The invariant holds of every behaviour of the lock.
THEOREM Invariance == Spec => []IInv
BY InitIInv, NextIInv, PTL DEF Spec

-----------------------------------------------------------------------------
(* What it implies.                                                        *)

\* The counters and semaphores are never negative and nobody is lost in a call.
THEOREM TypeCorrect == Spec => []TypeOK
BY Invariance, PTL DEF IInv

\* No wake-up is lost: the two grant loops run whenever they could grant.
THEOREM NoWakeUpLost == Spec => []NoLostGrant
BY Invariance, PTL DEF IInv

\* Every ticket is in a semaphore or in somebody's hands.
THEOREM TicketsAccounted == Spec => []TicketsConserved
BY Invariance, PTL DEF IInv

\* The error branch of tryAcquireWrite() is dead code.
THEOREM ErrorBranchDead == Spec => []TryWriteFindsTicket
<1>1. IInv => TryWriteFindsTicket
  BY DEF IInv, TryWriterAlone, TryWriteFindsTicket, At
<1> QED
  BY <1>1, Invariance, PTL

\* Readers are let in only when no writer is active.
THEOREM WritersPreferred == Spec => WriterPreference
<1>1. ASSUME IInv, [Next]_vars, mActiveWritersCnt > 0, mActiveWritersCnt' > 0
      PROVE  mRunningReadersCnt' <= mRunningReadersCnt
  <2> USE <1>1 DEF IInv, TypeOK, GrantedToActive
  <2>1. CASE UNCHANGED vars
    BY <2>1 DEF vars, counters
  <2>2. ASSUME NEW t \in Tasks, BeginRead(t) \/ TryBeginRead(t)
        PROVE  mRunningReadersCnt' <= mRunningReadersCnt
    BY <2>2 DEF BeginRead, TryBeginRead, DeclareReader, grantReadTickets
  <2>3. ASSUME NEW t \in Tasks, BeginWrite(t) \/ TryBeginWrite(t)
        PROVE  mRunningReadersCnt' <= mRunningReadersCnt
    BY <2>3 DEF BeginWrite, TryBeginWrite, DeclareWriter
  <2>4. ASSUME NEW t \in Tasks, ReleaseRead(t)
        PROVE  mRunningReadersCnt' <= mRunningReadersCnt
    BY <2>4 DEF ReleaseRead
  <2>5. ASSUME NEW t \in Tasks, TryTakeWriteTicket(t) \/ ReleaseWriteTicket(t)
        PROVE  mRunningReadersCnt' <= mRunningReadersCnt
    BY <2>5 DEF TryTakeWriteTicket, ReleaseWriteTicket, GiveUpWriteTicket,
                grantReadTickets, counters
  <2>6. ASSUME NEW t \in Tasks,
               \/ TakeReadTicket(t) \/ TakeWriteTicket(t) \/ TakeExcl(t)
               \/ TryTakeExcl(t)    \/ ReleaseExcl(t)
        PROVE  mRunningReadersCnt' <= mRunningReadersCnt
    BY <2>6 DEF TakeReadTicket, TakeWriteTicket, TakeExcl, TryTakeExcl,
                ReleaseExcl, counters
  <2> QED
    BY <2>1, <2>2, <2>3, <2>4, <2>5, <2>6 DEF Next
<1> QED
  BY <1>1, Invariance, PTL DEF Spec, WriterPreference

\* Readers and writers never hold the lock together, however they acquired it:
\* a reader holds a read ticket, a writer a write ticket, and tickets of the two
\* kinds are never out together.
THEOREM Exclusion == Spec => []ReadersExcludeWriters
<1>1. IInv => ReadersExcludeWriters
  <2> SUFFICES ASSUME IInv, NEW r \in Reading, NEW w \in Writing
               PROVE  FALSE
    BY DEF ReadersExcludeWriters
  <2>1. r \in Tasks /\ pc[r] \in ReadingL /\ w \in Tasks /\ pc[w] \in HoldersL
    BY DEF Reading, Writing, At, ReadingL, HoldersL
  <2>2. NReading > 0 /\ NHolders > 0
    BY <2>1, CountPositive
  <2> QED
    BY <2>2, CountsType, IInvParts DEF Numbers, TicketsExclude
<1> QED
  BY <1>1, Invariance, PTL

-----------------------------------------------------------------------------
(* Writers exclude each other as long as nobody calls tryAcquireWrite().    *)

\* With mWriteExclSem available nobody writes, and at most one task does.
ExclInv ==
  /\ TypeOK
  /\ \A t \in Tasks : pc[t] \notin {"tryWriteTicket", "tryExcl"}
  /\ mWriteExclSem = 1 => Writing = {}
  /\ \A t, u \in Writing : t = u

\* Only one writer at a time, when there are no conditional writers.
THEOREM WritersExclude ==
  ASSUME TryWriters = {}
  PROVE  Spec => []WritersExclusive
<1>1. Init => ExclInv
  <2> SUFFICES ASSUME Init PROVE ExclInv
    OBVIOUS
  <2>1. TypeOK
    BY InitIInv DEF IInv
  <2> QED
    BY <2>1 DEF Init, ExclInv, Writing, At
<1>2. ExclInv /\ TypeOK' /\ [Next]_vars => ExclInv'
  <2> SUFFICES ASSUME ExclInv, TypeOK', [Next]_vars PROVE ExclInv'
    OBVIOUS
  <2> USE DEF ExclInv, TypeOK, Writing, At
  <2>1. CASE UNCHANGED vars
    BY <2>1 DEF vars
  <2>2. ASSUME NEW t \in Tasks,
               BeginRead(t) \/ TryBeginRead(t) \/ ReleaseRead(t)
        PROVE  ExclInv'
    BY <2>2 DEF BeginRead, TryBeginRead, ReleaseRead, DeclareReader, Goto
  <2>3. ASSUME NEW t \in Tasks, TakeReadTicket(t)
        PROVE  ExclInv'
    BY <2>3 DEF TakeReadTicket, Goto
  <2>4. ASSUME NEW t \in Tasks,
               BeginWrite(t) \/ TakeWriteTicket(t) \/ ReleaseWriteTicket(t)
        PROVE  ExclInv'
    BY <2>4 DEF BeginWrite, TakeWriteTicket, ReleaseWriteTicket, DeclareWriter,
                GiveUpWriteTicket, Goto
  <2>5. ASSUME NEW t \in Tasks, TakeExcl(t)
        PROVE  ExclInv'
    BY <2>5 DEF TakeExcl, Goto
  <2>6. ASSUME NEW t \in Tasks, ReleaseExcl(t)
        PROVE  ExclInv'
    BY <2>6 DEF ReleaseExcl, Goto
  <2>7. ASSUME NEW t \in Tasks,
               TryBeginWrite(t) \/ TryTakeWriteTicket(t) \/ TryTakeExcl(t)
        PROVE  FALSE
    BY <2>7, TryWriters = {}
       DEF TryBeginWrite, TryTakeWriteTicket, TryTakeExcl, Goto
  <2> QED
    BY <2>1, <2>2, <2>3, <2>4, <2>5, <2>6, <2>7 DEF Next
<1>3. ExclInv => WritersExclusive
  <2> SUFFICES ASSUME ExclInv PROVE Cardinality(Writing) <= 1
    BY DEF WritersExclusive
  <2>1. CASE Writing = {}
    BY <2>1, FS_EmptySet
  <2>2. CASE Writing # {}
    <3>1. PICK w \in Writing : Writing = {w}
      BY <2>2 DEF ExclInv
    <3>2. Cardinality({w}) = 1
      BY FS_Singleton
    <3> QED
      BY <3>1, <3>2
  <2> QED
    BY <2>1, <2>2
<1> QED
  BY <1>1, <1>2, <1>3, TypeCorrect, PTL DEF Spec
=============================================================================
