--------------------------- MODULE OsRWMutexShared ---------------------------
(***************************************************************************)
(* The reader/writer lock of sipXportLib, src/os/shared/OsRWMutexShared.   *)
(*                                                                         *)
(* The lock is built from two binary semaphores (mGuard, mWriteExclSem)    *)
(* and two counting semaphores (mReadSem, mWriteSem) that carry tickets.   *)
(* A task first declares itself active, under mGuard; a ticket is granted  *)
(* to every active reader while no writer is active, and to every active   *)
(* writer while no reader runs.                                            *)
(*                                                                         *)
(* Everything done between mGuard.acquire() and mGuard.release() is one    *)
(* step here, except in the conditional writer, which also takes mWriteSem *)
(* there (a task that waits on mWriteSem can run in between).              *)
(*                                                                         *)
(* Definitions whose name ends in _x are not the code: each is a plausible *)
(* mistake in the definition that follows it, kept to show that the        *)
(* properties would notice it.                                             *)
(***************************************************************************)
EXTENDS Integers, FiniteSets

CONSTANTS
  Tasks,             \* the tasks that share the lock
  TryWriters,        \* those of them that may call tryAcquireWrite()
  SEMAPHORE_CNT_MAX, \* upper bound of both ticket semaphores
  NoTask             \* mGuard is free

ASSUME TasksAssumption ==
  /\ IsFiniteSet(Tasks)
  /\ TryWriters \subseteq Tasks
  /\ NoTask \notin Tasks

\* "upper bound on the number of simultaneous readers or writers"
ASSUME CountAssumption ==
  /\ SEMAPHORE_CNT_MAX \in Nat
  /\ Cardinality(Tasks) <= SEMAPHORE_CNT_MAX

VARIABLES
  mGuard,              \* the task inside the critical section, or NoTask
  mReadSem,            \* read tickets that nobody has taken yet
  mWriteSem,           \* write tickets that nobody has taken yet
  mWriteExclSem,       \* 1 when the exclusive write semaphore is available
  mActiveReadersCnt,
  mActiveWritersCnt,
  mRunningReadersCnt,
  mRunningWritersCnt,
  pc                   \* where each task is

counters == <<mActiveReadersCnt, mActiveWritersCnt,
              mRunningReadersCnt, mRunningWritersCnt>>
vars == <<mGuard, mReadSem, mWriteSem, mWriteExclSem, counters, pc>>

-----------------------------------------------------------------------------
\* Tasks by what they wait for, or hold.
At(l)         == {t \in Tasks : pc[t] = l}
ReadWaiters   == At("awaitReadTicket") \cup At("tryReadTicket")
Reading       == At("reading")            \* acquire(Read) returned OS_SUCCESS
WriteWaiters  == At("awaitWriteTicket") \cup At("tryWriteTicket")
TicketHolders == At("awaitExcl") \cup At("tryExcl") \cup At("writing")
                   \cup At("releasedExcl")
Writing       == At("writing")            \* acquireWrite() returned OS_SUCCESS

Init ==
  /\ mGuard = NoTask
  /\ mReadSem = 0
  /\ mWriteSem = 0
  /\ mWriteExclSem = 1
  /\ mActiveReadersCnt = 0
  /\ mActiveWritersCnt = 0
  /\ mRunningReadersCnt = 0
  /\ mRunningWritersCnt = 0
  /\ pc = [t \in Tasks |-> "idle"]

Goto(t, from, to) ==
  /\ pc[t] = from
  /\ pc' = [pc EXCEPT ![t] = to]

-----------------------------------------------------------------------------
(* The two grant loops; each argument is the value a counter has when the  *)
(* loop starts, each loop runs until running = active.                     *)

\* Readers are let in past a waiting writer.
grantReadTickets_x(activeR, runningR, activeW) ==
  IF runningR < activeR
  THEN /\ mRunningReadersCnt' = activeR
       /\ mReadSem' = mReadSem + (activeR - runningR)
  ELSE /\ mRunningReadersCnt' = runningR
       /\ UNCHANGED mReadSem

\* One post for all of them.
grantReadTickets_once_x(activeR, runningR, activeW) ==
  IF activeW = 0 /\ runningR < activeR
  THEN /\ mRunningReadersCnt' = activeR
       /\ mReadSem' = mReadSem + 1
  ELSE /\ mRunningReadersCnt' = runningR
       /\ UNCHANGED mReadSem

grantReadTickets(activeR, runningR, activeW) ==
  IF activeW = 0 /\ runningR < activeR
  THEN /\ mRunningReadersCnt' = activeR
       /\ mReadSem' = mReadSem + (activeR - runningR)
  ELSE /\ mRunningReadersCnt' = runningR
       /\ UNCHANGED mReadSem

\* One ticket only.
grantWriteTickets_x(activeW, runningW, runningR) ==
  IF runningR = 0 /\ runningW < activeW
  THEN /\ mRunningWritersCnt' = runningW + 1
       /\ mWriteSem' = mWriteSem + 1
  ELSE /\ mRunningWritersCnt' = runningW
       /\ UNCHANGED mWriteSem

grantWriteTickets(activeW, runningW, runningR) ==
  IF runningR = 0 /\ runningW < activeW
  THEN /\ mRunningWritersCnt' = activeW
       /\ mWriteSem' = mWriteSem + (activeW - runningW)
  ELSE /\ mRunningWritersCnt' = runningW
       /\ UNCHANGED mWriteSem

-----------------------------------------------------------------------------
(* Reading.                                                                *)

\* The reader gets its ticket without being counted.
DeclareReader_x ==
  /\ mGuard = NoTask
  /\ grantReadTickets(mActiveReadersCnt + 1, mRunningReadersCnt,
                      mActiveWritersCnt)
  /\ UNCHANGED <<mGuard, mWriteSem, mWriteExclSem, mActiveReadersCnt,
                 mActiveWritersCnt, mRunningWritersCnt>>

DeclareReader ==
  /\ mGuard = NoTask
  /\ mActiveReadersCnt' = mActiveReadersCnt + 1
  /\ grantReadTickets(mActiveReadersCnt + 1, mRunningReadersCnt,
                      mActiveWritersCnt)
  /\ UNCHANGED <<mGuard, mWriteSem, mWriteExclSem, mActiveWritersCnt,
                 mRunningWritersCnt>>

\* acquireRead()
BeginRead(t) ==
  /\ Goto(t, "idle", "awaitReadTicket")
  /\ DeclareReader

\* tryAcquireRead(): while writers are active it is OS_BUSY and changes nothing.
TryBeginRead(t) ==
  /\ mActiveWritersCnt = 0
  /\ Goto(t, "idle", "tryReadTicket")
  /\ DeclareReader

\* mReadSem.acquire(), outside mGuard: any waiting reader may take any ticket.
TakeReadTicket(t) ==
  /\ mReadSem > 0
  /\ Goto(t, "awaitReadTicket", "reading") \/ Goto(t, "tryReadTicket", "reading")
  /\ mReadSem' = mReadSem - 1
  /\ UNCHANGED <<mGuard, mWriteSem, mWriteExclSem, counters>>

\* releaseRead()
ReleaseRead(t) ==
  /\ mGuard = NoTask
  /\ Goto(t, "reading", "idle")
  /\ mActiveReadersCnt' = mActiveReadersCnt - 1
  /\ mRunningReadersCnt' = mRunningReadersCnt - 1
  /\ grantWriteTickets(mActiveWritersCnt, mRunningWritersCnt,
                       mRunningReadersCnt - 1)
  /\ UNCHANGED <<mGuard, mReadSem, mWriteExclSem, mActiveWritersCnt>>

-----------------------------------------------------------------------------
(* Writing.                                                                *)

DeclareWriter ==
  /\ mGuard = NoTask
  /\ mActiveWritersCnt' = mActiveWritersCnt + 1
  /\ grantWriteTickets(mActiveWritersCnt + 1, mRunningWritersCnt,
                       mRunningReadersCnt)
  /\ UNCHANGED <<mReadSem, mWriteExclSem, mActiveReadersCnt,
                 mRunningReadersCnt>>

\* The body of doReleaseNonExclWrite().
GiveUpWriteTicket ==
  /\ mActiveWritersCnt' = mActiveWritersCnt - 1
  /\ mRunningWritersCnt' = mRunningWritersCnt - 1
  /\ grantReadTickets(mActiveReadersCnt, mRunningReadersCnt,
                      mActiveWritersCnt - 1)
  /\ UNCHANGED <<mWriteSem, mWriteExclSem, mActiveReadersCnt>>

\* acquireWrite()
BeginWrite(t) ==
  /\ Goto(t, "idle", "awaitWriteTicket")
  /\ DeclareWriter
  /\ UNCHANGED mGuard

\* mWriteSem.acquire(), outside mGuard
TakeWriteTicket(t) ==
  /\ mWriteSem > 0
  /\ Goto(t, "awaitWriteTicket", "awaitExcl")
  /\ mWriteSem' = mWriteSem - 1
  /\ UNCHANGED <<mGuard, mReadSem, mWriteExclSem, counters>>

\* doAcquireExclWrite(FALSE)
TakeExcl(t) ==
  /\ mWriteExclSem = 1
  /\ Goto(t, "awaitExcl", "writing")
  /\ mWriteExclSem' = 0
  /\ UNCHANGED <<mGuard, mReadSem, mWriteSem, counters>>

\* tryAcquireWrite(): while anybody runs it is OS_BUSY and changes nothing;
\* otherwise mGuard is kept until the ticket has been tried.
TryBeginWrite(t) ==
  /\ t \in TryWriters
  /\ mRunningReadersCnt = 0
  /\ mRunningWritersCnt = 0
  /\ Goto(t, "idle", "tryWriteTicket")
  /\ DeclareWriter
  /\ mGuard' = t

\* mWriteSem.tryAcquire() and mGuard.release(); without a ticket the writer is
\* withdrawn again and the caller gets OS_BUSY.
TryTakeWriteTicket(t) ==
  /\ mGuard' = NoTask
  /\ IF mWriteSem > 0
     THEN /\ Goto(t, "tryWriteTicket", "tryExcl")
          /\ mWriteSem' = mWriteSem - 1
          /\ UNCHANGED <<mReadSem, mWriteExclSem, counters>>
     ELSE /\ Goto(t, "tryWriteTicket", "idle")
          /\ GiveUpWriteTicket

\* doAcquireExclWrite(TRUE): mWriteExclSem.tryAcquire() may say OS_BUSY, but the
\* function returns OS_SUCCESS whatever it says, and so does tryAcquireWrite().
TryTakeExcl(t) ==
  /\ Goto(t, "tryExcl", "writing")
  /\ mWriteExclSem' = 0
  /\ UNCHANGED <<mGuard, mReadSem, mWriteSem, counters>>

\* releaseWrite(): first mWriteExclSem (binary: it never exceeds 1) ...
ReleaseExcl(t) ==
  /\ Goto(t, "writing", "releasedExcl")
  /\ mWriteExclSem' = 1
  /\ UNCHANGED <<mGuard, mReadSem, mWriteSem, counters>>

\* ... then doReleaseNonExclWrite(FALSE).
ReleaseWriteTicket(t) ==
  /\ mGuard = NoTask
  /\ Goto(t, "releasedExcl", "idle")
  /\ GiveUpWriteTicket
  /\ UNCHANGED mGuard

-----------------------------------------------------------------------------
Next ==
  \E t \in Tasks :
    \/ BeginRead(t)       \/ TryBeginRead(t)  \/ TakeReadTicket(t)
    \/ ReleaseRead(t)
    \/ BeginWrite(t)      \/ TakeWriteTicket(t) \/ TakeExcl(t)
    \/ TryBeginWrite(t)   \/ TryTakeWriteTicket(t) \/ TryTakeExcl(t)
    \/ ReleaseExcl(t)     \/ ReleaseWriteTicket(t)

Spec == Init /\ [][Next]_vars

(* Scheduling: a task inside a call goes on while it can, and whoever holds *)
(* the lock releases it. Nobody is obliged to ask for it. The semaphores    *)
(* are counts with a broadcast (pt_csem.c; their queue options are not      *)
(* used), so a waiter that was woken competes with whoever comes: weak      *)
(* fairness is all there is. mGuard, held for a few lines, is entered in    *)
(* the end.                                                                 *)
Fairness ==
  \A t \in Tasks :
    /\ WF_vars(TakeReadTicket(t))     /\ WF_vars(ReleaseRead(t))
    /\ WF_vars(TakeWriteTicket(t))    /\ WF_vars(TakeExcl(t))
    /\ WF_vars(TryTakeWriteTicket(t)) /\ WF_vars(TryTakeExcl(t))
    /\ WF_vars(ReleaseExcl(t))        /\ WF_vars(ReleaseWriteTicket(t))

FairSpec == Spec /\ Fairness

-----------------------------------------------------------------------------
(* Properties.                                                             *)

Locations == {"idle", "awaitReadTicket", "tryReadTicket", "reading",
              "awaitWriteTicket", "tryWriteTicket", "awaitExcl", "tryExcl",
              "writing", "releasedExcl"}

\* The counters are never negative and nobody is lost in a call.
TypeOK ==
  /\ mGuard \in Tasks \cup {NoTask}
  /\ {mReadSem, mWriteSem} \subseteq Nat
  /\ mWriteExclSem \in {0, 1}
  /\ {mActiveReadersCnt, mActiveWritersCnt} \subseteq Nat
  /\ {mRunningReadersCnt, mRunningWritersCnt} \subseteq Nat
  /\ pc \in [Tasks -> Locations]

\* Readers and a writer never hold the lock together, whichever of the four
\* acquire functions they used (class comment: "no readers").
ReadersExcludeWriters == Reading = {} \/ Writing = {}

\* Only one writer at a time. True of acquireWrite(); see TryTakeExcl for what
\* tryAcquireWrite() does to it.
WritersExclusive == Cardinality(Writing) <= 1

\* No wake-up is lost: with no active writer every active reader has been
\* granted its ticket, and with no running reader every active writer has.
NoLostGrant ==
  /\ mActiveWritersCnt = 0 => mRunningReadersCnt = mActiveReadersCnt
  /\ mRunningReadersCnt = 0 => mRunningWritersCnt = mActiveWritersCnt

\* The tickets that were granted are in the semaphore or in somebody's hands.
TicketsConserved ==
  /\ mRunningReadersCnt = mReadSem + Cardinality(Reading)
  /\ mRunningWritersCnt = mWriteSem + Cardinality(TicketHolders)
  /\ mActiveReadersCnt = Cardinality(ReadWaiters \cup Reading)
  /\ mActiveWritersCnt = Cardinality(WriteWaiters \cup TicketHolders)

\* The error branch of tryAcquireWrite() (mWriteSem.tryAcquire() says OS_BUSY
\* after the lock was seen free) is never taken.
TryWriteFindsTicket == At("tryWriteTicket") # {} => mWriteSem > 0

\* "When a writer is ready to use the resource, it should be enabled to do so
\* as soon as possible": no reader is let in while a writer is active.
WriterPreference ==
  [][mActiveWritersCnt > 0 /\ mActiveWritersCnt' > 0
       => mRunningReadersCnt' <= mRunningReadersCnt]_vars

\* Readers never keep a writer out: one that asked gets its ticket however many
\* readers and writers come, and with the ticket it enters, unless other writers
\* take mWriteExclSem before it again and again.
OnlyWritersDelayWriters ==
  \A t \in Tasks :
    /\ pc[t] = "awaitWriteTicket" ~> pc[t] = "awaitExcl"
    /\ \/ pc[t] = "awaitExcl" ~> pc[t] = "writing"
       \/ []<>(Writing \ {t} # {})

\* "It should be enabled to do so as soon as possible": a writer that asked gets
\* the lock.  Not so when other writers come for ever, see Fairness.
WriterEnters ==
  \A t \in Tasks : pc[t] = "awaitWriteTicket" ~> pc[t] = "writing"

=============================================================================
