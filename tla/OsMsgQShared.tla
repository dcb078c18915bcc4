---------------------------- MODULE OsMsgQShared ----------------------------
(***************************************************************************)
(* The message queue of every server task, OsMsgQShared of sipXportLib     *)
(* (src/os/shared/OsMsgQShared.cpp).                                       *)
(*                                                                         *)
(* Two counting semaphores admit threads: mEmpty counts the free slots, a  *)
(* sender acquires it; mFull counts the messages, a receiver acquires it.  *)
(* Either is acquired before mGuard, so between its semaphore and mGuard a *)
(* thread owns a slot, or a message, that the list does not show yet.      *)
(* What happens under mGuard is one step, because the threads it could     *)
(* race with have to seize mGuard too.                                     *)
(*                                                                         *)
(* Definitions whose name ends in _x are not the code: each is a plausible *)
(* mistake in the definition that follows it, kept to show that the        *)
(* properties would notice it.                                             *)
(***************************************************************************)
EXTENDS Integers, Sequences, FiniteSets

CONSTANTS
  Threads,
  Senders, Receivers,   \* the threads that send, that receive
  Servers,              \* the receivers that receive for ever, without timeout
  mMaxMsgs,
  Urgent,               \* whether a message may be urgent, a subset of BOOLEAN
  SendHook,             \* whether a send hook is set that may handle a message
  MaxSends,             \* bound: sends of one thread
  NoMsg

ASSUME MsgQAssumption ==
  /\ IsFiniteSet(Threads)
  /\ Senders \subseteq Threads /\ Receivers \subseteq Threads
  /\ Servers \subseteq Receivers
  /\ mMaxMsgs \in Nat \ {0}    \* OsCSem asserts it: pt_sem_init fails for 0
  /\ Urgent \subseteq BOOLEAN
  /\ SendHook \in BOOLEAN
  /\ MaxSends \in Nat
  /\ NoMsg \notin [from : Threads, num : Nat, urgent : BOOLEAN]

VARIABLES
  mDlist,             \* the messages in the queue
  mEmpty, mFull,      \* the counting semaphores
  mNumInsertExitOk, mNumRemoveExitOk,   \* diagnostics: calls that succeeded
  pc,                 \* where each thread is in doSend() or doReceive()
  rMsg,               \* the message a sending thread sends
  timed,              \* whether the thread's call has a finite timeout
  status,             \* what each thread's last call returned
  numSent,            \* the sends each thread has begun
  delivered           \* the messages handed out, in that order

semaphores  == <<mEmpty, mFull>>
diagnostics == <<mNumInsertExitOk, mNumRemoveExitOk>>
vars == <<mDlist, semaphores, diagnostics, pc, rMsg, timed, status, numSent, delivered>>

Messages == [from : Senders, num : 1..MaxSends, urgent : BOOLEAN]

Init ==
  /\ mDlist = <<>>
  /\ mEmpty = mMaxMsgs
  /\ mFull = 0
  /\ mNumInsertExitOk = 0 /\ mNumRemoveExitOk = 0
  /\ pc = [t \in Threads |-> "idle"]
  /\ rMsg = [t \in Threads |-> NoMsg]
  /\ timed = [t \in Threads |-> FALSE]
  /\ status = [t \in Threads |-> "OS_SUCCESS"]
  /\ numSent = [t \in Threads |-> 0]
  /\ delivered = <<>>

Goto(t, place) == pc' = [pc EXCEPT ![t] = place]

Return(t, s) ==
  /\ Goto(t, "idle")
  /\ rMsg' = [rMsg EXCEPT ![t] = NoMsg]
  /\ timed' = [timed EXCEPT ![t] = FALSE]
  /\ status' = [status EXCEPT ![t] = s]

\* The threads between their semaphore and mGuard.
In(place) == {t \in Threads : pc[t] = place}
-----------------------------------------------------------------------------
(* doSend() *)

send(t) ==
  /\ t \in Senders /\ pc[t] = "idle" /\ numSent[t] < MaxSends
  /\ numSent' = [numSent EXCEPT ![t] = @ + 1]
  /\ \E isUrgent \in Urgent, finite \in BOOLEAN :
       /\ rMsg' = [rMsg EXCEPT ![t] = [from |-> t, num |-> numSent'[t], urgent |-> isUrgent]]
       /\ timed' = [timed EXCEPT ![t] = finite]
  /\ Goto(t, "acquireEmpty")
  /\ UNCHANGED <<mDlist, semaphores, diagnostics, status, delivered>>

\* The send hook handles the message: there is nothing to queue.
sendHandledByHook(t) ==
  /\ SendHook
  /\ t \in Senders /\ pc[t] = "idle" /\ numSent[t] < MaxSends
  /\ numSent' = [numSent EXCEPT ![t] = @ + 1]
  /\ mNumInsertExitOk' = mNumInsertExitOk + 1
  /\ Return(t, "OS_SUCCESS")
  /\ UNCHANGED <<mDlist, semaphores, mNumRemoveExitOk, delivered>>

AcquireEmpty(t) ==
  /\ pc[t] = "acquireEmpty"
  /\ mEmpty > 0
  /\ mEmpty' = mEmpty - 1
  /\ Goto(t, "insert")
  /\ UNCHANGED <<mDlist, mFull, diagnostics, rMsg, timed, status, numSent, delivered>>

sendTimesOut(t) ==
  /\ pc[t] = "acquireEmpty" /\ timed[t]
  /\ mEmpty = 0
  /\ Return(t, "OS_WAIT_TIMEOUT")
  /\ UNCHANGED <<mDlist, semaphores, diagnostics, numSent, delivered>>

insertMsg_tail_x(m) == Append(mDlist, m)
insertMsg(m) == IF m.urgent THEN <<m>> \o mDlist ELSE Append(mDlist, m)

\* Under mGuard: the message enters the list and a receiver is signalled.
Insert_x(t) ==
  /\ pc[t] = "insert"
  /\ mDlist' = insertMsg(rMsg[t])
  /\ mFull' = IF Len(mDlist) = 0 THEN mFull + 1 ELSE mFull
  /\ mNumInsertExitOk' = mNumInsertExitOk + 1
  /\ Return(t, "OS_SUCCESS")
  /\ UNCHANGED <<mEmpty, mNumRemoveExitOk, numSent, delivered>>
Insert(t) ==
  /\ pc[t] = "insert"
  /\ mDlist' = insertMsg(rMsg[t])
  /\ mFull' = mFull + 1
  /\ mNumInsertExitOk' = mNumInsertExitOk + 1
  /\ Return(t, "OS_SUCCESS")
  /\ UNCHANGED <<mEmpty, mNumRemoveExitOk, numSent, delivered>>
-----------------------------------------------------------------------------
(* doReceive() *)

receive(t) ==
  /\ t \in Receivers /\ pc[t] = "idle"
  /\ \E finite \in BOOLEAN :
       /\ t \in Servers => ~finite
       /\ timed' = [timed EXCEPT ![t] = finite]
  /\ Goto(t, "acquireFull")
  /\ UNCHANGED <<mDlist, semaphores, diagnostics, rMsg, status, numSent, delivered>>

\* Peeks at the list instead of the semaphore.
AcquireFull_x(t) ==
  /\ pc[t] = "acquireFull"
  /\ mDlist # <<>>
  /\ mFull' = mFull - 1
  /\ Goto(t, "remove")
  /\ UNCHANGED <<mDlist, mEmpty, diagnostics, rMsg, timed, status, numSent, delivered>>
AcquireFull(t) ==
  /\ pc[t] = "acquireFull"
  /\ mFull > 0
  /\ mFull' = mFull - 1
  /\ Goto(t, "remove")
  /\ UNCHANGED <<mDlist, mEmpty, diagnostics, rMsg, timed, status, numSent, delivered>>

\* Gives a slot back for a message that never came.
receiveTimesOut_x(t) ==
  /\ pc[t] = "acquireFull" /\ timed[t]
  /\ mFull = 0
  /\ mEmpty' = mEmpty + 1
  /\ Return(t, "OS_WAIT_TIMEOUT")
  /\ UNCHANGED <<mDlist, mFull, diagnostics, numSent, delivered>>
receiveTimesOut(t) ==
  /\ pc[t] = "acquireFull" /\ timed[t]
  /\ mFull = 0
  /\ Return(t, "OS_WAIT_TIMEOUT")
  /\ UNCHANGED <<mDlist, semaphores, diagnostics, numSent, delivered>>

\* Under mGuard: the head leaves the list and a sender is signalled.
Remove_early_x(t) ==   \* the slot is given back only when the queue was full
  /\ pc[t] = "remove"
  /\ delivered' = Append(delivered, Head(mDlist))
  /\ mDlist' = Tail(mDlist)
  /\ mEmpty' = IF Len(mDlist) = mMaxMsgs THEN mEmpty + 1 ELSE mEmpty
  /\ mNumRemoveExitOk' = mNumRemoveExitOk + 1
  /\ Return(t, "OS_SUCCESS")
  /\ UNCHANGED <<mFull, mNumInsertExitOk, numSent>>
Remove(t) ==
  /\ pc[t] = "remove"
  /\ delivered' = Append(delivered, Head(mDlist))
  /\ mDlist' = Tail(mDlist)
  /\ mEmpty' = mEmpty + 1
  /\ mNumRemoveExitOk' = mNumRemoveExitOk + 1
  /\ Return(t, "OS_SUCCESS")
  /\ UNCHANGED <<mFull, mNumInsertExitOk, numSent>>
-----------------------------------------------------------------------------
doSend(t)    == send(t) \/ sendHandledByHook(t) \/ AcquireEmpty(t) \/ sendTimesOut(t) \/ Insert(t)
doReceive(t) == receive(t) \/ AcquireFull(t) \/ receiveTimesOut(t) \/ Remove(t)

Next == \E t \in Threads : doSend(t) \/ doReceive(t)

Spec == Init /\ [][Next]_vars

\* A thread that can run does, and a server keeps receiving, as the loop of
\* OsServerTask::run() does.  A timeout is not relied upon.
Fairness ==
  /\ \A t \in Threads :
       WF_vars(AcquireEmpty(t) \/ Insert(t) \/ AcquireFull(t) \/ Remove(t))
  /\ \A t \in Servers : WF_vars(receive(t))

FairSpec == Spec /\ Fairness
-----------------------------------------------------------------------------
TypeOK ==
  /\ mDlist \in Seq(Messages)
  /\ mEmpty \in 0..mMaxMsgs /\ mFull \in 0..mMaxMsgs
  /\ mNumInsertExitOk \in Nat /\ mNumRemoveExitOk \in Nat
  /\ pc \in [Threads -> {"idle", "acquireEmpty", "insert", "acquireFull", "remove"}]
  /\ rMsg \in [Threads -> Messages \cup {NoMsg}]
  /\ \A t \in Threads : rMsg[t] # NoMsg <=> pc[t] \in {"acquireEmpty", "insert"}
  /\ timed \in [Threads -> BOOLEAN]
  /\ status \in [Threads -> {"OS_SUCCESS", "OS_WAIT_TIMEOUT"}]
  /\ numSent \in [Threads -> 0..MaxSends]
  /\ delivered \in Seq(Messages)

\* Every slot is free, reserved by a sender on its way to mGuard or filled;
\* every message is in mFull or promised to a receiver on its way to mGuard.
SlotsAccounted ==
  /\ mEmpty + Cardinality(In("insert")) + Len(mDlist) = mMaxMsgs
  /\ mFull + Cardinality(In("remove")) = Len(mDlist)

\* The assertions of the code: get() finds a message for the thread mFull let
\* through, and neither release() finds its semaphore at its maximum (OS_BUSY).
AssertionsHold ==
  \A t \in Threads :
    /\ pc[t] = "remove" => mDlist # <<>> /\ mEmpty < mMaxMsgs
    /\ pc[t] = "insert" => mFull < mMaxMsgs

\* testMessageQ(), when no call is in progress: the semaphores agree with the
\* list, and so do the calls that succeeded, unless a send hook is set: the
\* sends it handles are counted as insertions.
TestMessageQ ==
  (\A t \in Threads : pc[t] = "idle") =>
    /\ mEmpty = mMaxMsgs - Len(mDlist)
    /\ mFull = Len(mDlist)
    /\ ~SendHook => Len(mDlist) = mNumInsertExitOk - mNumRemoveExitOk

\* The messages of one thread that are not urgent are handed out in the order
\* it sent them, whatever is urgent and whoever else sends.
SenderOrderKept ==
  LET line == delivered \o mDlist
  IN \A i, j \in 1..Len(line) :
       i < j /\ line[i].from = line[j].from /\ ~line[i].urgent /\ ~line[j].urgent
         => line[i].num < line[j].num

\* The call a thread is in, as its caller sees it.
CallOf(t) ==
  CASE pc[t] \in {"acquireEmpty", "insert"} -> [op |-> "send", msg |-> rMsg[t]]
    [] pc[t] \in {"acquireFull", "remove"}  -> [op |-> "receive"]
    [] OTHER -> [op |-> "none"]
Calls == [t \in Threads |-> CallOf(t)]

Q == INSTANCE MsgQueue WITH MaxMsgs <- mMaxMsgs, queue <- mDlist, call <- Calls

\* The queue is the bounded queue of MsgQueue, although a call seizes a
\* semaphore and mGuard one after the other and may give up in between.
ImplementsMsgQueue == Q!Spec

\* With a server that keeps receiving, a message that entered the queue is
\* handed out.
MessageArrives ==
  \A t \in Senders, n \in 1..MaxSends :
    (\E i \in 1..Len(mDlist) : mDlist[i].from = t /\ mDlist[i].num = n)
      ~> (\E i \in 1..Len(delivered) : delivered[i].from = t /\ delivered[i].num = n)

\* With a server that keeps receiving, a send without timeout returns: the slot
\* a message leaves reaches a sender that waits.
SendReturns == \A t \in Senders : (pc[t] = "acquireEmpty") ~> (pc[t] = "idle")
=============================================================================
