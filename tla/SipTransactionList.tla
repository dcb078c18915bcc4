------------------------- MODULE SipTransactionList -------------------------
(***************************************************************************)
(* The locking of SIP transactions: SipTransactionList                     *)
(* (src/net/SipTransactionList.cpp of sipXtackLib) with the part of        *)
(* SipTransaction (src/net/SipTransaction.cpp) it is made of.              *)
(*                                                                         *)
(* Whoever handles a message or a timeout looks its transaction up and has *)
(* it to himself until markAvailable(): a busy transaction is waited for   *)
(* with an OsEvent in its waiting list, for 30 seconds at most.  A server  *)
(* transaction, its forks and their DNS SRV targets are one tree: it is    *)
(* busy as a whole and its topmost parent keeps the waiting list.  The     *)
(* thread of SipUserAgent deletes what was not used for long.              *)
(*                                                                         *)
(* The steps under mListMutex are actions; what is done with a transaction *)
(* and how a message is matched to one are left out.                       *)
(*                                                                         *)
(* Definitions whose name ends in _x are not the code: each is a plausible *)
(* mistake in the definition that follows it.                              *)
(***************************************************************************)
EXTENDS Integers, Sequences, SequencesExt

CONSTANTS
  Threads,        \* the threads that receive, send and handle timeouts
  Collector,      \* the one that runs SipUserAgent::handleMessage()
  Transactions,   \* the transactions ever created
  MaxEvents,      \* bound: how often a thread comes to wait
  None

ASSUME TransactionListAssumption ==
  /\ Collector \in Threads
  /\ MaxEvents \in Nat
  /\ None \notin Threads /\ None \notin Transactions /\ None \notin 1..MaxEvents

Events == 1..MaxEvents

VARIABLES
  life,            \* of each transaction: in the list, out of it, deleted
  unsent,          \* the transactions in TRANSACTION_LOCALLY_INIITATED
  topMostParent,   \* getTopMostParent() of each, itself if it has none
  mIsBusy,
  mWaitingList,
  old,             \* the transactions whose mTimeStamp is old enough to go
  mIsSignaled,     \* the events signalled, by either side
  allocated,       \* the events that exist
  numEvents,       \* the events created so far
  pc, transaction, child, waitEvent,   \* where each thread is, with which objects
  missed           \* the trees whose wake-up went to a waiter that gave up

transactionVars == <<life, unsent, topMostParent, mIsBusy, mWaitingList, old>>
eventVars       == <<mIsSignaled, allocated, numEvents>>
threadVars      == <<pc, transaction, child, waitEvent>>
vars == <<transactionVars, eventVars, threadVars, missed>>

mTransactions == {t \in Transactions : life[t] = "listed"}

Init ==
  /\ life = [t \in Transactions |-> "none"]
  /\ unsent = {}
  /\ topMostParent = [t \in Transactions |-> t]
  /\ mIsBusy = [t \in Transactions |-> FALSE]
  /\ mWaitingList = [t \in Transactions |-> <<>>]
  /\ old = {}
  /\ mIsSignaled = {} /\ allocated = {} /\ numEvents = 0
  /\ pc = [u \in Threads |-> "idle"]
  /\ transaction = [u \in Threads |-> None]
  /\ child = [u \in Threads |-> None]
  /\ waitEvent = [u \in Threads |-> None]
  /\ missed = {}

Tree(t) == {s \in Transactions : topMostParent[s] = topMostParent[t]}

Goto(u, from, to) == pc[u] = from /\ pc' = [pc EXCEPT ![u] = to]

\* doMarkBusy() from the topmost parent down.
doMarkBusy(t, busy) ==
  mIsBusy' = [s \in Transactions |-> IF s \in Tree(t) THEN busy ELSE mIsBusy[s]]

Take(u, from, t) ==
  /\ Goto(u, from, "using")
  /\ transaction' = [transaction EXCEPT ![u] = t]
  /\ doMarkBusy(t, TRUE)

-----------------------------------------------------------------------------
(* Creating and using transactions.                                        *)

\* A request without transaction: the new one is marked busy before it is listed.
NewTransaction(u, t) ==
  /\ life[t] = "none"
  /\ life' = [life EXCEPT ![t] = "listed"]
  /\ unsent' = unsent \cup {t}
  /\ Take(u, "idle", t)
  /\ UNCHANGED <<topMostParent, mWaitingList, old, eventVars, child, waitEvent, missed>>

\* A fork, listed before linkChild() and not busy, or a DNS SRV target, busy
\* like its parent.
AddChild(u, t) ==
  /\ Goto(u, "using", "linking")
  /\ life[t] = "none"
  /\ life' = [life EXCEPT ![t] = "listed"]
  /\ unsent' = unsent \cup {t}
  /\ \E isDnsSrvChild \in BOOLEAN : mIsBusy' = [mIsBusy EXCEPT ![t] = isDnsSrvChild]
  /\ child' = [child EXCEPT ![u] = t]
  /\ UNCHANGED <<topMostParent, mWaitingList, old, eventVars, transaction, waitEvent, missed>>

linkChild(u) ==
  /\ Goto(u, "linking", "using")
  /\ topMostParent' = [topMostParent EXCEPT ![child[u]] = topMostParent[transaction[u]]]
  /\ mIsBusy' = [mIsBusy EXCEPT ![child[u]] = mIsBusy[transaction[u]]]
  /\ child' = [child EXCEPT ![u] = None]
  /\ UNCHANGED <<life, unsent, mWaitingList, old, eventVars, transaction, waitEvent, missed>>

\* The first message of a transaction takes it out of TRANSACTION_LOCALLY_INIITATED.
FirstMessage(u, t) ==
  /\ pc[u] = "using"
  /\ t \in Tree(transaction[u]) \cap unsent
  /\ unsent' = unsent \ {t}
  /\ UNCHANGED <<life, topMostParent, mIsBusy, mWaitingList, old, eventVars, threadVars, missed>>

-----------------------------------------------------------------------------
(* Looking a transaction up.                                               *)

\* The transaction that matches the message is taken, or waited for if it is busy.
LookUp(u, t) ==
  IF mIsBusy[t]
  THEN /\ Goto(u, "idle", "waitUntilAvailable")
       /\ transaction' = [transaction EXCEPT ![u] = t]
       /\ UNCHANGED mIsBusy
  ELSE Take(u, "idle", t)

findTransactionFor_x(u, t) ==   \* does not look at the state
  /\ t \in mTransactions
  /\ LookUp(u, t)
  /\ UNCHANGED <<life, unsent, topMostParent, mWaitingList, old, eventVars, child, waitEvent, missed>>
findTransactionFor(u, t) ==
  /\ t \in mTransactions \ unsent
  /\ LookUp(u, t)
  /\ UNCHANGED <<life, unsent, topMostParent, mWaitingList, old, eventVars, child, waitEvent, missed>>

\* waitUntilAvailable(), each time it has the list locked: the transaction is
\* gone, or available, or the topmost parent gets an event to signal.
FoundGone(u) ==
  /\ transaction[u] \notin mTransactions
  /\ Goto(u, "waitUntilAvailable", "idle")
  /\ transaction' = [transaction EXCEPT ![u] = None]
  /\ UNCHANGED <<transactionVars, eventVars, child, waitEvent, missed>>

FoundAvailable(u) ==
  /\ transaction[u] \in mTransactions /\ ~mIsBusy[transaction[u]]
  /\ Take(u, "waitUntilAvailable", transaction[u])
  /\ UNCHANGED <<life, unsent, topMostParent, mWaitingList, old, eventVars, child, waitEvent, missed>>

notifyWhenAvailable_x(u) ==   \* in the list of the transaction itself
  /\ transaction[u] \in mTransactions /\ mIsBusy[transaction[u]]
  /\ Goto(u, "waitUntilAvailable", "wait")
  /\ numEvents < MaxEvents
  /\ numEvents' = numEvents + 1
  /\ allocated' = allocated \cup {numEvents'}
  /\ waitEvent' = [waitEvent EXCEPT ![u] = numEvents']
  /\ mWaitingList' = [mWaitingList EXCEPT ![transaction[u]] = Append(@, numEvents')]
  /\ UNCHANGED <<life, unsent, topMostParent, mIsBusy, old, mIsSignaled, transaction, child, missed>>
notifyWhenAvailable(u) ==
  /\ transaction[u] \in mTransactions /\ mIsBusy[transaction[u]]
  /\ Goto(u, "waitUntilAvailable", "wait")
  /\ numEvents < MaxEvents
  /\ numEvents' = numEvents + 1
  /\ allocated' = allocated \cup {numEvents'}
  /\ waitEvent' = [waitEvent EXCEPT ![u] = numEvents']
  /\ mWaitingList' = [mWaitingList EXCEPT ![topMostParent[transaction[u]]] = Append(@, numEvents')]
  /\ UNCHANGED <<life, unsent, topMostParent, mIsBusy, old, mIsSignaled, transaction, child, missed>>

WaitSucceeds(u) ==
  /\ waitEvent[u] \in mIsSignaled
  /\ Goto(u, "wait", "woken")
  /\ UNCHANGED <<transactionVars, eventVars, transaction, child, waitEvent, missed>>

\* After 30 times one second.
WaitTimesOut(u) ==
  /\ waitEvent[u] \notin mIsSignaled
  /\ Goto(u, "wait", "gaveUp")
  /\ UNCHANGED <<transactionVars, eventVars, transaction, child, waitEvent, missed>>

\* The event is signalled from both sides; who comes second deletes it.
signal(e) ==
  IF e \in mIsSignaled
  THEN allocated' = allocated \ {e} /\ UNCHANGED mIsSignaled
  ELSE mIsSignaled' = mIsSignaled \cup {e} /\ UNCHANGED allocated

\* One that gave up pretends that the transaction does not exist.
WaiterSignals_x(u) ==   \* keeps the event
  /\ \/ Goto(u, "woken", "waitUntilAvailable") /\ UNCHANGED transaction
     \/ Goto(u, "gaveUp", "idle") /\ transaction' = [transaction EXCEPT ![u] = None]
  /\ signal(waitEvent[u])
  /\ UNCHANGED <<transactionVars, numEvents, child, waitEvent, missed>>
WaiterSignals(u) ==
  /\ \/ Goto(u, "woken", "waitUntilAvailable") /\ UNCHANGED transaction
     \/ Goto(u, "gaveUp", "idle") /\ transaction' = [transaction EXCEPT ![u] = None]
  /\ signal(waitEvent[u])
  /\ waitEvent' = [waitEvent EXCEPT ![u] = None]
  /\ UNCHANGED <<transactionVars, numEvents, child, missed>>

-----------------------------------------------------------------------------
(* Giving it back.                                                         *)

\* Nobody will act on a signal to this event.
GivenUp(e) == e \in mIsSignaled \/ \E u \in Threads : waitEvent[u] = e /\ pc[u] = "gaveUp"

signalNextAvailable_x(top) ==   \* leaves an event of a waiter that gave up
  IF mWaitingList[top] = <<>>
  THEN UNCHANGED <<mWaitingList, mIsSignaled, allocated, missed>>
  ELSE LET e == Head(mWaitingList[top])
       IN /\ mWaitingList' = [mWaitingList EXCEPT ![top] = Tail(@)]
          /\ mIsSignaled' = mIsSignaled \cup {e}
          /\ missed' = IF GivenUp(e) THEN missed \cup {top} ELSE missed
          /\ UNCHANGED allocated
signalNextAvailable(top) ==
  IF mWaitingList[top] = <<>>
  THEN UNCHANGED <<mWaitingList, mIsSignaled, allocated, missed>>
  ELSE LET e == Head(mWaitingList[top])
       IN /\ mWaitingList' = [mWaitingList EXCEPT ![top] = Tail(@)]
          /\ signal(e)
          /\ missed' = IF GivenUp(e) THEN missed \cup {top} ELSE missed

\* touch(), then all of the tree is available and the first waiter is told.
markAvailable(u) ==
  /\ Goto(u, "using", "idle")
  /\ transaction' = [transaction EXCEPT ![u] = None]
  /\ old' = old \ Tree(transaction[u])
  /\ doMarkBusy(transaction[u], FALSE)
  /\ signalNextAvailable(topMostParent[transaction[u]])
  /\ UNCHANGED <<life, unsent, topMostParent, numEvents, child, waitEvent>>

-----------------------------------------------------------------------------
(* Garbage collection.                                                     *)

\* Time passes, also over a tree in use; touch() gave all of it one time.
\* A child is linked long before it is old.
GetsOld(t) ==
  /\ t \in mTransactions \ old
  /\ \A u \in Threads : child[u] # t
  /\ old' = old \cup Tree(t)
  /\ UNCHANGED <<life, unsent, topMostParent, mIsBusy, mWaitingList, eventVars, threadVars, missed>>

\* signalAllAvailable() for those that are taken out of the list.
Announce(tops) ==
  LET events == UNION {ToSet(mWaitingList[t]) : t \in tops}
  IN /\ mWaitingList' = [t \in Transactions |-> IF t \in tops THEN <<>> ELSE mWaitingList[t]]
     /\ allocated' = allocated \ (events \cap mIsSignaled)
     /\ mIsSignaled' = mIsSignaled \cup events

RemoveFromList(removed) ==
  /\ pc[Collector] = "idle"
  /\ removed # {}
  /\ pc' = [pc EXCEPT ![Collector] = "deleting"]
  /\ life' = [t \in Transactions |-> IF t \in removed THEN "removed" ELSE life[t]]
  /\ Announce({topMostParent[t] : t \in removed})
  /\ UNCHANGED <<unsent, topMostParent, mIsBusy, old, numEvents, transaction, child, waitEvent, missed>>

removeOldTransactions_x == RemoveFromList(mTransactions \cap old)   \* busy or not
removeOldTransactions == RemoveFromList({t \in mTransactions \cap old : ~mIsBusy[t]})

\* Without the lock.
deleteTransactions ==
  /\ pc[Collector] = "deleting"
  /\ pc' = [pc EXCEPT ![Collector] = "idle"]
  /\ life' = [t \in Transactions |-> IF life[t] = "removed" THEN "deleted" ELSE life[t]]
  /\ UNCHANGED <<unsent, topMostParent, mIsBusy, mWaitingList, old, eventVars,
                 transaction, child, waitEvent, missed>>

-----------------------------------------------------------------------------
Next ==
  \/ \E u \in Threads :
       \/ \E t \in Transactions :
            \/ NewTransaction(u, t) \/ AddChild(u, t) \/ FirstMessage(u, t)
            \/ findTransactionFor(u, t)
       \/ linkChild(u)
       \/ FoundGone(u) \/ FoundAvailable(u) \/ notifyWhenAvailable(u)
       \/ WaitSucceeds(u) \/ WaitTimesOut(u) \/ WaiterSignals(u)
       \/ markAvailable(u)
  \/ \E t \in Transactions : GetsOld(t)
  \/ removeOldTransactions \/ deleteTransactions

Spec == Init /\ [][Next]_vars

-----------------------------------------------------------------------------
(* Properties.                                                             *)

Places  == {"idle", "using", "linking", "waitUntilAvailable", "wait", "woken", "gaveUp", "deleting"}
Waiting == {u \in Threads : pc[u] \in {"wait", "woken", "gaveUp"}}
Holders == {u \in Threads : pc[u] \in {"using", "linking"}}

\* The types; a thread has an event exactly while it waits, and a transaction
\* while it looks for one or has one.
TypeOK ==
  /\ life \in [Transactions -> {"none", "listed", "removed", "deleted"}]
  /\ unsent \subseteq Transactions /\ old \subseteq Transactions
  /\ topMostParent \in [Transactions -> Transactions]
  /\ mIsBusy \in [Transactions -> BOOLEAN]
  /\ mWaitingList \in [Transactions -> Seq(Events)]
  /\ numEvents \in 0..MaxEvents
  /\ mIsSignaled \subseteq 1..numEvents /\ allocated \subseteq 1..numEvents
  /\ pc \in [Threads -> Places]
  /\ \A u \in Threads :
       /\ transaction[u] \in IF pc[u] \in {"idle", "deleting"} THEN {None} ELSE Transactions
       /\ child[u] \in IF pc[u] = "linking" THEN Transactions ELSE {None}
       /\ waitEvent[u] \in IF u \in Waiting THEN Events ELSE {None}
  /\ missed \subseteq Transactions

\* findTransactionFor() and waitUntilAvailable() give a transaction to one thread
\* at a time, and with it the whole tree it belongs to or is going to belong to.
OneHolder ==
  \A u, v \in Holders :
    u # v => Tree(transaction[u]) \cap (Tree(transaction[v]) \cup {child[v]}) = {}

\* What a thread has is never collected: not the transaction it found, however
\* old it was, nor any other of the tree.
HolderKeepsTree ==
  \A u \in Holders : Tree(transaction[u]) \subseteq mTransactions

\* The handshake over an OsEvent: an event that the list or the waiter still refers
\* to is not deleted, and one that neither refers to is; for all orders of the
\* signal, the time out and the waiter's own signal.
EventsAccounted ==
  allocated = (UNION {ToSet(mWaitingList[t]) : t \in Transactions}) \cup {waitEvent[u] : u \in Waiting}

\* The waiters of a tree that were not told yet, and those that are coming for it.
Untold(top) == {u \in Threads : /\ pc[u] = "wait" /\ waitEvent[u] \notin mIsSignaled
                                /\ topMostParent[transaction[u]] = top}
Coming(top) == {u \in Threads : /\ \/ pc[u] \in {"waitUntilAvailable", "woken"}
                                   \/ pc[u] = "wait" /\ waitEvent[u] \in mIsSignaled
                                /\ topMostParent[transaction[u]] = top}
Unattended(top) == mIsBusy[top] = FALSE /\ Untold(top) # {} /\ Coming(top) = {}

\* No waiter is left behind: while somebody waits for an available tree, one of the
\* waiters was told and will take it and tell the next, unless a wake-up was spent
\* on a waiter that had given up. Nobody waits for a tree that is gone.
NoWaiterForgotten == \A t \in Transactions : Unattended(t) => t \in missed

\* SipTransactionList.cpp:459: "We set an event to be signaled when a transaction
\* is released."
SignaledWhenReleased == \A t \in Transactions : ~Unattended(t)
=============================================================================
