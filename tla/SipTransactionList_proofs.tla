---------------------- MODULE SipTransactionList_proofs ----------------------
(* A transaction has one holder at a time and outlives it, the events of    *)
(* its waiters are accounted for and no waiter is forgotten, for any threads *)
(* and any transactions.                                                   *)
EXTENDS SipTransactionList, SequenceTheorems, TLAPS

Looking == {"waitUntilAvailable", "wait", "woken", "gaveUp"}
Lookers == {u \in Threads : pc[u] \in Looking}
Linkers == {u \in Threads : pc[u] = "linking"}

\* The topmost parent of what a thread has or looks for.
top(u) == topMostParent[transaction[u]]

Created == 1..numEvents

TypeInv ==
  /\ life \in [Transactions -> {"none", "listed", "removed", "deleted"}]
  /\ unsent \subseteq Transactions /\ old \subseteq Transactions
  /\ topMostParent \in [Transactions -> Transactions]
  /\ mIsBusy \in [Transactions -> BOOLEAN]
  /\ numEvents \in 0..MaxEvents
  /\ mWaitingList \in [Transactions -> Seq(Events)]
  /\ \A t \in Transactions : ToSet(mWaitingList[t]) \subseteq Created
  /\ mIsSignaled \subseteq Created /\ allocated \subseteq Created
  /\ pc \in [Threads -> Places]
  /\ transaction \in [Threads -> Transactions \cup {None}]
  /\ child \in [Threads -> Transactions \cup {None}]
  /\ waitEvent \in [Threads -> Created \cup {None}]
  /\ \A u \in Threads :
       /\ pc[u] \in {"idle", "deleting"} <=> transaction[u] = None
       /\ pc[u] = "linking" <=> child[u] # None
       /\ u \in Waiting <=> waitEvent[u] # None
  /\ missed \subseteq Transactions

\* A tree lives and is busy as a whole; while it is not busy it ages as a whole;
\* what was never created is alone.
TreesWhole ==
  \A t \in Transactions :
    /\ topMostParent[topMostParent[t]] = topMostParent[t]
    /\ life[t] = life[topMostParent[t]]
    /\ mIsBusy[t] = mIsBusy[topMostParent[t]]
    /\ ~mIsBusy[t] => (t \in old <=> topMostParent[t] \in old)
    /\ life[t] = "none" => t \notin old /\ \A s \in Transactions : topMostParent[s] = t => s = t

\* What a thread has is listed and busy, and no other thread has it.
HoldersApart ==
  \A u \in Holders :
    /\ life[top(u)] = "listed" /\ mIsBusy[top(u)]
    /\ \A v \in Holders : u # v => top(u) # top(v)

\* A child that is not linked yet is alone, new, and known to its creator only.
ChildrenAlone ==
  \A u \in Linkers :
    /\ topMostParent[child[u]] = child[u]
    /\ \A s \in Transactions : topMostParent[s] = child[u] => s = child[u]
    /\ life[child[u]] = "listed" /\ child[u] \in unsent \ old
    /\ \A v \in Holders : top(v) # child[u]
    /\ \A v \in Linkers : u # v => child[u] # child[v]

\* Nobody looks for a transaction that has had no message yet.
LookersFound ==
  \A u \in Lookers : transaction[u] \notin unsent /\ life[transaction[u]] # "none"

HolderInv == TreesWhole /\ HoldersApart /\ ChildrenAlone /\ LookersFound

-----------------------------------------------------------------------------
(* The events.                                                             *)

Listed(t) == ToSet(mWaitingList[t])

\* No event is twice in the lists, and each has one waiter at most.
EventsDistinct ==
  /\ \A t \in Transactions : IsInjective(mWaitingList[t])
  /\ \A s, t \in Transactions : s # t => Listed(s) \cap Listed(t) = {}
  /\ \A u, v \in Waiting : waitEvent[u] = waitEvent[v] => u = v

\* The first side to signal an event leaves it to the other: a waiter's event is
\* in the list of its tree until it is signalled, and one that nobody waits for
\* is signalled.
Handshake ==
  /\ \A u \in Waiting :
       IF waitEvent[u] \in mIsSignaled
       THEN \A t \in Transactions : waitEvent[u] \notin Listed(t)
       ELSE waitEvent[u] \in Listed(top(u))
  /\ \A t \in Transactions : \A e \in Listed(t) :
       e \in mIsSignaled \/ \E u \in Waiting : waitEvent[u] = e
  /\ \A u \in Threads : pc[u] = "woken" => waitEvent[u] \in mIsSignaled

\* Nobody waits for what is gone.
GoneHasNoWaiters ==
  \A t \in Transactions :
    life[t] \in {"removed", "deleted"} /\ topMostParent[t] = t => mWaitingList[t] = <<>>

EventInv == EventsDistinct /\ Handshake /\ EventsAccounted

IInv == TypeInv /\ HolderInv /\ EventInv /\ GoneHasNoWaiters /\ NoWaiterForgotten

-----------------------------------------------------------------------------
(* Waiting lists.                                                          *)

\* What an event added at the end does to a list.
LEMMA AppendEvent ==
  ASSUME NEW S, NEW s \in Seq(S), NEW e \in S
  PROVE  /\ Append(s, e) \in Seq(S)
         /\ ToSet(Append(s, e)) = ToSet(s) \cup {e}
         /\ IsInjective(s) /\ e \notin ToSet(s) => IsInjective(Append(s, e))
<1>1. /\ Append(s, e) \in Seq(S)
      /\ Len(Append(s, e)) = Len(s) + 1
      /\ DOMAIN s = 1..Len(s) /\ DOMAIN Append(s, e) = 1..(Len(s) + 1)
      /\ \A i \in 1..Len(s) : Append(s, e)[i] = s[i]
      /\ Append(s, e)[Len(s) + 1] = e
      /\ Len(s) \in Nat
  OBVIOUS
<1>2. ToSet(Append(s, e)) = ToSet(s) \cup {e}
  <2>1. ASSUME NEW x \in ToSet(Append(s, e)) PROVE x \in ToSet(s) \cup {e}
    BY <1>1, <2>1 DEF ToSet
  <2>2. ToSet(s) \subseteq ToSet(Append(s, e))
    <3>1. 1..Len(s) \subseteq 1..(Len(s) + 1)
      BY <1>1
    <3> QED
      BY <1>1, <3>1 DEF ToSet
  <2>3. e \in ToSet(Append(s, e))
    <3>1. Len(s) + 1 \in 1..(Len(s) + 1)
      BY <1>1
    <3> QED
      BY <1>1, <3>1 DEF ToSet
  <2> QED
    BY <2>1, <2>2, <2>3
<1>3. ASSUME IsInjective(s), e \notin ToSet(s) PROVE IsInjective(Append(s, e))
  BY <1>1, <1>3 DEF IsInjective, ToSet
<1> QED
  BY <1>1, <1>2, <1>3

\* What taking the first event out of it does.
LEMMA TailEvents ==
  ASSUME NEW S, NEW s \in Seq(S), s # <<>>
  PROVE  /\ Head(s) \in S /\ Tail(s) \in Seq(S)
         /\ ToSet(s) = ToSet(Tail(s)) \cup {Head(s)}
         /\ IsInjective(s) => IsInjective(Tail(s)) /\ Head(s) \notin ToSet(Tail(s))
<1>1. /\ Len(s) \in Nat \ {0}
      /\ Head(s) \in S /\ Tail(s) \in Seq(S)
      /\ DOMAIN s = 1..Len(s) /\ DOMAIN Tail(s) = 1..(Len(s) - 1)
      /\ \A i \in 1..(Len(s) - 1) : Tail(s)[i] = s[i + 1]
      /\ Head(s) = s[1]
  OBVIOUS
<1>2. ToSet(Tail(s)) \subseteq ToSet(s)
  <2>1. \A i \in 1..(Len(s) - 1) : i + 1 \in 1..Len(s)
    BY <1>1
  <2> QED
    BY <1>1, <2>1 DEF ToSet
<1>3. Head(s) \in ToSet(s)
  <2>1. 1 \in 1..Len(s)
    BY <1>1
  <2> QED
    BY <1>1, <2>1 DEF ToSet
<1>4. ASSUME NEW x \in ToSet(s), x # Head(s) PROVE x \in ToSet(Tail(s))
  <2>1. PICK i \in 1..Len(s) : s[i] = x
    BY <1>1 DEF ToSet
  <2>2. i # 1
    BY <1>1, <1>4, <2>1
  <2>3. i - 1 \in 1..(Len(s) - 1) /\ (i - 1) + 1 = i
    BY <1>1, <2>2
  <2>4. Tail(s)[i - 1] = x
    BY <1>1, <2>1, <2>3
  <2> QED
    BY <1>1, <2>3, <2>4 DEF ToSet
<1>5. ASSUME IsInjective(s) PROVE IsInjective(Tail(s)) /\ Head(s) \notin ToSet(Tail(s))
  <2>1. \A i, j \in 1..Len(s) : s[i] = s[j] => i = j
    BY <1>1, <1>5 DEF IsInjective
  <2>2. \A i \in 1..(Len(s) - 1) : i + 1 \in 1..Len(s) /\ i + 1 # 1
    BY <1>1
  <2>3. 1 \in 1..Len(s)
    BY <1>1
  <2>4. ASSUME NEW i \in 1..(Len(s) - 1), NEW j \in 1..(Len(s) - 1), Tail(s)[i] = Tail(s)[j]
        PROVE  i = j
    <3>1. s[i + 1] = s[j + 1]
      BY <1>1, <2>4
    <3>2. i + 1 = j + 1
      BY <2>1, <2>2, <3>1
    <3> QED
      BY <3>2
  <2>5. Head(s) \notin ToSet(Tail(s))
    BY <1>1, <2>1, <2>2, <2>3 DEF ToSet
  <2> QED
    BY <1>1, <2>4, <2>5 DEF IsInjective
<1> QED
  BY <1>1, <1>2, <1>3, <1>4, <1>5

-----------------------------------------------------------------------------
(* Types.                                                                  *)

\* The lists are lists of events, however many there are.
LEMMA SignalType ==
  ASSUME TypeInv, NEW e \in Created, signal(e)
  PROVE  mIsSignaled' \subseteq Created /\ allocated' \subseteq Created
BY DEF TypeInv, signal

\* Telling the first waiter of a list keeps the types.
LEMMA NextEventType ==
  ASSUME TypeInv, NEW t \in Transactions, signalNextAvailable(t)
  PROVE  /\ mWaitingList' \in [Transactions -> Seq(Events)]
         /\ \A s \in Transactions : ToSet(mWaitingList'[s]) \subseteq Created
         /\ mIsSignaled' \subseteq Created /\ allocated' \subseteq Created
         /\ missed' \subseteq Transactions
<1>1. CASE mWaitingList[t] = <<>>
  BY <1>1 DEF TypeInv, signalNextAvailable
<1>2. CASE mWaitingList[t] # <<>>
  <2> DEFINE e == Head(mWaitingList[t])
  <2>1. mWaitingList[t] \in Seq(Events) /\ ToSet(mWaitingList[t]) \subseteq Created
    BY DEF TypeInv
  <2>2. e \in Created /\ Tail(mWaitingList[t]) \in Seq(Events)
        /\ ToSet(Tail(mWaitingList[t])) \subseteq Created
    BY <1>2, <2>1, TailEvents
  <2>3. /\ mWaitingList' = [mWaitingList EXCEPT ![t] = Tail(@)]
        /\ signal(e)
        /\ missed' = IF GivenUp(e) THEN missed \cup {t} ELSE missed
    BY <1>2 DEF signalNextAvailable
  <2>4. mIsSignaled' \subseteq Created /\ allocated' \subseteq Created
    BY <2>2, <2>3, SignalType
  <2>5. missed' \subseteq Transactions
    BY <2>3 DEF TypeInv
  <2>6. mWaitingList' \in [Transactions -> Seq(Events)]
    BY <2>2, <2>3 DEF TypeInv
  <2>7. ASSUME NEW s \in Transactions PROVE ToSet(mWaitingList'[s]) \subseteq Created
    BY <2>2, <2>3 DEF TypeInv
  <2> QED
    BY <2>4, <2>5, <2>6, <2>7
<1> QED
  BY <1>1, <1>2

\* Every step keeps the types.
LEMMA TypeStep ==
  ASSUME TypeInv, [Next]_vars
  PROVE  TypeInv'
<1> USE TransactionListAssumption
<1>1. ASSUME NEW u \in Threads, NEW t \in Transactions, NewTransaction(u, t) PROVE TypeInv'
  BY <1>1 DEF TypeInv, NewTransaction, Take, Goto, doMarkBusy, eventVars, Places, Waiting, Created
<1>2. ASSUME NEW u \in Threads, NEW t \in Transactions, AddChild(u, t) PROVE TypeInv'
  BY <1>2 DEF TypeInv, AddChild, Goto, eventVars, Places, Waiting, Created
<1>3. ASSUME NEW u \in Threads, linkChild(u) PROVE TypeInv'
  BY <1>3 DEF TypeInv, linkChild, Goto, eventVars, Places, Waiting, Created
<1>4. ASSUME NEW u \in Threads, NEW t \in Transactions, FirstMessage(u, t) PROVE TypeInv'
  BY <1>4 DEF TypeInv, FirstMessage, eventVars, threadVars, Places, Waiting, Created
<1>5. ASSUME NEW u \in Threads, NEW t \in Transactions, findTransactionFor(u, t) PROVE TypeInv'
  <2>1. /\ pc[u] = "idle"
        /\ \E to \in {"using", "waitUntilAvailable"} : pc' = [pc EXCEPT ![u] = to]
        /\ transaction' = [transaction EXCEPT ![u] = t]
        /\ mIsBusy' \in [Transactions -> BOOLEAN]
    BY <1>5 DEF TypeInv, findTransactionFor, LookUp, Take, Goto, doMarkBusy
  <2>2. UNCHANGED <<life, unsent, topMostParent, mWaitingList, old, mIsSignaled,
                    allocated, numEvents, child, waitEvent, missed>>
    BY <1>5 DEF findTransactionFor, eventVars
  <2> QED
    BY <2>1, <2>2 DEF TypeInv, Places, Waiting, Created
<1>6. ASSUME NEW u \in Threads, FoundGone(u) PROVE TypeInv'
  BY <1>6 DEF TypeInv, FoundGone, Goto, transactionVars, eventVars, Places, Waiting, Created
<1>7. ASSUME NEW u \in Threads, FoundAvailable(u) PROVE TypeInv'
  BY <1>7 DEF TypeInv, FoundAvailable, mTransactions, Take, Goto, doMarkBusy, eventVars, Places, Waiting, Created
<1>8. ASSUME NEW u \in Threads, notifyWhenAvailable(u) PROVE TypeInv'
  <2> DEFINE s == topMostParent[transaction[u]]
  <2>1. /\ s \in Transactions
        /\ mWaitingList[s] \in Seq(Events) /\ ToSet(mWaitingList[s]) \subseteq Created
        /\ numEvents' \in Events /\ numEvents' \in 0..MaxEvents
        /\ numEvents' = numEvents + 1
        /\ Created \subseteq Created' /\ numEvents' \in Created'
    BY <1>8 DEF TypeInv, notifyWhenAvailable, mTransactions, Created, Events
  <2>2. mWaitingList' = [mWaitingList EXCEPT ![s] = Append(@, numEvents')]
    BY <1>8 DEF notifyWhenAvailable
  <2>3. /\ Append(mWaitingList[s], numEvents') \in Seq(Events)
        /\ ToSet(Append(mWaitingList[s], numEvents')) \subseteq Created'
    <3>1. ToSet(Append(mWaitingList[s], numEvents')) = ToSet(mWaitingList[s]) \cup {numEvents'}
          /\ Append(mWaitingList[s], numEvents') \in Seq(Events)
      BY <2>1, AppendEvent
    <3> QED
      BY <2>1, <3>1
  <2>4. /\ mWaitingList' \in [Transactions -> Seq(Events)]
        /\ \A t \in Transactions : ToSet(mWaitingList'[t]) \subseteq Created'
    BY <2>1, <2>2, <2>3 DEF TypeInv
  <2>5. /\ mIsSignaled' \subseteq Created' /\ allocated' \subseteq Created'
        /\ waitEvent' \in [Threads -> Created' \cup {None}]
    BY <1>8, <2>1 DEF TypeInv, notifyWhenAvailable
  <2>6. numEvents' # None
    BY <2>1 DEF Events
  <2>7. \A v \in Threads : v \in Waiting' <=> waitEvent'[v] # None
    BY <1>8, <2>6 DEF TypeInv, notifyWhenAvailable, Goto, Waiting
  <2>8. \A v \in Threads : /\ pc'[v] \in {"idle", "deleting"} <=> transaction'[v] = None
                           /\ pc'[v] = "linking" <=> child'[v] # None
    BY <1>8 DEF TypeInv, notifyWhenAvailable, Goto
  <2>9. pc' \in [Threads -> Places]
    BY <1>8 DEF TypeInv, notifyWhenAvailable, Goto, Places
  <2> QED
    BY <1>8, <2>1, <2>4, <2>5, <2>7, <2>8, <2>9 DEF TypeInv, notifyWhenAvailable
<1>9. ASSUME NEW u \in Threads, WaitSucceeds(u) \/ WaitTimesOut(u) PROVE TypeInv'
  BY <1>9 DEF TypeInv, WaitSucceeds, WaitTimesOut, Goto, transactionVars, eventVars, Places, Waiting, Created
<1>10. ASSUME NEW u \in Threads, WaiterSignals(u) PROVE TypeInv'
  <2>1. waitEvent[u] \in Created
    BY <1>10 DEF TypeInv, WaiterSignals, Goto, Waiting
  <2>2. mIsSignaled' \subseteq Created /\ allocated' \subseteq Created
    BY <1>10, <2>1, SignalType DEF WaiterSignals
  <2> QED
    BY <1>10, <2>2 DEF TypeInv, WaiterSignals, Goto, transactionVars, Places, Waiting, Created
<1>11. ASSUME NEW u \in Threads, markAvailable(u) PROVE TypeInv'
  <2>1. topMostParent[transaction[u]] \in Transactions
    BY <1>11 DEF TypeInv, markAvailable, Goto
  <2>2. /\ mWaitingList' \in [Transactions -> Seq(Events)]
        /\ \A s \in Transactions : ToSet(mWaitingList'[s]) \subseteq Created
        /\ mIsSignaled' \subseteq Created /\ allocated' \subseteq Created
        /\ missed' \subseteq Transactions
    BY <1>11, <2>1, NextEventType DEF markAvailable
  <2> QED
    BY <1>11, <2>2 DEF TypeInv, markAvailable, Goto, doMarkBusy, Places, Waiting, Created
<1>12. ASSUME NEW t \in Transactions, GetsOld(t) PROVE TypeInv'
  BY <1>12 DEF TypeInv, GetsOld, Tree, eventVars, threadVars, Places, Waiting, Created
<1>13. ASSUME removeOldTransactions PROVE TypeInv'
  <2> DEFINE removed == {t \in mTransactions \cap old : ~mIsBusy[t]}
             tops == {topMostParent[t] : t \in removed}
  <2>1. RemoveFromList(removed)
    BY <1>13 DEF removeOldTransactions
  <2>2. /\ mWaitingList' = [t \in Transactions |-> IF t \in tops THEN <<>> ELSE mWaitingList[t]]
        /\ allocated' \subseteq allocated
        /\ mIsSignaled' = mIsSignaled \cup UNION {ToSet(mWaitingList[t]) : t \in tops}
    BY <2>1 DEF RemoveFromList, Announce
  <2>3. tops \subseteq Transactions
    BY DEF TypeInv, mTransactions
  <2>4. mIsSignaled' \subseteq Created
    BY <2>2, <2>3 DEF TypeInv
  <2>5. <<>> \in Seq(Events) /\ ToSet(<<>>) = {}
    BY DEF ToSet
  <2>6. /\ mWaitingList' \in [Transactions -> Seq(Events)]
        /\ \A t \in Transactions : ToSet(mWaitingList'[t]) \subseteq Created
    BY <2>2, <2>5 DEF TypeInv
  <2> QED
    BY <2>1, <2>2, <2>4, <2>6 DEF TypeInv, RemoveFromList, Places, Waiting, Created
<1>14. ASSUME deleteTransactions PROVE TypeInv'
  BY <1>14 DEF TypeInv, deleteTransactions, eventVars, Places, Waiting, Created
<1>15. CASE UNCHANGED vars
  BY <1>15 DEF TypeInv, vars, transactionVars, eventVars, threadVars, Waiting, Created
<1> QED
  BY <1>1, <1>2, <1>3, <1>4, <1>5, <1>6, <1>7, <1>8, <1>9, <1>10, <1>11, <1>12, <1>13,
     <1>14, <1>15 DEF Next

-----------------------------------------------------------------------------
(* Holders.                                                                *)

\* A step that changes neither the trees nor who has them.
SameHolders ==
  /\ Holders' = Holders /\ Linkers' = Linkers
  /\ \A v \in Holders : transaction'[v] = transaction[v]

\* Who comes to look for a transaction has found one that had a message.
NewLookersFound ==
  \A v \in Lookers' : \/ v \in Lookers /\ transaction'[v] = transaction[v]
                      \/ transaction'[v] \notin unsent /\ life[transaction'[v]] # "none"

\* Such a step keeps what holders rely on.
LEMMA HolderFrame ==
  ASSUME HolderInv,
         UNCHANGED <<life, unsent, topMostParent, mIsBusy, old, child>>,
         SameHolders, NewLookersFound
  PROVE  HolderInv'
<1>1. TreesWhole'
  BY DEF HolderInv, TreesWhole
<1>2. \A v \in Holders : top(v)' = top(v)
  BY DEF SameHolders, top
<1>3. HoldersApart'
  BY <1>2 DEF SameHolders, HolderInv, HoldersApart
<1>4. ChildrenAlone'
  BY <1>2 DEF SameHolders, HolderInv, ChildrenAlone
<1>5. LookersFound'
  BY DEF NewLookersFound, HolderInv, LookersFound
<1> QED
  BY <1>1, <1>3, <1>4, <1>5 DEF HolderInv

\* A thread takes a transaction that is in the list, not busy, and not new.
LEMMA HolderTakes ==
  ASSUME TypeInv, HolderInv, NEW u \in Threads, NEW t \in Transactions,
         life[t] = "listed", ~mIsBusy[t], t \notin unsent,
         pc[u] \in {"idle", "waitUntilAvailable"}, pc' = [pc EXCEPT ![u] = "using"],
         transaction' = [transaction EXCEPT ![u] = t], doMarkBusy(t, TRUE),
         UNCHANGED <<life, unsent, topMostParent, old, child>>
  PROVE  HolderInv'
<1>1. /\ \A v \in Threads : v # u => pc'[v] = pc[v] /\ transaction'[v] = transaction[v]
      /\ pc'[u] = "using" /\ transaction'[u] = t
  BY DEF TypeInv
<1>2. /\ Holders' = Holders \cup {u} /\ u \notin Holders
      /\ Linkers' = Linkers /\ u \notin Linkers
      /\ \A v \in Lookers' : v \in Lookers /\ v # u
  BY <1>1 DEF Holders, Linkers, Lookers, Looking
<1>3. /\ \A v \in Holders : top(v)' = top(v)
      /\ top(u)' = topMostParent[t]
      /\ top(u)' \in Transactions
  BY <1>1, <1>2 DEF top, TypeInv
<1>4. \A s \in Transactions :
        mIsBusy'[s] = IF topMostParent[s] = topMostParent[t] THEN TRUE ELSE mIsBusy[s]
  BY DEF doMarkBusy, Tree
<1>5. /\ topMostParent[topMostParent[t]] = topMostParent[t]
      /\ life[topMostParent[t]] = "listed" /\ ~mIsBusy[topMostParent[t]]
  BY DEF HolderInv, TreesWhole
<1>6. topMostParent \in [Transactions -> Transactions]
  BY DEF TypeInv
<1>7. TreesWhole'
  BY <1>4, <1>6 DEF HolderInv, TreesWhole
<1>8. \A v \in Holders : topMostParent[t] # top(v)
  BY <1>5 DEF HolderInv, HoldersApart
<1>9. HoldersApart'
  <2>1. \A v \in Holders : top(v) \in Transactions
    BY DEF TypeInv, top, Holders
  <2>2. \A v \in Holders' : life'[top(v)'] = "listed" /\ mIsBusy'[top(v)']
    BY <1>2, <1>3, <1>4, <1>5, <2>1 DEF HolderInv, HoldersApart
  <2>3. \A v, w \in Holders' : v # w => top(v)' # top(w)'
    BY <1>2, <1>3, <1>8 DEF HolderInv, HoldersApart
  <2> QED
    BY <2>2, <2>3 DEF HoldersApart
<1>10. \A v \in Linkers : topMostParent[t] # child[v]
  BY DEF HolderInv, ChildrenAlone
<1>11. ChildrenAlone'
  BY <1>2, <1>3, <1>10 DEF HolderInv, ChildrenAlone
<1>12. LookersFound'
  BY <1>1, <1>2 DEF HolderInv, LookersFound
<1> QED
  BY <1>7, <1>9, <1>11, <1>12 DEF HolderInv

\* A transaction that did not exist is alone, and nobody knows it.
LEMMA NewIsAlone ==
  ASSUME TypeInv, HolderInv, NEW t \in Transactions, life[t] = "none"
  PROVE  /\ topMostParent[t] = t
         /\ \A s \in Transactions : topMostParent[s] = t => s = t
         /\ \A v \in Holders : top(v) # t
         /\ \A v \in Linkers : child[v] # t
         /\ \A v \in Lookers : transaction[v] # t
<1>1. /\ topMostParent[t] \in Transactions
      /\ topMostParent[topMostParent[t]] = topMostParent[t]
      /\ life[topMostParent[t]] = "none"
      /\ \A s \in Transactions : topMostParent[s] = t => s = t
      /\ \A s \in Transactions : topMostParent[s] = topMostParent[t] => s = topMostParent[t]
  BY DEF TypeInv, HolderInv, TreesWhole
<1>2. topMostParent[t] = t
  BY <1>1
<1>3. /\ \A v \in Holders : top(v) # t
      /\ \A v \in Linkers : child[v] # t
      /\ \A v \in Lookers : transaction[v] # t
  BY DEF HolderInv, HoldersApart, ChildrenAlone, LookersFound
<1> QED
  BY <1>1, <1>2, <1>3

\* A new transaction, taken by the thread that makes it.
LEMMA NewTransactionHolders ==
  ASSUME TypeInv, HolderInv, NEW u \in Threads, NEW t \in Transactions, NewTransaction(u, t)
  PROVE  HolderInv'
<1>1. /\ life[t] = "none" /\ pc[u] = "idle"
      /\ life' = [life EXCEPT ![t] = "listed"]
      /\ unsent' = unsent \cup {t}
      /\ pc' = [pc EXCEPT ![u] = "using"]
      /\ transaction' = [transaction EXCEPT ![u] = t]
      /\ topMostParent' = topMostParent /\ old' = old /\ child' = child
      /\ mIsBusy' = [s \in Transactions |-> IF s \in Tree(t) THEN TRUE ELSE mIsBusy[s]]
  BY DEF NewTransaction, Take, Goto, doMarkBusy
<1>2. /\ topMostParent[t] = t
      /\ \A s \in Transactions : topMostParent[s] = t => s = t
      /\ \A v \in Holders : top(v) # t
      /\ \A v \in Linkers : child[v] # t
      /\ \A v \in Lookers : transaction[v] # t
  BY <1>1, NewIsAlone
<1>3. \A s \in Transactions : mIsBusy'[s] = IF s = t THEN TRUE ELSE mIsBusy[s]
  BY <1>1, <1>2 DEF Tree
<1>4. /\ Holders' = Holders \cup {u} /\ u \notin Holders
      /\ Linkers' = Linkers /\ Lookers' = Lookers /\ u \notin Linkers /\ u \notin Lookers
      /\ \A v \in Threads : v # u => transaction'[v] = transaction[v]
  BY <1>1 DEF TypeInv, Holders, Linkers, Lookers, Looking
<1>5. /\ \A v \in Holders : top(v)' = top(v) /\ top(v) \in Transactions
      /\ top(u)' = t
  BY <1>1, <1>2, <1>4 DEF top, TypeInv, Holders
<1>6. \A s \in Transactions : life'[s] = IF s = t THEN "listed" ELSE life[s]
  BY <1>1 DEF TypeInv
<1>7. TreesWhole'
  <2>1. topMostParent \in [Transactions -> Transactions]
    BY DEF TypeInv
  <2>2. \A s \in Transactions \ {t} : topMostParent[s] \in Transactions \ {t}
    BY <1>2, <2>1
  <2>3. /\ topMostParent'[t] = t /\ mIsBusy'[t] /\ life'[t] = "listed"
        /\ \A s \in Transactions \ {t} : life'[s] = life[s] /\ mIsBusy'[s] = mIsBusy[s]
    BY <1>1, <1>2, <1>3, <1>6
  <2>4. \A s \in Transactions \ {t} :
          /\ topMostParent[topMostParent[s]] = topMostParent[s]
          /\ life[s] = life[topMostParent[s]]
          /\ mIsBusy[s] = mIsBusy[topMostParent[s]]
          /\ ~mIsBusy[s] => (s \in old <=> topMostParent[s] \in old)
          /\ life[s] = "none" =>
               s \notin old /\ \A r \in Transactions : topMostParent[r] = s => r = s
    BY DEF HolderInv, TreesWhole
  <2>5. ASSUME NEW s \in Transactions, s # t
        PROVE  /\ topMostParent'[topMostParent'[s]] = topMostParent'[s]
               /\ life'[s] = life'[topMostParent'[s]]
               /\ mIsBusy'[s] = mIsBusy'[topMostParent'[s]]
               /\ ~mIsBusy'[s] => (s \in old' <=> topMostParent'[s] \in old')
               /\ life'[s] = "none" =>
                    s \notin old' /\ \A r \in Transactions : topMostParent'[r] = s => r = s
    <3>1. /\ topMostParent' = topMostParent /\ old' = old
          /\ topMostParent[s] \in Transactions /\ topMostParent[s] # t
      BY <1>1, <2>2, <2>5
    <3>2. /\ life'[s] = life[s] /\ life'[topMostParent[s]] = life[topMostParent[s]]
          /\ mIsBusy'[s] = mIsBusy[s] /\ mIsBusy'[topMostParent[s]] = mIsBusy[topMostParent[s]]
      BY <2>3, <2>5, <3>1
    <3> QED
      BY <2>4, <2>5, <3>1, <3>2
  <2>6. /\ topMostParent'[topMostParent'[t]] = topMostParent'[t]
        /\ life'[t] = life'[topMostParent'[t]] /\ life'[t] # "none"
        /\ mIsBusy'[t] = mIsBusy'[topMostParent'[t]] /\ mIsBusy'[t]
    BY <2>3
  <2> QED
    BY <2>5, <2>6 DEF TreesWhole
<1>8. HoldersApart'
  <2>1. \A v \in Holders' : life'[top(v)'] = "listed" /\ mIsBusy'[top(v)']
    <3>1. life'[t] = "listed" /\ mIsBusy'[t]
      BY <1>3, <1>6
    <3>2. \A v \in Holders : life[top(v)] = "listed" /\ mIsBusy[top(v)]
      BY DEF HolderInv, HoldersApart
    <3>3. ASSUME NEW v \in Holders PROVE life'[top(v)'] = "listed" /\ mIsBusy'[top(v)']
      BY <1>2, <1>3, <1>5, <1>6, <3>2
    <3>4. life'[top(u)'] = "listed" /\ mIsBusy'[top(u)']
      BY <1>5, <3>1
    <3> QED
      BY <1>4, <3>3, <3>4
  <2>2. \A v, w \in Holders' : v # w => top(v)' # top(w)'
    BY <1>2, <1>4, <1>5 DEF HolderInv, HoldersApart
  <2> QED
    BY <2>1, <2>2 DEF HoldersApart
<1>9. ChildrenAlone'
  <2>1. \A v \in Linkers : child[v] \in Transactions
    BY TransactionListAssumption DEF TypeInv, Linkers
  <2> QED
    BY <1>1, <1>2, <1>4, <1>5, <1>6, <2>1 DEF HolderInv, ChildrenAlone
<1>10. LookersFound'
  <2>1. \A v \in Lookers : transaction[v] \in Transactions /\ transaction'[v] = transaction[v]
    BY <1>4, TransactionListAssumption DEF TypeInv, Lookers, Looking
  <2> QED
    BY <1>1, <1>2, <1>4, <1>6, <2>1 DEF HolderInv, LookersFound
<1> QED
  BY <1>7, <1>8, <1>9, <1>10 DEF HolderInv

\* A child that is not linked yet, busy or not.
LEMMA AddChildHolders ==
  ASSUME TypeInv, HolderInv, NEW u \in Threads, NEW t \in Transactions, AddChild(u, t)
  PROVE  HolderInv'
<1>1. /\ life[t] = "none" /\ pc[u] = "using"
      /\ life' = [life EXCEPT ![t] = "listed"]
      /\ unsent' = unsent \cup {t}
      /\ pc' = [pc EXCEPT ![u] = "linking"]
      /\ child' = [child EXCEPT ![u] = t]
      /\ topMostParent' = topMostParent /\ old' = old /\ transaction' = transaction
      /\ \A s \in Transactions : s # t => mIsBusy'[s] = mIsBusy[s]
  BY DEF AddChild, Goto, TypeInv
<1>2. /\ topMostParent[t] = t
      /\ \A s \in Transactions : topMostParent[s] = t => s = t
      /\ \A v \in Holders : top(v) # t
      /\ \A v \in Linkers : child[v] # t
      /\ \A v \in Lookers : transaction[v] # t
  BY <1>1, NewIsAlone
<1>3. /\ Holders' = Holders /\ u \in Holders
      /\ Linkers' = Linkers \cup {u} /\ Lookers' = Lookers /\ u \notin Linkers
  BY <1>1 DEF TypeInv, Holders, Linkers, Lookers, Looking
<1>4. /\ \A v \in Holders : top(v)' = top(v) /\ top(v) \in Transactions
      /\ \A v \in Linkers : child'[v] = child[v] /\ child[v] \in Transactions
      /\ child'[u] = t
  <2>1. \A v \in Holders : transaction[v] \in Transactions
    BY DEF TypeInv, Holders
  <2>2. \A v \in Linkers : child[v] \in Transactions
    BY DEF TypeInv, Linkers
  <2> QED
    BY <1>1, <1>3, <2>1, <2>2 DEF top, TypeInv, Holders, Linkers
<1>5. \A s \in Transactions : life'[s] = IF s = t THEN "listed" ELSE life[s]
  BY <1>1 DEF TypeInv
<1>6. TreesWhole'
  <2>1. topMostParent \in [Transactions -> Transactions]
    BY DEF TypeInv
  <2> QED
    BY <1>1, <1>2, <1>5, <2>1 DEF HolderInv, TreesWhole
<1>7. HoldersApart'
  BY <1>1, <1>2, <1>3, <1>4, <1>5 DEF HolderInv, HoldersApart
<1>8. t \notin old
  BY <1>1 DEF HolderInv, TreesWhole
<1>9. ChildrenAlone'
  BY <1>1, <1>2, <1>3, <1>4, <1>5, <1>8 DEF HolderInv, ChildrenAlone
<1>10. LookersFound'
  <2>1. \A v \in Lookers : transaction[v] \in Transactions
    BY TransactionListAssumption DEF TypeInv, Lookers, Looking
  <2> QED
    BY <1>1, <1>2, <1>3, <1>5, <2>1 DEF HolderInv, LookersFound
<1> QED
  BY <1>6, <1>7, <1>9, <1>10 DEF HolderInv

\* The child joins a tree in use.
LEMMA linkChildHolders ==
  ASSUME TypeInv, HolderInv, NEW u \in Threads, linkChild(u)
  PROVE  HolderInv'
<1> DEFINE c == child[u]
           p == top(u)
<1>1. /\ pc[u] = "linking" /\ pc' = [pc EXCEPT ![u] = "using"]
      /\ topMostParent' = [topMostParent EXCEPT ![c] = p]
      /\ mIsBusy' = [mIsBusy EXCEPT ![c] = mIsBusy[transaction[u]]]
      /\ child' = [child EXCEPT ![u] = None]
      /\ life' = life /\ unsent' = unsent /\ old' = old /\ transaction' = transaction
  BY DEF linkChild, Goto, top
<1>2. /\ u \in Linkers /\ u \in Holders
      /\ Holders' = Holders /\ Linkers' = Linkers \ {u} /\ Lookers' = Lookers
  BY <1>1 DEF TypeInv, Holders, Linkers, Lookers, Looking
<1>3. /\ c \in Transactions /\ transaction[u] \in Transactions /\ p \in Transactions
      /\ p # c /\ topMostParent[p] = p /\ life[p] = "listed"
      /\ topMostParent[c] = c /\ life[c] = "listed"
      /\ \A s \in Transactions : topMostParent[s] = c => s = c
  <2>1. c \in Transactions /\ transaction[u] \in Transactions /\ p \in Transactions
    BY <1>1, <1>2 DEF TypeInv, Linkers, top
  <2>2. topMostParent[p] = p /\ life[p] = "listed"
    BY <1>2, <2>1 DEF HolderInv, TreesWhole, HoldersApart, top
  <2> QED
    BY <1>2, <2>1, <2>2 DEF HolderInv, ChildrenAlone
<1>4. mIsBusy[p] = TRUE /\ mIsBusy[transaction[u]] = TRUE
  BY <1>2, <1>3 DEF HolderInv, TreesWhole, HoldersApart, TypeInv, top
<1>5. /\ \A s \in Transactions : topMostParent'[s] = IF s = c THEN p ELSE topMostParent[s]
      /\ \A s \in Transactions : s # c => mIsBusy'[s] = mIsBusy[s] /\ topMostParent[s] # c
      /\ mIsBusy'[c] = TRUE /\ topMostParent'[c] = p
      /\ \A s \in Transactions : topMostParent[s] \in Transactions
  BY <1>1, <1>3, <1>4 DEF TypeInv
<1>6. TreesWhole'
  <2>1. ASSUME NEW s \in Transactions, s # c
        PROVE  /\ topMostParent'[topMostParent'[s]] = topMostParent'[s]
               /\ life'[s] = life'[topMostParent'[s]]
               /\ mIsBusy'[s] = mIsBusy'[topMostParent'[s]]
               /\ ~mIsBusy'[s] => (s \in old' <=> topMostParent'[s] \in old')
               /\ life'[s] = "none" =>
                    s \notin old' /\ \A r \in Transactions : topMostParent'[r] = s => r = s
    <3>1. /\ topMostParent[s] \in Transactions /\ topMostParent[s] # c
          /\ topMostParent'[s] = topMostParent[s]
          /\ topMostParent'[topMostParent[s]] = topMostParent[topMostParent[s]]
          /\ mIsBusy'[s] = mIsBusy[s] /\ mIsBusy'[topMostParent[s]] = mIsBusy[topMostParent[s]]
      BY <1>5, <2>1
    <3>2. life[s] = "none" => p # s
      BY <1>3
    <3>3. \A r \in Transactions : topMostParent'[r] = s => (r = c /\ p = s) \/ topMostParent[r] = s
      BY <1>5
    <3> QED
      BY <1>1, <3>1, <3>2, <3>3 DEF HolderInv, TreesWhole
  <2>2. /\ topMostParent'[topMostParent'[c]] = topMostParent'[c]
        /\ life'[c] = life'[topMostParent'[c]] /\ life'[c] # "none"
        /\ mIsBusy'[c] = mIsBusy'[topMostParent'[c]] /\ mIsBusy'[c]
    BY <1>1, <1>3, <1>4, <1>5
  <2> QED
    BY <2>1, <2>2 DEF TreesWhole
<1>7. \A v \in Holders : top(v)' = top(v) /\ top(v) \in Transactions /\ top(v) # c
  <2>1. \A v \in Holders : transaction[v] \in Transactions /\ top(v) # c
    <3>1. \A v \in Holders : transaction[v] \in Transactions
      BY DEF TypeInv, Holders
    <3> QED
      BY <1>2, <3>1 DEF HolderInv, ChildrenAlone
  <2>2. \A v \in Holders : transaction[v] # c
    BY <1>3, <2>1 DEF top
  <2> QED
    BY <1>1, <1>5, <2>1, <2>2 DEF top
<1>8. HoldersApart'
  <2>1. \A v \in Holders : life'[top(v)'] = "listed" /\ mIsBusy'[top(v)']
    BY <1>1, <1>5, <1>7 DEF HolderInv, HoldersApart
  <2>2. \A v, w \in Holders : v # w => top(v)' # top(w)'
    BY <1>7 DEF HolderInv, HoldersApart
  <2> QED
    BY <1>2, <2>1, <2>2 DEF HoldersApart
<1>9. ChildrenAlone'
  <2> SUFFICES ASSUME NEW v \in Linkers, v # u
               PROVE  /\ topMostParent'[child'[v]] = child'[v]
                      /\ \A s \in Transactions : topMostParent'[s] = child'[v] => s = child'[v]
                      /\ life'[child'[v]] = "listed" /\ child'[v] \in unsent' \ old'
                      /\ \A w \in Holders : top(w)' # child'[v]
                      /\ \A w \in Linkers \ {u} : v # w => child'[v] # child'[w]
    BY <1>2 DEF ChildrenAlone
  <2>1. /\ \A w \in Linkers \ {u} : child'[w] = child[w]
        /\ child[v] \in Transactions /\ child[v] # c /\ child[v] # p
    <3>1. \A w \in Linkers : child[w] \in Transactions
      BY DEF TypeInv, Linkers
    <3>2. child[v] # c /\ child[v] # p
      BY <1>2 DEF HolderInv, ChildrenAlone
    <3>3. \A w \in Threads \ {u} : child'[w] = child[w]
      BY <1>1 DEF TypeInv
    <3> QED
      BY <3>1, <3>2, <3>3 DEF Linkers
  <2>2. child'[v] = child[v]
    BY <2>1
  <2>3. /\ topMostParent[child[v]] = child[v]
        /\ \A s \in Transactions : topMostParent[s] = child[v] => s = child[v]
        /\ life[child[v]] = "listed" /\ child[v] \in unsent \ old
        /\ \A w \in Holders : top(w) # child[v]
        /\ \A w \in Linkers : v # w => child[v] # child[w]
    BY DEF HolderInv, ChildrenAlone
  <2>4. topMostParent'[child'[v]] = child'[v]
    BY <1>5, <2>1, <2>2, <2>3
  <2>5. \A s \in Transactions : topMostParent'[s] = child'[v] => s = child'[v]
    BY <1>5, <2>1, <2>2, <2>3
  <2> QED
    BY <1>1, <1>7, <2>1, <2>2, <2>3, <2>4, <2>5
<1>10. LookersFound'
  BY <1>1, <1>2 DEF HolderInv, LookersFound
<1> QED
  BY <1>6, <1>8, <1>9, <1>10 DEF HolderInv

\* A message is sent: what is not linked yet is not sent.
LEMMA FirstMessageHolders ==
  ASSUME TypeInv, HolderInv, NEW u \in Threads, NEW t \in Transactions, FirstMessage(u, t)
  PROVE  HolderInv'
<1>1. /\ u \in Holders /\ topMostParent[t] = top(u)
      /\ unsent' = unsent \ {t}
      /\ UNCHANGED <<life, topMostParent, mIsBusy, old, pc, transaction, child>>
  BY DEF FirstMessage, Holders, Tree, top, threadVars
<1>2. Holders' = Holders /\ Linkers' = Linkers /\ Lookers' = Lookers
  BY <1>1 DEF Holders, Linkers, Lookers
<1>3. \A v \in Linkers : child[v] # t
  BY <1>1 DEF HolderInv, ChildrenAlone
<1>4. \A v \in Threads : top(v)' = top(v)
  BY <1>1 DEF top
<1>5. TreesWhole'
  BY <1>1 DEF HolderInv, TreesWhole
<1>6. HoldersApart'
  BY <1>1, <1>2, <1>4 DEF HolderInv, HoldersApart, Holders
<1>7. ChildrenAlone'
  BY <1>1, <1>2, <1>3, <1>4 DEF HolderInv, ChildrenAlone, Holders
<1>8. LookersFound'
  BY <1>1, <1>2 DEF HolderInv, LookersFound
<1> QED
  BY <1>5, <1>6, <1>7, <1>8 DEF HolderInv

\* A transaction found busy is waited for, one that is not is taken.
LEMMA findTransactionForHolders ==
  ASSUME TypeInv, HolderInv, NEW u \in Threads, NEW t \in Transactions, findTransactionFor(u, t)
  PROVE  HolderInv'
<1>1. /\ t \notin unsent /\ life[t] = "listed" /\ LookUp(u, t)
      /\ UNCHANGED <<life, unsent, topMostParent, old, child>>
  BY DEF findTransactionFor, mTransactions
<1>2. CASE mIsBusy[t]
  <2>1. /\ pc[u] = "idle" /\ pc' = [pc EXCEPT ![u] = "waitUntilAvailable"]
        /\ transaction' = [transaction EXCEPT ![u] = t] /\ mIsBusy' = mIsBusy
    BY <1>1, <1>2 DEF LookUp, Goto
  <2>2. /\ Holders' = Holders /\ Linkers' = Linkers /\ u \notin Holders
        /\ \A v \in Threads : v # u => (v \in Lookers' <=> v \in Lookers)
    BY <2>1 DEF TypeInv, Holders, Linkers, Lookers, Looking
  <2>3. /\ \A v \in Threads : v # u => transaction'[v] = transaction[v]
        /\ transaction'[u] = t
    BY <2>1 DEF TypeInv
  <2>4. \A v \in Holders : transaction'[v] = transaction[v]
    BY <2>2, <2>3 DEF Holders
  <2>5. \A v \in Lookers' : \/ v \in Lookers /\ transaction'[v] = transaction[v]
                            \/ transaction'[v] \notin unsent /\ life[transaction'[v]] # "none"
    BY <1>1, <2>2, <2>3 DEF Lookers
  <2>6. UNCHANGED <<life, unsent, topMostParent, mIsBusy, old, child>>
    BY <1>1, <2>1
  <2> QED
    BY <2>2, <2>4, <2>5, <2>6, HolderFrame DEF SameHolders, NewLookersFound
<1>3. CASE ~mIsBusy[t]
  <2>1. /\ pc[u] = "idle" /\ pc' = [pc EXCEPT ![u] = "using"]
        /\ transaction' = [transaction EXCEPT ![u] = t] /\ doMarkBusy(t, TRUE)
    BY <1>1, <1>3 DEF LookUp, Take, Goto
  <2> QED
    BY <1>1, <1>3, <2>1, HolderTakes
<1> QED
  BY <1>2, <1>3

\* A waiter that was woken takes what it looked for.
LEMMA FoundAvailableHolders ==
  ASSUME TypeInv, HolderInv, NEW u \in Threads, FoundAvailable(u)
  PROVE  HolderInv'
<1> DEFINE t == transaction[u]
<1>1. /\ t \in Transactions /\ life[t] = "listed" /\ ~mIsBusy[t]
      /\ pc[u] = "waitUntilAvailable" /\ pc' = [pc EXCEPT ![u] = "using"]
      /\ transaction' = [transaction EXCEPT ![u] = t] /\ doMarkBusy(t, TRUE)
      /\ UNCHANGED <<life, unsent, topMostParent, old, child>>
  BY DEF FoundAvailable, mTransactions, Take, Goto
<1>2. t \notin unsent
  BY <1>1 DEF HolderInv, LookersFound, Lookers, Looking
<1> QED
  BY <1>1, <1>2, HolderTakes

\* All of the tree becomes available, and young again.
LEMMA markAvailableHolders ==
  ASSUME TypeInv, HolderInv, NEW u \in Threads, markAvailable(u)
  PROVE  HolderInv'
<1> DEFINE p == top(u)
<1>1. /\ pc[u] = "using" /\ pc' = [pc EXCEPT ![u] = "idle"]
      /\ transaction' = [transaction EXCEPT ![u] = None]
      /\ old' = old \ {s \in Transactions : topMostParent[s] = p}
      /\ \A s \in Transactions :
           mIsBusy'[s] = IF topMostParent[s] = p THEN FALSE ELSE mIsBusy[s]
      /\ UNCHANGED <<life, unsent, topMostParent, child>>
  BY DEF markAvailable, Goto, doMarkBusy, Tree, top
<1>2. /\ u \in Holders /\ Holders' = Holders \ {u} /\ Linkers' = Linkers /\ Lookers' = Lookers
      /\ \A v \in Threads : v # u => transaction'[v] = transaction[v]
      /\ u \notin Lookers
  BY <1>1 DEF TypeInv, Holders, Linkers, Lookers, Looking
<1>3. /\ \A v \in Holders : top(v) \in Transactions /\ topMostParent[top(v)] = top(v)
      /\ \A v \in Holders \ {u} : top(v)' = top(v) /\ top(v) # p
  <2>1. \A v \in Holders : transaction[v] \in Transactions
    BY DEF TypeInv, Holders
  <2>2. \A v \in Holders : top(v) \in Transactions /\ topMostParent[top(v)] = top(v)
    BY <2>1 DEF HolderInv, TreesWhole, TypeInv, top
  <2>3. \A v \in Holders \ {u} : top(v)' = top(v)
    BY <1>1, <1>2 DEF top, Holders
  <2>4. \A v \in Holders \ {u} : top(v) # p
    BY <1>2 DEF HolderInv, HoldersApart
  <2> QED
    BY <2>2, <2>3, <2>4
<1>4. TreesWhole'
  <2>1. ASSUME NEW s \in Transactions
        PROVE  /\ topMostParent[s] \in Transactions
               /\ topMostParent[topMostParent[s]] = topMostParent[s]
               /\ life[s] = life[topMostParent[s]]
               /\ mIsBusy'[s] = mIsBusy'[topMostParent[s]]
               /\ ~mIsBusy'[s] => (s \in old' <=> topMostParent[s] \in old')
               /\ life[s] = "none" =>
                    s \notin old' /\ \A r \in Transactions : topMostParent[r] = s => r = s
    <3>1. topMostParent[s] \in Transactions
      BY DEF TypeInv
    <3> QED
      BY <1>1, <3>1 DEF HolderInv, TreesWhole
  <2> QED
    BY <1>1, <2>1 DEF TreesWhole
<1>5. HoldersApart'
  <2>1. \A v \in Holders \ {u} : life'[top(v)'] = "listed" /\ mIsBusy'[top(v)']
    BY <1>1, <1>3 DEF HolderInv, HoldersApart
  <2>2. \A v, w \in Holders \ {u} : v # w => top(v)' # top(w)'
    BY <1>3 DEF HolderInv, HoldersApart
  <2> QED
    BY <1>2, <2>1, <2>2 DEF HoldersApart
<1>6. ChildrenAlone'
  BY <1>1, <1>2, <1>3 DEF HolderInv, ChildrenAlone
<1>7. LookersFound'
  BY <1>1, <1>2 DEF HolderInv, LookersFound, Lookers
<1> QED
  BY <1>4, <1>5, <1>6, <1>7 DEF HolderInv

\* A tree gets old as a whole, and a child that is not linked is not of one.
LEMMA GetsOldHolders ==
  ASSUME TypeInv, HolderInv, NEW t \in Transactions, GetsOld(t)
  PROVE  HolderInv'
<1>1. /\ life[t] = "listed" /\ \A v \in Threads : child[v] # t
      /\ old' = old \cup {s \in Transactions : topMostParent[s] = topMostParent[t]}
      /\ UNCHANGED <<life, unsent, topMostParent, mIsBusy, pc, transaction, child>>
  BY DEF GetsOld, mTransactions, Tree, threadVars
<1>2. /\ Holders' = Holders /\ Linkers' = Linkers /\ Lookers' = Lookers
      /\ \A v \in Threads : top(v)' = top(v)
  BY <1>1 DEF Holders, Linkers, Lookers, top
<1>3. TreesWhole'
  <2>1. ASSUME NEW s \in Transactions
        PROVE  /\ topMostParent[topMostParent[s]] = topMostParent[s]
               /\ life[s] = life[topMostParent[s]]
               /\ mIsBusy[s] = mIsBusy[topMostParent[s]]
               /\ ~mIsBusy[s] => (s \in old' <=> topMostParent[s] \in old')
               /\ life[s] = "none" =>
                    s \notin old' /\ \A r \in Transactions : topMostParent[r] = s => r = s
    <3>1. topMostParent[s] \in Transactions
      BY DEF TypeInv
    <3>2. topMostParent[s] = topMostParent[t] => life[s] # "none"
      BY <1>1 DEF HolderInv, TreesWhole
    <3> QED
      BY <1>1, <3>1, <3>2 DEF HolderInv, TreesWhole
  <2> QED
    BY <1>1, <2>1 DEF TreesWhole
<1>4. HoldersApart'
  BY <1>1, <1>2 DEF HolderInv, HoldersApart, Holders
<1>5. ChildrenAlone'
  <2>1. ASSUME NEW v \in Linkers PROVE child[v] \notin old'
    <3>1. child[v] # t /\ child[v] \notin old
      BY <1>1 DEF HolderInv, ChildrenAlone, Linkers
    <3>2. topMostParent[child[v]] # topMostParent[t]
      BY <1>1, <3>1 DEF HolderInv, ChildrenAlone
    <3> QED
      BY <1>1, <3>1, <3>2
  <2> QED
    BY <1>1, <1>2, <2>1 DEF HolderInv, ChildrenAlone, Holders
<1>6. LookersFound'
  BY <1>1, <1>2 DEF HolderInv, LookersFound
<1> QED
  BY <1>3, <1>4, <1>5, <1>6 DEF HolderInv

\* Whole trees are collected, and none that somebody has.
LEMMA removeOldHolders ==
  ASSUME TypeInv, HolderInv, removeOldTransactions
  PROVE  HolderInv'
<1> DEFINE removed == {t \in mTransactions \cap old : ~mIsBusy[t]}
<1>1. /\ pc[Collector] = "idle" /\ pc' = [pc EXCEPT ![Collector] = "deleting"]
      /\ life' = [t \in Transactions |-> IF t \in removed THEN "removed" ELSE life[t]]
      /\ UNCHANGED <<unsent, topMostParent, mIsBusy, old, transaction, child>>
  BY DEF removeOldTransactions, RemoveFromList
<1>2. /\ Holders' = Holders /\ Linkers' = Linkers /\ Lookers' = Lookers
      /\ \A v \in Threads : top(v)' = top(v)
  BY <1>1 DEF TypeInv, Holders, Linkers, Lookers, Looking, top
<1>3. \A s \in Transactions :
        s \in removed <=> life[s] = "listed" /\ s \in old /\ ~mIsBusy[s]
  BY DEF mTransactions
<1>4. \A s \in Transactions : life'[s] = IF s \in removed THEN "removed" ELSE life[s]
  BY <1>1
<1>5. TreesWhole'
  <2>1. ASSUME NEW s \in Transactions
        PROVE  /\ topMostParent[topMostParent[s]] = topMostParent[s]
               /\ life'[s] = life'[topMostParent[s]]
               /\ mIsBusy[s] = mIsBusy[topMostParent[s]]
               /\ ~mIsBusy[s] => (s \in old <=> topMostParent[s] \in old)
               /\ life'[s] = "none" =>
                    s \notin old /\ \A r \in Transactions : topMostParent[r] = s => r = s
    <3>1. topMostParent[s] \in Transactions
      BY DEF TypeInv
    <3>2. s \in removed <=> topMostParent[s] \in removed
      BY <1>3, <3>1 DEF HolderInv, TreesWhole
    <3>3. life'[s] = life'[topMostParent[s]]
      BY <1>4, <3>1, <3>2 DEF HolderInv, TreesWhole
    <3>4. life'[s] = "none" => life[s] = "none"
      BY <1>4
    <3> QED
      BY <3>3, <3>4 DEF HolderInv, TreesWhole
  <2> QED
    BY <1>1, <2>1 DEF TreesWhole
<1>6. HoldersApart'
  <2>1. ASSUME NEW v \in Holders PROVE life'[top(v)] = "listed" /\ mIsBusy[top(v)]
    <3>1. top(v) \in Transactions
      BY DEF TypeInv, top, Holders
    <3> QED
      BY <1>3, <1>4, <3>1 DEF HolderInv, HoldersApart
  <2>2. \A v \in Holders : top(v)' = top(v)
    BY <1>2 DEF Holders
  <2> QED
    BY <1>1, <1>2, <2>1, <2>2 DEF HolderInv, HoldersApart
<1>7. ChildrenAlone'
  <2>1. ASSUME NEW v \in Linkers PROVE life'[child[v]] = "listed"
    <3>1. child[v] \in Transactions /\ child[v] \notin old /\ life[child[v]] = "listed"
      BY DEF TypeInv, Linkers, HolderInv, ChildrenAlone
    <3> QED
      BY <1>3, <1>4, <3>1
  <2> QED
    BY <1>1, <1>2, <2>1 DEF HolderInv, ChildrenAlone, Holders
<1>8. LookersFound'
  <2>1. \A v \in Lookers : transaction[v] \in Transactions
    BY DEF TypeInv, Lookers, Looking
  <2> QED
    BY <1>1, <1>2, <1>4, <2>1 DEF HolderInv, LookersFound
<1> QED
  BY <1>5, <1>6, <1>7, <1>8 DEF HolderInv

\* What is deleted is in no tree that somebody has.
LEMMA deleteHolders ==
  ASSUME TypeInv, HolderInv, deleteTransactions
  PROVE  HolderInv'
<1>1. /\ pc[Collector] = "deleting" /\ pc' = [pc EXCEPT ![Collector] = "idle"]
      /\ \A s \in Transactions : life'[s] = IF life[s] = "removed" THEN "deleted" ELSE life[s]
      /\ UNCHANGED <<unsent, topMostParent, mIsBusy, old, transaction, child>>
  BY DEF deleteTransactions
<1>2. /\ Holders' = Holders /\ Linkers' = Linkers /\ Lookers' = Lookers
      /\ \A v \in Threads : top(v)' = top(v)
  BY <1>1 DEF TypeInv, Holders, Linkers, Lookers, Looking, top
<1>3. /\ \A v \in Holders : transaction[v] \in Transactions /\ top(v) \in Transactions
      /\ \A v \in Linkers : child[v] \in Transactions
      /\ \A v \in Lookers : transaction[v] \in Transactions
  <2>1. \A v \in Holders \cup Lookers : transaction[v] \in Transactions
    BY DEF TypeInv, Holders, Lookers, Looking
  <2> QED
    BY <2>1 DEF TypeInv, Holders, Linkers, Lookers, top
<1>4. TreesWhole'
  <2>1. topMostParent \in [Transactions -> Transactions]
    BY DEF TypeInv
  <2> QED
    BY <1>1, <2>1 DEF HolderInv, TreesWhole
<1>5. HoldersApart'
  BY <1>1, <1>2, <1>3 DEF HolderInv, HoldersApart, Holders
<1>6. ChildrenAlone'
  BY <1>1, <1>2, <1>3 DEF HolderInv, ChildrenAlone, Holders
<1>7. LookersFound'
  BY <1>1, <1>2, <1>3 DEF HolderInv, LookersFound
<1> QED
  BY <1>4, <1>5, <1>6, <1>7 DEF HolderInv

\* Every step keeps one holder for each tree.
LEMMA HolderStep ==
  ASSUME TypeInv, HolderInv, [Next]_vars
  PROVE  HolderInv'
<1>1. ASSUME NEW u \in Threads, FoundGone(u) PROVE HolderInv'
  <2>1. /\ pc[u] = "waitUntilAvailable" /\ pc' = [pc EXCEPT ![u] = "idle"]
        /\ transaction' = [transaction EXCEPT ![u] = None]
        /\ UNCHANGED <<life, unsent, topMostParent, mIsBusy, old, child>>
    BY <1>1 DEF FoundGone, Goto, transactionVars
  <2>2. /\ Holders' = Holders /\ Linkers' = Linkers
        /\ \A v \in Holders : transaction'[v] = transaction[v]
        /\ \A v \in Lookers' : v \in Lookers /\ transaction'[v] = transaction[v]
    BY <2>1 DEF TypeInv, Holders, Linkers, Lookers, Looking
  <2>3. UNCHANGED <<life, unsent, topMostParent, mIsBusy, old, child>>
    BY <2>1
  <2> QED
    BY <2>2, <2>3, HolderFrame DEF SameHolders, NewLookersFound
<1>2. ASSUME NEW u \in Threads, notifyWhenAvailable(u) \/ WaitSucceeds(u) \/ WaitTimesOut(u)
      PROVE  HolderInv'
  <2>1. /\ \E from, to \in Looking : pc[u] = from /\ pc' = [pc EXCEPT ![u] = to]
        /\ transaction' = transaction
        /\ UNCHANGED <<life, unsent, topMostParent, mIsBusy, old, child>>
    BY <1>2 DEF notifyWhenAvailable, WaitSucceeds, WaitTimesOut, Goto, transactionVars, Looking
  <2>2. Holders' = Holders /\ Linkers' = Linkers /\ Lookers' = Lookers
    BY <2>1 DEF TypeInv, Holders, Linkers, Lookers, Looking
  <2>3. UNCHANGED <<life, unsent, topMostParent, mIsBusy, old, child>>
    BY <2>1
  <2>4. /\ \A v \in Holders : transaction'[v] = transaction[v]
        /\ \A v \in Lookers' : v \in Lookers /\ transaction'[v] = transaction[v]
    BY <2>1, <2>2
  <2> QED
    BY <2>2, <2>3, <2>4, HolderFrame DEF SameHolders, NewLookersFound
<1>3. ASSUME NEW u \in Threads, WaiterSignals(u) PROVE HolderInv'
  <2>1. /\ pc[u] \in Looking
        /\ \/ pc' = [pc EXCEPT ![u] = "waitUntilAvailable"] /\ transaction' = transaction
           \/ pc' = [pc EXCEPT ![u] = "idle"]
              /\ transaction' = [transaction EXCEPT ![u] = None]
    BY <1>3 DEF WaiterSignals, Goto, Looking
  <2>2. UNCHANGED <<life, unsent, topMostParent, mIsBusy, old, child>>
    BY <1>3 DEF WaiterSignals, transactionVars
  <2>3. /\ Holders' = Holders /\ Linkers' = Linkers
        /\ \A v \in Holders : transaction'[v] = transaction[v]
        /\ \A v \in Lookers' : v \in Lookers /\ transaction'[v] = transaction[v]
    BY <2>1 DEF TypeInv, Holders, Linkers, Lookers, Looking
  <2> QED
    BY <2>2, <2>3, HolderFrame DEF SameHolders, NewLookersFound
<1>4. CASE UNCHANGED vars
  <2>1. UNCHANGED <<life, unsent, topMostParent, mIsBusy, old, child>>
        /\ pc' = pc /\ transaction' = transaction
    BY <1>4 DEF vars, transactionVars, threadVars
  <2>2. Holders' = Holders /\ Linkers' = Linkers /\ Lookers' = Lookers
    BY <2>1 DEF Holders, Linkers, Lookers
  <2>3. UNCHANGED <<life, unsent, topMostParent, mIsBusy, old, child>>
    BY <2>1
  <2>4. /\ \A v \in Holders : transaction'[v] = transaction[v]
        /\ \A v \in Lookers' : v \in Lookers /\ transaction'[v] = transaction[v]
    BY <2>1, <2>2
  <2> QED
    BY <2>2, <2>3, <2>4, HolderFrame DEF SameHolders, NewLookersFound
<1> QED
  BY <1>1, <1>2, <1>3, <1>4, NewTransactionHolders, AddChildHolders, linkChildHolders,
     FirstMessageHolders, findTransactionForHolders, FoundAvailableHolders,
     markAvailableHolders, GetsOldHolders, removeOldHolders, deleteHolders DEF Next

-----------------------------------------------------------------------------
(* Events.                                                                 *)

\* A step that leaves the events, the lists and the waiters alone.
LEMMA EventFrame ==
  ASSUME EventInv, UNCHANGED <<mWaitingList, mIsSignaled, allocated, waitEvent>>,
         Waiting' = Waiting,
         \A v \in Waiting : top(v)' = top(v),
         \A v \in Threads : pc'[v] = "woken" => waitEvent[v] \in mIsSignaled
  PROVE  EventInv'
<1>1. EventsDistinct'
  BY DEF EventInv, EventsDistinct, Listed
<1>2. Handshake'
  BY DEF EventInv, Handshake, Listed
<1>3. EventsAccounted'
  BY DEF EventInv, EventsAccounted
<1> QED
  BY <1>1, <1>2, <1>3 DEF EventInv

\* A new event is known to the list and to its waiter only.
LEMMA notifyWhenAvailableEvents ==
  ASSUME TypeInv, EventInv, NEW u \in Threads, notifyWhenAvailable(u)
  PROVE  EventInv'
<1>2. top(u) \in Transactions
  BY DEF TypeInv, notifyWhenAvailable, mTransactions, top
<1> PICK p \in Transactions : p = top(u)
  BY <1>2
<1> PICK n \in Int : n = numEvents + 1
  BY DEF TypeInv
<1>1. /\ pc[u] = "waitUntilAvailable" /\ pc' = [pc EXCEPT ![u] = "wait"]
      /\ numEvents < MaxEvents /\ numEvents' = n
      /\ allocated' = allocated \cup {n}
      /\ waitEvent' = [waitEvent EXCEPT ![u] = n]
      /\ mWaitingList' = [mWaitingList EXCEPT ![p] = Append(@, n)]
      /\ UNCHANGED <<topMostParent, mIsSignaled, transaction>>
  BY DEF notifyWhenAvailable, Goto, mTransactions, top
<1>3. n \in Events /\ n \notin Created
  BY <1>1, TransactionListAssumption DEF TypeInv, Created, Events
<1>4. /\ u \notin Waiting /\ Waiting' = Waiting \cup {u}
      /\ waitEvent'[u] = n
      /\ \A v \in Waiting : waitEvent'[v] = waitEvent[v] /\ waitEvent[v] \in Created
  BY <1>1 DEF TypeInv, Waiting
<1>5. \A v \in Threads : top(v)' = top(v)
  BY <1>1 DEF top
<1>6. \A t \in Transactions : Listed(t) \subseteq Created
  BY DEF TypeInv, Listed
<1>7. /\ Listed(p)' = Listed(p) \cup {n}
      /\ IsInjective(mWaitingList[p]) => IsInjective(mWaitingList'[p])
      /\ \A t \in Transactions : t # p => mWaitingList'[t] = mWaitingList[t]
  <2>1. mWaitingList[p] \in Seq(Events) /\ n \notin ToSet(mWaitingList[p])
    BY <1>2, <1>3, <1>6 DEF TypeInv, Listed
  <2>2. mWaitingList'[p] = Append(mWaitingList[p], n)
    BY <1>1, <1>2 DEF TypeInv
  <2>3. /\ ToSet(Append(mWaitingList[p], n)) = ToSet(mWaitingList[p]) \cup {n}
        /\ IsInjective(mWaitingList[p]) => IsInjective(Append(mWaitingList[p], n))
    BY <1>3, <2>1, AppendEvent
  <2>4. \A t \in Transactions : t # p => mWaitingList'[t] = mWaitingList[t]
    BY <1>1 DEF TypeInv
  <2> QED
    BY <2>2, <2>3, <2>4 DEF Listed
<1>8. \A t \in Transactions : t # p => Listed(t)' = Listed(t)
  BY <1>7 DEF Listed
<1>9. EventsDistinct'
  <2>1. \A t \in Transactions : IsInjective(mWaitingList'[t])
    BY <1>7 DEF EventInv, EventsDistinct
  <2>2. \A s, t \in Transactions : s # t => Listed(s)' \cap Listed(t)' = {}
    BY <1>3, <1>6, <1>7, <1>8 DEF EventInv, EventsDistinct
  <2>3. \A v, w \in Waiting' : waitEvent'[v] = waitEvent'[w] => v = w
    BY <1>3, <1>4 DEF EventInv, EventsDistinct
  <2> QED
    BY <2>1, <2>2, <2>3 DEF EventsDistinct
<1>10. Handshake'
  <2>1. n \notin mIsSignaled
    BY <1>3 DEF TypeInv
  <2>2. ASSUME NEW v \in Waiting
        PROVE  IF waitEvent'[v] \in mIsSignaled'
               THEN \A t \in Transactions : waitEvent'[v] \notin Listed(t)'
               ELSE waitEvent'[v] \in Listed(top(v))'
    <3>1. waitEvent'[v] = waitEvent[v] /\ waitEvent[v] # n /\ mIsSignaled' = mIsSignaled
      BY <1>1, <1>3, <1>4
    <3>2. CASE waitEvent[v] \in mIsSignaled
      <4>1. \A t \in Transactions : waitEvent[v] \notin Listed(t)
        BY <3>2 DEF EventInv, Handshake
      <4> QED
        BY <1>7, <1>8, <3>1, <3>2, <4>1
    <3>3. CASE waitEvent[v] \notin mIsSignaled
      <4>1. waitEvent[v] \in Listed(top(v))
        BY <3>3 DEF EventInv, Handshake
      <4>2. top(v) \in Transactions /\ top(v)' = top(v)
        <5>1. v \in Threads /\ transaction[v] \in Transactions
          BY DEF TypeInv, Waiting
        <5> QED
          BY <1>5, <5>1 DEF TypeInv, top
      <4>3. waitEvent[v] \in ToSet(mWaitingList'[top(v)])
        BY <1>7, <1>8, <4>1, <4>2 DEF Listed
      <4> QED
        BY <3>1, <3>3, <4>2, <4>3 DEF Listed
    <3> QED
      BY <3>2, <3>3
  <2>3. waitEvent'[u] \notin mIsSignaled' /\ waitEvent'[u] \in Listed(top(u))'
    <3>1. n \in ToSet(mWaitingList'[p])
      BY <1>7 DEF Listed
    <3> QED
      BY <1>1, <1>4, <1>5, <2>1, <3>1 DEF Listed
  <2>4. ASSUME NEW t \in Transactions, NEW e \in Listed(t)'
        PROVE  e \in mIsSignaled' \/ \E v \in Waiting' : waitEvent'[v] = e
    <3>1. CASE e = n
      BY <1>4, <3>1
    <3>2. CASE e # n
      <4>1. e \in Listed(t)
        BY <1>7, <1>8, <2>4, <3>2
      <4> QED
        BY <1>1, <1>4, <4>1 DEF EventInv, Handshake
    <3> QED
      BY <3>1, <3>2
  <2>5. \A v \in Threads : pc'[v] = "woken" => waitEvent'[v] \in mIsSignaled'
    BY <1>1 DEF EventInv, Handshake, TypeInv
  <2> QED
    BY <1>4, <2>2, <2>3, <2>4, <2>5 DEF Handshake
<1>11. EventsAccounted'
  <2>1. UNION {ToSet(mWaitingList'[t]) : t \in Transactions} =
        (UNION {ToSet(mWaitingList[t]) : t \in Transactions}) \cup {n}
    BY <1>2, <1>7, <1>8 DEF Listed
  <2>2. {waitEvent'[v] : v \in Waiting'} = {waitEvent[v] : v \in Waiting} \cup {n}
    BY <1>4
  <2> QED
    BY <1>1, <2>1, <2>2 DEF EventInv, EventsAccounted
<1> QED
  BY <1>9, <1>10, <1>11 DEF EventInv
\* A waiter signals its event: the second to do so deletes it.
LEMMA WaiterSignalsEvents ==
  ASSUME TypeInv, EventInv, NEW u \in Threads, WaiterSignals(u)
  PROVE  EventInv'
<1>1. /\ u \in Waiting /\ Waiting' = Waiting \ {u}
      /\ \A v \in Waiting \ {u} : pc'[v] = pc[v] /\ transaction'[v] = transaction[v]
      /\ pc'[u] # "woken" /\ \A v \in Threads : pc'[v] = "woken" => v \in Waiting \ {u}
  BY DEF WaiterSignals, Goto, TypeInv, Waiting
<1>2. /\ signal(waitEvent[u])
      /\ UNCHANGED <<topMostParent, mWaitingList>>
      /\ \A v \in Threads \ {u} : waitEvent'[v] = waitEvent[v]
  BY DEF WaiterSignals, transactionVars, TypeInv
<1> PICK e \in Created : e = waitEvent[u]
  BY <1>1 DEF TypeInv
<1>3. \A v \in Waiting \ {u} : waitEvent'[v] = waitEvent[v] /\ waitEvent[v] # e /\ v \in Waiting
  BY <1>1, <1>2 DEF EventInv, EventsDistinct, Waiting
<1>4. \A v \in Waiting \ {u} : top(v)' = top(v)
  BY <1>1, <1>2 DEF top
<1>5. EventsDistinct'
  <2>1. \A v, w \in Waiting' : waitEvent'[v] = waitEvent'[w] => v = w
    BY <1>1, <1>3 DEF EventInv, EventsDistinct
  <2> QED
    BY <1>2, <2>1 DEF EventInv, EventsDistinct, Listed
<1>6. UNION {ToSet(mWaitingList'[t]) : t \in Transactions} =
      UNION {ToSet(mWaitingList[t]) : t \in Transactions}
  BY <1>2
<1>7. {waitEvent'[v] : v \in Waiting'} \cup {e} = {waitEvent[v] : v \in Waiting}
      /\ e \notin {waitEvent'[v] : v \in Waiting'}
  BY <1>1, <1>3
<1>8. CASE e \in mIsSignaled
  <2>1. allocated' = allocated \ {e} /\ mIsSignaled' = mIsSignaled
    BY <1>2, <1>8 DEF signal
  <2>2. \A t \in Transactions : e \notin Listed(t)
    BY <1>1, <1>8 DEF EventInv, Handshake
  <2>3. EventsAccounted'
    <3>1. e \notin UNION {ToSet(mWaitingList[t]) : t \in Transactions}
      BY <2>2 DEF Listed
    <3> QED
      BY <1>6, <1>7, <2>1, <3>1 DEF EventInv, EventsAccounted
  <2>4. Handshake'
    <3>1. \A v \in Waiting' :
            IF waitEvent'[v] \in mIsSignaled'
            THEN \A t \in Transactions : waitEvent'[v] \notin Listed(t)'
            ELSE waitEvent'[v] \in Listed(top(v))'
      BY <1>1, <1>2, <1>3, <1>4, <2>1 DEF EventInv, Handshake, Listed
    <3>2. ASSUME NEW t \in Transactions, NEW f \in Listed(t)'
          PROVE  f \in mIsSignaled' \/ \E v \in Waiting' : waitEvent'[v] = f
      <4>1. f \in Listed(t) /\ f # e
        BY <1>2, <2>2 DEF Listed
      <4> QED
        BY <1>1, <1>3, <2>1, <4>1 DEF EventInv, Handshake
    <3>3. \A v \in Threads : pc'[v] = "woken" => waitEvent'[v] \in mIsSignaled'
      BY <1>1, <1>2, <2>1 DEF EventInv, Handshake
    <3> QED
      BY <3>1, <3>2, <3>3 DEF Handshake
  <2> QED
    BY <1>5, <2>3, <2>4 DEF EventInv
<1>9. CASE e \notin mIsSignaled
  <2>1. allocated' = allocated /\ mIsSignaled' = mIsSignaled \cup {e}
    BY <1>2, <1>9 DEF signal
  <2>2. EventsAccounted'
    <3>1. e \in UNION {ToSet(mWaitingList[t]) : t \in Transactions}
      <4>1. e \in Listed(top(u)) /\ top(u) \in Transactions
        <5>1. top(u) \in Transactions
          BY <1>1 DEF TypeInv, Waiting, top
        <5> QED
          BY <1>1, <1>9, <5>1 DEF EventInv, Handshake
      <4> QED
        BY <4>1 DEF Listed
    <3> QED
      BY <1>6, <1>7, <2>1, <3>1 DEF EventInv, EventsAccounted
  <2>3. Handshake'
    <3>1. \A v \in Waiting' :
            IF waitEvent'[v] \in mIsSignaled'
            THEN \A t \in Transactions : waitEvent'[v] \notin Listed(t)'
            ELSE waitEvent'[v] \in Listed(top(v))'
      BY <1>1, <1>2, <1>3, <1>4, <2>1 DEF EventInv, Handshake, Listed
    <3>2. ASSUME NEW t \in Transactions, NEW f \in Listed(t)'
          PROVE  f \in mIsSignaled' \/ \E v \in Waiting' : waitEvent'[v] = f
      <4>1. f \in Listed(t)
        BY <1>2 DEF Listed
      <4> QED
        BY <1>1, <1>3, <2>1, <4>1 DEF EventInv, Handshake
    <3>3. \A v \in Threads : pc'[v] = "woken" => waitEvent'[v] \in mIsSignaled'
      BY <1>1, <1>2, <2>1 DEF EventInv, Handshake
    <3> QED
      BY <3>1, <3>2, <3>3 DEF Handshake
  <2> QED
    BY <1>5, <2>2, <2>3 DEF EventInv
<1> QED
  BY <1>8, <1>9

\* The list signals its first event: if its waiter did before, it is deleted.
LEMMA markAvailableEvents ==
  ASSUME TypeInv, EventInv, NEW u \in Threads, markAvailable(u)
  PROVE  EventInv'
<1>1. /\ pc[u] = "using" /\ pc' = [pc EXCEPT ![u] = "idle"]
      /\ transaction' = [transaction EXCEPT ![u] = None]
      /\ signalNextAvailable(top(u))
      /\ UNCHANGED <<topMostParent, waitEvent>>
  BY DEF markAvailable, Goto, top
<1>2. /\ Waiting' = Waiting /\ u \notin Waiting
      /\ \A v \in Threads : pc'[v] = "woken" => pc[v] = "woken"
      /\ \A v \in Waiting : transaction'[v] = transaction[v]
  BY <1>1 DEF TypeInv, Waiting
<1>3. \A v \in Waiting : top(v)' = top(v)
  BY <1>1, <1>2 DEF top
<1>4. top(u) \in Transactions
  BY <1>1 DEF TypeInv, top
<1> PICK p \in Transactions : p = top(u)
  BY <1>4
<1>5. CASE mWaitingList[p] = <<>>
  <2>1. UNCHANGED <<mWaitingList, mIsSignaled, allocated>>
    BY <1>1, <1>5 DEF signalNextAvailable
  <2>2. UNCHANGED <<mWaitingList, mIsSignaled, allocated, waitEvent>>
    BY <1>1, <2>1
  <2>3. \A v \in Threads : pc'[v] = "woken" => waitEvent[v] \in mIsSignaled
    BY <1>2 DEF EventInv, Handshake
  <2> QED
    BY <1>2, <1>3, <2>2, <2>3, EventFrame
<1>6. CASE mWaitingList[p] # <<>>
  <2> PICK e : e = Head(mWaitingList[p])
    OBVIOUS
  <2>1. signal(e) /\ mWaitingList' = [mWaitingList EXCEPT ![p] = Tail(@)]
    BY <1>1, <1>6 DEF signalNextAvailable
  <2>2. \A t \in Transactions :
          mWaitingList'[t] = IF t = p THEN Tail(mWaitingList[p]) ELSE mWaitingList[t]
    BY <2>1 DEF TypeInv
  <2>3. mWaitingList[p] \in Seq(Events)
    BY DEF TypeInv
  <2>4. /\ ToSet(mWaitingList[p]) = ToSet(Tail(mWaitingList[p])) \cup {e}
        /\ e \notin ToSet(Tail(mWaitingList[p]))
        /\ IsInjective(Tail(mWaitingList[p]))
    BY <1>6, <2>3, TailEvents DEF EventInv, EventsDistinct
  <2>5. /\ Listed(p) = Listed(p)' \cup {e} /\ e \notin Listed(p)'
        /\ \A t \in Transactions : t # p => Listed(t)' = Listed(t)
    BY <2>2, <2>4 DEF Listed
  <2>6. \A t \in Transactions : e \notin Listed(t)' /\ Listed(t)' \subseteq Listed(t)
    BY <2>5 DEF EventInv, EventsDistinct
  <2>7. EventsDistinct'
    <3>1. \A t \in Transactions : IsInjective(mWaitingList'[t])
      BY <2>2, <2>4 DEF EventInv, EventsDistinct
    <3>2. \A s, t \in Transactions : s # t => Listed(s)' \cap Listed(t)' = {}
      BY <2>6 DEF EventInv, EventsDistinct
    <3> QED
      BY <1>1, <1>2, <3>1, <3>2 DEF EventInv, EventsDistinct
  <2>8. (UNION {ToSet(mWaitingList[t]) : t \in Transactions}) =
        (UNION {ToSet(mWaitingList'[t]) : t \in Transactions}) \cup {e}
        /\ e \notin UNION {ToSet(mWaitingList'[t]) : t \in Transactions}
    BY <2>5, <2>6 DEF Listed
  <2>9. {waitEvent'[v] : v \in Waiting'} = {waitEvent[v] : v \in Waiting}
    BY <1>1, <1>2
  <2>10. e \in mIsSignaled' /\ mIsSignaled' = mIsSignaled \cup {e}
    BY <2>1 DEF signal
  <2>11. EventsAccounted'
    <3>1. CASE e \in mIsSignaled
      <4>1. allocated' = allocated \ {e}
        BY <2>1, <3>1 DEF signal
      <4>2. \A v \in Waiting : waitEvent[v] # e
        BY <2>5, <3>1 DEF EventInv, Handshake
      <4>3. e \notin {waitEvent[v] : v \in Waiting}
        BY <4>2
      <4> QED
        BY <2>8, <2>9, <4>1, <4>3 DEF EventInv, EventsAccounted
    <3>2. CASE e \notin mIsSignaled
      <4>1. allocated' = allocated
        BY <2>1, <3>2 DEF signal
      <4>2. e \in {waitEvent[v] : v \in Waiting}
        BY <2>5, <3>2 DEF EventInv, Handshake
      <4> QED
        BY <2>8, <2>9, <4>1, <4>2 DEF EventInv, EventsAccounted
    <3> QED
      BY <3>1, <3>2
  <2>12. Handshake'
    <3>1. ASSUME NEW v \in Waiting
          PROVE  IF waitEvent[v] \in mIsSignaled'
                 THEN \A t \in Transactions : waitEvent[v] \notin Listed(t)'
                 ELSE waitEvent[v] \in Listed(top(v))'
      <4>1. CASE waitEvent[v] \in mIsSignaled'
        BY <2>6, <2>10, <4>1 DEF EventInv, Handshake
      <4>2. CASE waitEvent[v] \notin mIsSignaled'
        <5>1. waitEvent[v] # e /\ waitEvent[v] \in Listed(top(v))
          BY <2>10, <4>2 DEF EventInv, Handshake
        <5>2. top(v) \in Transactions
          BY DEF TypeInv, Waiting, top
        <5>3. waitEvent[v] \in ToSet(mWaitingList'[top(v)])
          BY <2>5, <5>1, <5>2 DEF Listed
        <5> QED
          BY <1>3, <4>2, <5>3 DEF Listed
      <4> QED
        BY <4>1, <4>2
    <3>2. \A t \in Transactions : \A f \in Listed(t)' :
            f \in mIsSignaled' \/ \E v \in Waiting : waitEvent[v] = f
      BY <2>6, <2>10 DEF EventInv, Handshake
    <3>3. \A v \in Threads : pc'[v] = "woken" => waitEvent[v] \in mIsSignaled'
      BY <1>2, <2>10 DEF EventInv, Handshake
    <3> QED
      BY <1>1, <1>2, <3>1, <3>2, <3>3 DEF Handshake
  <2> QED
    BY <2>7, <2>11, <2>12 DEF EventInv
<1> QED
  BY <1>5, <1>6
\* The lists of trees that are collected are signalled to the last event.
LEMMA removeOldEvents ==
  ASSUME TypeInv, EventInv, removeOldTransactions
  PROVE  EventInv'
<1> DEFINE removed == {t \in mTransactions \cap old : ~mIsBusy[t]}
<1> PICK tops : tops = {topMostParent[t] : t \in removed}
  OBVIOUS
<1> PICK events : events = UNION {ToSet(mWaitingList[t]) : t \in tops}
  OBVIOUS
<1>1. /\ pc[Collector] = "idle" /\ pc' = [pc EXCEPT ![Collector] = "deleting"]
      /\ mWaitingList' = [t \in Transactions |-> IF t \in tops THEN <<>> ELSE mWaitingList[t]]
      /\ allocated' = allocated \ (events \cap mIsSignaled)
      /\ mIsSignaled' = mIsSignaled \cup events
      /\ UNCHANGED <<topMostParent, transaction, waitEvent>>
  BY DEF removeOldTransactions, RemoveFromList, Announce
<1>2. /\ Waiting' = Waiting
      /\ \A v \in Threads : pc'[v] = "woken" => pc[v] = "woken"
      /\ \A v \in Waiting : top(v)' = top(v) /\ top(v) \in Transactions
  <2>1. Waiting' = Waiting /\ \A v \in Threads : pc'[v] = "woken" => pc[v] = "woken"
    BY <1>1, TransactionListAssumption DEF TypeInv, Waiting
  <2>2. \A v \in Waiting : transaction[v] \in Transactions
    BY DEF TypeInv, Waiting
  <2> QED
    BY <1>1, <2>1, <2>2 DEF TypeInv, top
<1>3. tops \subseteq Transactions
  BY DEF TypeInv, mTransactions
<1>4. \A t \in Transactions : Listed(t)' = IF t \in tops THEN {} ELSE Listed(t)
  <2>1. ToSet(<<>>) = {}
    BY DEF ToSet
  <2> QED
    BY <1>1, <2>1 DEF Listed
<1>5. \A e : e \in events <=> \E t \in tops : e \in Listed(t)
  BY DEF Listed
<1>6. \A t \in Transactions : Listed(t)' \subseteq Listed(t) \ events
  BY <1>3, <1>4, <1>5 DEF EventInv, EventsDistinct
<1>7. EventsDistinct'
  <2>1. \A t \in Transactions : IsInjective(mWaitingList'[t])
    <3>1. IsInjective(<<>>)
      BY DEF IsInjective
    <3> QED
      BY <1>1, <3>1 DEF EventInv, EventsDistinct
  <2>2. \A s, t \in Transactions : s # t => Listed(s)' \cap Listed(t)' = {}
    BY <1>6 DEF EventInv, EventsDistinct
  <2> QED
    BY <1>1, <1>2, <2>1, <2>2 DEF EventInv, EventsDistinct
<1>8. Handshake'
  <2>1. ASSUME NEW v \in Waiting
        PROVE  IF waitEvent[v] \in mIsSignaled'
               THEN \A t \in Transactions : waitEvent[v] \notin Listed(t)'
               ELSE waitEvent[v] \in Listed(top(v))'
    <3>1. CASE waitEvent[v] \in mIsSignaled'
      BY <1>1, <1>6, <3>1 DEF EventInv, Handshake
    <3>2. CASE waitEvent[v] \notin mIsSignaled'
      <4>1. waitEvent[v] \in Listed(top(v)) /\ waitEvent[v] \notin events
        BY <1>1, <3>2 DEF EventInv, Handshake
      <4>2. top(v) \notin tops
        BY <1>5, <4>1
      <4>3. waitEvent[v] \in ToSet(mWaitingList'[top(v)])
        BY <1>2, <1>4, <4>1, <4>2 DEF Listed
      <4> QED
        BY <1>2, <3>2, <4>3 DEF Listed
    <3> QED
      BY <3>1, <3>2
  <2>2. \A t \in Transactions : \A e \in Listed(t)' :
          e \in mIsSignaled' \/ \E v \in Waiting : waitEvent[v] = e
    BY <1>1, <1>6 DEF EventInv, Handshake
  <2>3. \A v \in Threads : pc'[v] = "woken" => waitEvent[v] \in mIsSignaled'
    BY <1>1, <1>2 DEF EventInv, Handshake
  <2> QED
    BY <1>1, <1>2, <2>1, <2>2, <2>3 DEF Handshake
<1>9. EventsAccounted'
  <2> DEFINE waited == {waitEvent[v] : v \in Waiting}
  <2>1. {waitEvent'[v] : v \in Waiting'} = waited
    BY <1>1, <1>2
  <2>2. UNION {ToSet(mWaitingList'[t]) : t \in Transactions} =
        (UNION {ToSet(mWaitingList[t]) : t \in Transactions}) \ events
    <3>1. \A e : (\E t \in Transactions : e \in Listed(t)') <=>
                 (\E t \in Transactions : e \in Listed(t)) /\ e \notin events
      BY <1>3, <1>4, <1>5, <1>6
    <3> QED
      BY <3>1 DEF Listed
  <2>3. \A e \in events : e \notin waited <=> e \in mIsSignaled
    <3>1. ASSUME NEW e \in events PROVE e \notin waited <=> e \in mIsSignaled
      <4>1. PICK t \in Transactions : e \in Listed(t)
        BY <1>3, <1>5
      <4>2. e \in mIsSignaled => \A v \in Waiting : waitEvent[v] # e
        BY <4>1 DEF EventInv, Handshake
      <4>3. e \notin mIsSignaled => \E v \in Waiting : waitEvent[v] = e
        BY <4>1 DEF EventInv, Handshake
      <4> QED
        BY <4>2, <4>3
    <3> QED
      BY <3>1
  <2>4. events \subseteq UNION {ToSet(mWaitingList[t]) : t \in Transactions}
    BY <1>3
  <2> QED
    BY <1>1, <2>1, <2>2, <2>3, <2>4 DEF EventInv, EventsAccounted
<1> QED
  BY <1>7, <1>8, <1>9 DEF EventInv

\* Every step keeps the events accounted for.
LEMMA EventStep ==
  ASSUME TypeInv, HolderInv, EventInv, [Next]_vars
  PROVE  EventInv'
<1>1. ASSUME NEW u \in Threads, linkChild(u) PROVE EventInv'
  <2>1. /\ u \in Linkers /\ topMostParent' = [topMostParent EXCEPT ![child[u]] = top(u)]
        /\ pc' = [pc EXCEPT ![u] = "using"] /\ pc[u] = "linking" /\ transaction' = transaction
    BY <1>1 DEF linkChild, Goto, Linkers, top
  <2>2. UNCHANGED <<mWaitingList, mIsSignaled, allocated, waitEvent>>
    BY <1>1 DEF linkChild, eventVars
  <2>3. Waiting' = Waiting
    BY <2>1 DEF TypeInv, Waiting
  <2>4. \A v \in Waiting : transaction[v] # child[u] /\ transaction[v] \in Transactions
    <3>1. \A v \in Waiting : v \in Lookers /\ transaction[v] \in Transactions
      BY DEF TypeInv, Waiting, Lookers, Looking
    <3> QED
      BY <2>1, <3>1 DEF HolderInv, LookersFound, ChildrenAlone
  <2>5. \A v \in Waiting : top(v)' = top(v)
    BY <2>1, <2>4 DEF TypeInv, top
  <2>6. \A v \in Threads : pc'[v] = "woken" => waitEvent[v] \in mIsSignaled
    BY <2>1 DEF EventInv, Handshake, TypeInv
  <2> QED
    BY <2>2, <2>3, <2>5, <2>6, EventFrame
<1>2. ASSUME NEW u \in Threads, WaitSucceeds(u) \/ WaitTimesOut(u) PROVE EventInv'
  <2>1. /\ pc[u] = "wait" /\ transaction' = transaction /\ topMostParent' = topMostParent
        /\ \/ pc' = [pc EXCEPT ![u] = "woken"] /\ waitEvent[u] \in mIsSignaled
           \/ pc' = [pc EXCEPT ![u] = "gaveUp"]
    BY <1>2 DEF WaitSucceeds, WaitTimesOut, Goto, transactionVars
  <2>2. UNCHANGED <<mWaitingList, mIsSignaled, allocated, waitEvent>>
    BY <1>2 DEF WaitSucceeds, WaitTimesOut, transactionVars, eventVars
  <2>3. Waiting' = Waiting
    BY <2>1 DEF TypeInv, Waiting
  <2>4. \A v \in Waiting : top(v)' = top(v)
    BY <2>1 DEF top
  <2>5. \A v \in Threads : pc'[v] = "woken" => waitEvent[v] \in mIsSignaled
    BY <2>1 DEF EventInv, Handshake, TypeInv
  <2> QED
    BY <2>2, <2>3, <2>4, <2>5, EventFrame
<1>3. ASSUME NEW u \in Threads,
             \/ \E t \in Transactions :
                  NewTransaction(u, t) \/ AddChild(u, t) \/ findTransactionFor(u, t)
             \/ FoundGone(u) \/ FoundAvailable(u)
      PROVE  EventInv'
  <2>1. /\ UNCHANGED <<mWaitingList, mIsSignaled, allocated, waitEvent, topMostParent>>
        /\ pc[u] \in {"idle", "using", "waitUntilAvailable"}
        /\ \E to \in {"idle", "using", "linking", "waitUntilAvailable"} : pc' = [pc EXCEPT ![u] = to]
        /\ \/ transaction' = transaction
           \/ \E s : transaction' = [transaction EXCEPT ![u] = s]
    BY <1>3 DEF NewTransaction, AddChild, findTransactionFor, LookUp, FoundGone, FoundAvailable,
                Take, Goto, transactionVars, eventVars
  <2>2. UNCHANGED <<mWaitingList, mIsSignaled, allocated, waitEvent>>
    BY <2>1
  <2>3. Waiting' = Waiting /\ u \notin Waiting
    BY <2>1 DEF TypeInv, Waiting
  <2>4. \A v \in Waiting : transaction'[v] = transaction[v]
    BY <2>1, <2>3 DEF TypeInv, Waiting
  <2>5. \A v \in Waiting : top(v)' = top(v)
    BY <2>1, <2>4 DEF top
  <2>6. \A v \in Threads : pc'[v] = "woken" => waitEvent[v] \in mIsSignaled
    BY <2>1 DEF EventInv, Handshake, TypeInv
  <2> QED
    BY <2>2, <2>3, <2>5, <2>6, EventFrame
<1>4. ASSUME UNCHANGED <<mWaitingList, mIsSignaled, allocated, waitEvent>>,
             UNCHANGED <<topMostParent, transaction>>,
             \/ pc' = pc
             \/ pc[Collector] = "deleting" /\ pc' = [pc EXCEPT ![Collector] = "idle"]
      PROVE  EventInv'
  <2>1. Waiting' = Waiting
    BY <1>4 DEF TypeInv, Waiting
  <2>2. \A v \in Waiting : top(v)' = top(v)
    BY <1>4 DEF top
  <2>3. \A v \in Threads : pc'[v] = "woken" => waitEvent[v] \in mIsSignaled
    BY <1>4 DEF EventInv, Handshake, TypeInv
  <2> QED
    BY <1>4, <2>1, <2>2, <2>3, EventFrame
<1>5. ASSUME NEW u \in Threads, NEW t \in Transactions, FirstMessage(u, t) PROVE EventInv'
  BY <1>4, <1>5 DEF FirstMessage, eventVars, threadVars
<1>6. ASSUME NEW t \in Transactions, GetsOld(t) PROVE EventInv'
  BY <1>4, <1>6 DEF GetsOld, eventVars, threadVars
<1>7. ASSUME deleteTransactions PROVE EventInv'
  BY <1>4, <1>7 DEF deleteTransactions, eventVars
<1>8. CASE UNCHANGED vars
  BY <1>4, <1>8 DEF vars, transactionVars, eventVars, threadVars
<1> QED
  BY <1>1, <1>2, <1>3, <1>5, <1>6, <1>7, <1>8, notifyWhenAvailableEvents, WaiterSignalsEvents,
     markAvailableEvents, removeOldEvents DEF Next

-----------------------------------------------------------------------------
(* Waiters.                                                                *)

\* The list of a tree that goes is emptied, and nobody is added to it after.
LEMMA GoneStep ==
  ASSUME TypeInv, HolderInv, GoneHasNoWaiters, [Next]_vars
  PROVE  GoneHasNoWaiters'
<1> DEFINE Gone(t) == life[t] \in {"removed", "deleted"} /\ topMostParent[t] = t
<1>1. ASSUME UNCHANGED mWaitingList,
             \A t \in Transactions : Gone(t)' => Gone(t)
      PROVE  GoneHasNoWaiters'
  BY <1>1 DEF GoneHasNoWaiters
<1>2. ASSUME NEW u \in Threads, NEW t \in Transactions, NewTransaction(u, t) \/ AddChild(u, t)
      PROVE  GoneHasNoWaiters'
  <2>1. /\ life' = [life EXCEPT ![t] = "listed"]
        /\ UNCHANGED <<topMostParent, mWaitingList>>
    BY <1>2 DEF NewTransaction, AddChild
  <2> QED
    BY <1>1, <2>1 DEF TypeInv
<1>3. ASSUME NEW u \in Threads, linkChild(u) PROVE GoneHasNoWaiters'
  <2>1. /\ u \in Linkers /\ UNCHANGED <<life, mWaitingList>>
        /\ topMostParent' = [topMostParent EXCEPT ![child[u]] = topMostParent[transaction[u]]]
    BY <1>3 DEF linkChild, Goto, Linkers
  <2>2. life[child[u]] = "listed"
    BY <2>1 DEF HolderInv, ChildrenAlone
  <2>3. \A t \in Transactions : t # child[u] => topMostParent'[t] = topMostParent[t]
    BY <2>1 DEF TypeInv
  <2> QED
    BY <1>1, <2>1, <2>2, <2>3
<1>4. ASSUME NEW u \in Threads, notifyWhenAvailable(u) PROVE GoneHasNoWaiters'
  <2>1. /\ transaction[u] \in Transactions /\ life[transaction[u]] = "listed"
        /\ UNCHANGED <<life, topMostParent>>
        /\ mWaitingList' = [mWaitingList EXCEPT ![top(u)] = Append(@, numEvents')]
    BY <1>4 DEF notifyWhenAvailable, mTransactions, top
  <2>2. life[top(u)] = "listed"
    BY <2>1 DEF HolderInv, TreesWhole, top
  <2>3. \A t \in Transactions : t # top(u) => mWaitingList'[t] = mWaitingList[t]
    BY <2>1 DEF TypeInv
  <2> QED
    BY <2>1, <2>2, <2>3 DEF GoneHasNoWaiters
<1>5. ASSUME NEW u \in Threads, markAvailable(u) PROVE GoneHasNoWaiters'
  <2>1. /\ u \in Holders /\ UNCHANGED <<life, topMostParent>> /\ signalNextAvailable(top(u))
    BY <1>5 DEF markAvailable, Goto, Holders, top
  <2>2. life[top(u)] = "listed"
    BY <2>1 DEF HolderInv, HoldersApart
  <2>3. \A t \in Transactions : t # top(u) => mWaitingList'[t] = mWaitingList[t]
    BY <2>1 DEF signalNextAvailable, TypeInv
  <2> QED
    BY <2>1, <2>2, <2>3 DEF GoneHasNoWaiters
<1>6. ASSUME removeOldTransactions PROVE GoneHasNoWaiters'
  <2> DEFINE removed == {t \in mTransactions \cap old : ~mIsBusy[t]}
             tops == {topMostParent[t] : t \in removed}
  <2>1. /\ life' = [t \in Transactions |-> IF t \in removed THEN "removed" ELSE life[t]]
        /\ mWaitingList' = [t \in Transactions |-> IF t \in tops THEN <<>> ELSE mWaitingList[t]]
        /\ topMostParent' = topMostParent
    BY <1>6 DEF removeOldTransactions, RemoveFromList, Announce
  <2>2. ASSUME NEW t \in Transactions, Gone(t)' PROVE mWaitingList'[t] = <<>>
    <3>1. CASE t \in removed
      <4>1. t \in tops
        BY <2>1, <2>2, <3>1
      <4> QED
        BY <2>1, <4>1
    <3>2. CASE t \notin removed
      <4>1. mWaitingList[t] = <<>>
        BY <2>1, <2>2, <3>2 DEF GoneHasNoWaiters
      <4> QED
        BY <2>1, <4>1
    <3> QED
      BY <3>1, <3>2
  <2> QED
    BY <2>2 DEF GoneHasNoWaiters
<1>7. ASSUME deleteTransactions PROVE GoneHasNoWaiters'
  <2>1. /\ life' = [t \in Transactions |-> IF life[t] = "removed" THEN "deleted" ELSE life[t]]
        /\ UNCHANGED <<topMostParent, mWaitingList>>
    BY <1>7 DEF deleteTransactions
  <2> QED
    BY <1>1, <2>1
<1>8. ASSUME UNCHANGED <<life, topMostParent, mWaitingList>> PROVE GoneHasNoWaiters'
  BY <1>8 DEF GoneHasNoWaiters
<1>9. ASSUME NEW u \in Threads,
             \/ \E t \in Transactions : FirstMessage(u, t) \/ findTransactionFor(u, t)
             \/ FoundGone(u) \/ FoundAvailable(u)
             \/ WaitSucceeds(u) \/ WaitTimesOut(u) \/ WaiterSignals(u)
      PROVE  GoneHasNoWaiters'
  BY <1>8, <1>9 DEF FirstMessage, findTransactionFor, FoundGone, FoundAvailable, WaitSucceeds,
                    WaitTimesOut, WaiterSignals, transactionVars
<1>10. ASSUME NEW t \in Transactions, GetsOld(t) PROVE GoneHasNoWaiters'
  BY <1>8, <1>10 DEF GetsOld
<1>11. CASE UNCHANGED vars
  BY <1>8, <1>11 DEF vars, transactionVars
<1> QED
  BY <1>2, <1>3, <1>4, <1>5, <1>6, <1>7, <1>9, <1>10, <1>11 DEF Next

\* A tree that no less is done for than before.
LEMMA Attended ==
  ASSUME NoWaiterForgotten, NEW t \in Transactions, t \in missed => t \in missed',
         mIsBusy'[t] = FALSE => mIsBusy[t] = FALSE,
         Untold(t)' \subseteq Untold(t), Coming(t) \subseteq Coming(t)'
  PROVE  Unattended(t)' => t \in missed'
BY DEF NoWaiterForgotten, Unattended

\* A waiter that was not told is in the list of its tree, and its tree is there.
LEMMA UntoldListed ==
  ASSUME TypeInv, HolderInv, EventInv, GoneHasNoWaiters, NEW t \in Transactions, Untold(t) # {}
  PROVE  mWaitingList[t] # <<>> /\ life[t] = "listed" /\ topMostParent[t] = t
<1> PICK v \in Threads : v \in Untold(t)
  BY DEF Untold
<1>1. /\ v \in Waiting /\ v \in Lookers /\ waitEvent[v] \notin mIsSignaled
      /\ transaction[v] \in Transactions /\ top(v) = t
  BY DEF Untold, Waiting, Lookers, Looking, top, TypeInv
<1>2. waitEvent[v] \in Listed(t)
  BY <1>1 DEF EventInv, Handshake
<1>3. mWaitingList[t] # <<>>
  BY <1>2 DEF Listed, ToSet
<1>4. topMostParent[t] = t /\ life[t] = life[transaction[v]]
  BY <1>1 DEF HolderInv, TreesWhole, top
<1>5. life[t] # "none"
  BY <1>1, <1>4 DEF HolderInv, LookersFound
<1>6. life[t] \notin {"removed", "deleted"}
  BY <1>3, <1>4 DEF GoneHasNoWaiters
<1> QED
  BY <1>3, <1>4, <1>5, <1>6 DEF TypeInv

\* Whoever gives a tree back tells a waiter that is still waiting, or is marked
\* for having told one that gave up.
LEMMA markAvailableTells ==
  ASSUME TypeInv, HolderInv, EventInv, GoneHasNoWaiters, NoWaiterForgotten,
         NEW u \in Threads, markAvailable(u)
  PROVE  NoWaiterForgotten'
<1>1. /\ pc[u] = "using" /\ pc' = [pc EXCEPT ![u] = "idle"]
      /\ transaction' = [transaction EXCEPT ![u] = None]
      /\ \A s \in Transactions :
           mIsBusy'[s] = IF topMostParent[s] = top(u) THEN FALSE ELSE mIsBusy[s]
      /\ signalNextAvailable(top(u))
      /\ UNCHANGED <<topMostParent, waitEvent>>
  BY DEF markAvailable, Goto, doMarkBusy, Tree, top
<1>2. top(u) \in Transactions
  BY <1>1 DEF TypeInv, top
<1> PICK p \in Transactions : p = top(u)
  BY <1>2
<1>3. missed \subseteq missed' /\ mIsSignaled \subseteq mIsSignaled'
  <2>1. CASE mWaitingList[p] = <<>>
    BY <1>1, <2>1 DEF signalNextAvailable
  <2>2. CASE mWaitingList[p] # <<>>
    BY <1>1, <2>2 DEF signalNextAvailable, signal
  <2> QED
    BY <2>1, <2>2
<1>4. \A t \in Transactions : Untold(t)' \subseteq Untold(t) /\ Coming(t) \subseteq Coming(t)'
  BY <1>1, <1>3 DEF TypeInv, Untold, Coming
<1>5. \A t \in Transactions \ {p} : Unattended(t)' => t \in missed'
  <2> SUFFICES ASSUME NEW t \in Transactions \ {p}, Unattended(t)'
               PROVE  t \in missed'
    OBVIOUS
  <2>1. Untold(t) # {}
    BY <1>4 DEF Unattended
  <2>2. topMostParent[t] # p
    BY <2>1, UntoldListed
  <2> QED
    BY <1>1, <1>3, <1>4, <2>2, Attended
<1>6. Unattended(p)' => p \in missed'
  <2> SUFFICES ASSUME Untold(p) # {}, p \notin missed'
               PROVE  Coming(p)' # {}
    BY <1>4 DEF Unattended
  <2>1. mWaitingList[p] # <<>>
    BY UntoldListed
  <2> PICK e : e = Head(mWaitingList[p])
    OBVIOUS
  <2>2. e \in Listed(p)
    BY <2>1, TailEvents DEF Listed, TypeInv
  <2>3. signal(e) /\ ~GivenUp(e)
    BY <1>1, <2>1 DEF signalNextAvailable
  <2>4. e \notin mIsSignaled /\ e \in mIsSignaled'
    BY <2>3 DEF GivenUp, signal
  <2>5. PICK w \in Waiting : waitEvent[w] = e
    BY <2>2, <2>4 DEF EventInv, Handshake
  <2>6. pc[w] = "wait"
    BY <2>3, <2>4, <2>5 DEF GivenUp, Waiting, EventInv, Handshake
  <2>7. top(w) = p
    <3>1. e \in Listed(top(w))
      BY <2>4, <2>5 DEF EventInv, Handshake
    <3>2. top(w) \in Transactions
      BY DEF TypeInv, Waiting, top
    <3> QED
      BY <2>2, <3>1, <3>2 DEF EventInv, EventsDistinct
  <2>8. w \in Threads /\ pc'[w] = "wait" /\ transaction'[w] = transaction[w]
    BY <1>1, <2>6 DEF TypeInv, Waiting
  <2>9. w \in Coming(p)'
    BY <1>1, <2>4, <2>5, <2>7, <2>8 DEF Coming, top
  <2> QED
    BY <2>9
<1> QED
  BY <1>5, <1>6 DEF NoWaiterForgotten

\* Every other step of a thread.
LEMMA ThreadTells ==
  ASSUME TypeInv, HolderInv, EventInv, GoneHasNoWaiters, NoWaiterForgotten, NEW u \in Threads
  PROVE  /\ \A t \in Transactions :
              NewTransaction(u, t) \/ AddChild(u, t) \/ findTransactionFor(u, t) => NoWaiterForgotten'
         /\ linkChild(u) \/ FoundGone(u) \/ FoundAvailable(u) \/ notifyWhenAvailable(u) =>
              NoWaiterForgotten'
         /\ WaitSucceeds(u) \/ WaitTimesOut(u) \/ WaiterSignals(u) => NoWaiterForgotten'
<1>1. ASSUME NEW t \in Transactions, NewTransaction(u, t) PROVE NoWaiterForgotten'
  <2>1. /\ pc[u] = "idle" /\ pc' = [pc EXCEPT ![u] = "using"]
        /\ transaction' = [transaction EXCEPT ![u] = t]
        /\ \A s \in Transactions : mIsBusy'[s] = FALSE => mIsBusy[s] = FALSE
        /\ UNCHANGED <<topMostParent, mIsSignaled, waitEvent, missed>>
    BY <1>1 DEF NewTransaction, Take, Goto, doMarkBusy, eventVars
  <2>2. \A s \in Transactions : Untold(s)' \subseteq Untold(s) /\ Coming(s) \subseteq Coming(s)'
    BY <2>1 DEF TypeInv, Untold, Coming
  <2> QED
    BY <2>1, <2>2, Attended DEF NoWaiterForgotten
<1>2. ASSUME NEW t \in Transactions, AddChild(u, t) PROVE NoWaiterForgotten'
  <2>1. /\ life[t] = "none"
        /\ pc[u] = "using" /\ pc' = [pc EXCEPT ![u] = "linking"]
        /\ \A s \in Transactions \ {t} : mIsBusy'[s] = mIsBusy[s]
        /\ UNCHANGED <<topMostParent, transaction, mIsSignaled, waitEvent, missed>>
    BY <1>2 DEF AddChild, Goto, eventVars, TypeInv
  <2>2. \A s \in Transactions : Untold(s)' \subseteq Untold(s) /\ Coming(s) \subseteq Coming(s)'
    BY <2>1 DEF TypeInv, Untold, Coming
  <2>3. Untold(t) = {}
    BY <2>1, UntoldListed
  <2>4. \A s \in Transactions \ {t} : Unattended(s)' => s \in missed'
    BY <2>1, <2>2, Attended
  <2>5. ~Unattended(t)'
    BY <2>2, <2>3 DEF Unattended
  <2> QED
    BY <2>4, <2>5 DEF NoWaiterForgotten
<1>3. ASSUME linkChild(u) PROVE NoWaiterForgotten'
  <2>1. /\ u \in Linkers /\ pc[u] = "linking" /\ pc' = [pc EXCEPT ![u] = "using"]
        /\ topMostParent' = [topMostParent EXCEPT ![child[u]] = top(u)]
        /\ mIsBusy' = [mIsBusy EXCEPT ![child[u]] = mIsBusy[transaction[u]]]
        /\ UNCHANGED <<transaction, mIsSignaled, waitEvent, missed>>
    BY <1>3 DEF linkChild, Goto, Linkers, eventVars, top
  <2>2. \A v \in Lookers : transaction[v] \in Transactions /\ transaction[v] # child[u]
    <3>1. \A v \in Lookers : transaction[v] \in Transactions
      BY DEF TypeInv, Lookers, Looking
    <3> QED
      BY <2>1, <3>1 DEF HolderInv, LookersFound, ChildrenAlone
  <2>3. \A v \in Lookers : topMostParent'[transaction[v]] = topMostParent[transaction[v]]
    BY <2>1, <2>2 DEF TypeInv
  <2>4. \A v \in Threads : v \in Lookers' <=> v \in Lookers
    BY <2>1 DEF TypeInv, Lookers, Looking
  <2>5. \A v \in Lookers : pc'[v] = pc[v]
    BY <2>1 DEF TypeInv, Lookers, Looking
  <2>6. \A s \in Transactions : Untold(s)' \subseteq Untold(s) /\ Coming(s) \subseteq Coming(s)'
    BY <2>1, <2>3, <2>4, <2>5 DEF Untold, Coming, Lookers, Looking
  <2>7. \A s \in Transactions : topMostParent[s] = child[u] => s = child[u]
    BY <2>1 DEF HolderInv, ChildrenAlone
  <2>8. Untold(child[u]) = {}
    BY <2>2, <2>7 DEF Untold, Lookers, Looking
  <2>9. child[u] \in Transactions
    BY <2>1 DEF TypeInv, Linkers
  <2> PICK c \in Transactions : c = child[u]
    BY <2>9
  <2>10. \A s \in Transactions \ {c} : Unattended(s)' => s \in missed'
    <3>1. \A s \in Transactions \ {c} : mIsBusy'[s] = mIsBusy[s]
      BY <2>1 DEF TypeInv
    <3> QED
      BY <2>1, <2>6, <3>1, Attended
  <2>11. ~Unattended(c)'
    BY <2>6, <2>8 DEF Unattended
  <2> QED
    BY <2>10, <2>11 DEF NoWaiterForgotten
<1>4. ASSUME NEW t \in Transactions, findTransactionFor(u, t) PROVE NoWaiterForgotten'
  <2>1. /\ pc[u] = "idle" /\ \E to \in {"using", "waitUntilAvailable"} : pc' = [pc EXCEPT ![u] = to]
        /\ transaction' = [transaction EXCEPT ![u] = t]
        /\ \A s \in Transactions : mIsBusy'[s] = FALSE => mIsBusy[s] = FALSE
        /\ UNCHANGED <<topMostParent, mIsSignaled, waitEvent, missed>>
    BY <1>4 DEF findTransactionFor, LookUp, Take, Goto, doMarkBusy, eventVars
  <2>2. \A s \in Transactions : Untold(s)' \subseteq Untold(s) /\ Coming(s) \subseteq Coming(s)'
    BY <2>1 DEF TypeInv, Untold, Coming
  <2> QED
    BY <2>1, <2>2, Attended DEF NoWaiterForgotten
<1>5. ASSUME FoundGone(u) PROVE NoWaiterForgotten'
  <2>1. /\ transaction[u] \in Transactions /\ life[transaction[u]] # "listed"
        /\ pc[u] = "waitUntilAvailable" /\ pc' = [pc EXCEPT ![u] = "idle"]
        /\ transaction' = [transaction EXCEPT ![u] = None]
        /\ UNCHANGED <<topMostParent, mIsBusy, mIsSignaled, waitEvent, missed>>
    <3>1. transaction[u] \in Transactions
      BY <1>5 DEF FoundGone, Goto, TypeInv
    <3> QED
      BY <1>5, <3>1 DEF FoundGone, Goto, mTransactions, transactionVars, eventVars
  <2>2. top(u) \in Transactions /\ life[top(u)] # "listed"
    BY <2>1 DEF HolderInv, TreesWhole, TypeInv, top
  <2> PICK p \in Transactions : p = top(u)
    BY <2>2
  <2>3. Untold(p) = {}
    BY <2>2, UntoldListed
  <2>4. \A s \in Transactions : Untold(s)' \subseteq Untold(s)
    BY <2>1 DEF TypeInv, Untold
  <2>5. \A s \in Transactions \ {p} : Coming(s) \subseteq Coming(s)'
    BY <2>1 DEF TypeInv, Coming, top
  <2>6. \A s \in Transactions \ {p} : Unattended(s)' => s \in missed'
    BY <2>1, <2>4, <2>5, Attended
  <2>7. ~Unattended(p)'
    BY <2>3, <2>4 DEF Unattended
  <2> QED
    BY <2>6, <2>7 DEF NoWaiterForgotten
<1>6. ASSUME FoundAvailable(u) \/ notifyWhenAvailable(u) PROVE NoWaiterForgotten'
  <2>1. /\ transaction[u] \in Transactions
        /\ pc[u] = "waitUntilAvailable"
        /\ \E to \in {"using", "wait"} : pc' = [pc EXCEPT ![u] = to]
        /\ transaction' = transaction
        /\ \A v \in Threads \ {u} : waitEvent'[v] = waitEvent[v]
        /\ UNCHANGED <<topMostParent, mIsSignaled, missed>>
    <3>1. CASE FoundAvailable(u)
      BY <3>1 DEF FoundAvailable, mTransactions, Take, Goto, eventVars, TypeInv
    <3>2. CASE notifyWhenAvailable(u)
      BY <3>2 DEF notifyWhenAvailable, mTransactions, Goto, TypeInv
    <3> QED
      BY <1>6, <3>1, <3>2
  <2>2. top(u) \in Transactions
    BY <2>1 DEF TypeInv, top
  <2> PICK p \in Transactions : p = top(u)
    BY <2>2
  <2>3. mIsBusy'[p] = TRUE /\ \A s \in Transactions : mIsBusy'[s] = FALSE => mIsBusy[s] = FALSE
    <3>1. CASE FoundAvailable(u)
      <4>1. topMostParent[p] = p
        BY <2>1 DEF HolderInv, TreesWhole, top
      <4> QED
        BY <3>1, <4>1 DEF FoundAvailable, Take, doMarkBusy, Tree, top
    <3>2. CASE notifyWhenAvailable(u)
      <4>1. mIsBusy[transaction[u]] /\ mIsBusy' = mIsBusy
        BY <3>2 DEF notifyWhenAvailable
      <4> QED
        BY <2>1, <4>1 DEF HolderInv, TreesWhole, TypeInv, top
    <3> QED
      BY <1>6, <3>1, <3>2
  <2>4. \A v \in Threads \ {u} : pc'[v] = pc[v]
    BY <2>1 DEF TypeInv
  <2>5. \A s \in Transactions \ {p} : Untold(s)' \subseteq Untold(s) /\ Coming(s) \subseteq Coming(s)'
    BY <2>1, <2>4 DEF Untold, Coming, top
  <2>6. \A s \in Transactions \ {p} : Unattended(s)' => s \in missed'
    BY <2>1, <2>3, <2>5, Attended
  <2>7. ~Unattended(p)'
    BY <2>3 DEF Unattended
  <2> QED
    BY <2>6, <2>7 DEF NoWaiterForgotten
<1>7. ASSUME WaitSucceeds(u) \/ WaitTimesOut(u) PROVE NoWaiterForgotten'
  <2>1. /\ pc[u] = "wait"
        /\ \/ pc' = [pc EXCEPT ![u] = "woken"]
           \/ pc' = [pc EXCEPT ![u] = "gaveUp"] /\ waitEvent[u] \notin mIsSignaled
        /\ UNCHANGED <<topMostParent, transaction, mIsBusy, mIsSignaled, waitEvent, missed>>
    BY <1>7 DEF WaitSucceeds, WaitTimesOut, Goto, transactionVars, eventVars
  <2>2. \A s \in Transactions : Untold(s)' \subseteq Untold(s) /\ Coming(s) \subseteq Coming(s)'
    BY <2>1 DEF TypeInv, Untold, Coming
  <2> QED
    BY <2>1, <2>2, Attended DEF NoWaiterForgotten
<1>8. ASSUME WaiterSignals(u) PROVE NoWaiterForgotten'
  <2>1. /\ \/ pc[u] = "woken" /\ pc' = [pc EXCEPT ![u] = "waitUntilAvailable"]
              /\ transaction' = transaction
           \/ pc[u] = "gaveUp" /\ pc' = [pc EXCEPT ![u] = "idle"]
              /\ transaction' = [transaction EXCEPT ![u] = None]
        /\ \A v \in Threads \ {u} : waitEvent'[v] = waitEvent[v]
        /\ mIsSignaled \subseteq mIsSignaled'
        /\ UNCHANGED <<topMostParent, mIsBusy, missed>>
    BY <1>8 DEF WaiterSignals, Goto, signal, transactionVars, TypeInv
  <2>2. /\ \A v \in Threads \ {u} : pc'[v] = pc[v] /\ transaction'[v] = transaction[v]
        /\ pc'[u] \notin {"wait", "woken"}
        /\ pc[u] # "wait"
        /\ pc[u] = "woken" => pc'[u] = "waitUntilAvailable" /\ transaction'[u] = transaction[u]
        /\ pc[u] # "waitUntilAvailable"
    BY <2>1 DEF TypeInv
  <2>3. \A s \in Transactions : Untold(s)' \subseteq Untold(s) /\ Coming(s) \subseteq Coming(s)'
    BY <2>1, <2>2 DEF Untold, Coming
  <2> QED
    BY <2>1, <2>3, Attended DEF NoWaiterForgotten
<1> QED
  BY <1>1, <1>2, <1>3, <1>4, <1>5, <1>6, <1>7, <1>8

\* No step forgets a waiter.
LEMMA WaiterStep ==
  ASSUME TypeInv, HolderInv, EventInv, GoneHasNoWaiters, NoWaiterForgotten, [Next]_vars
  PROVE  NoWaiterForgotten'
<1>1. ASSUME UNCHANGED <<topMostParent, mIsBusy, transaction, waitEvent, missed>>,
             mIsSignaled \subseteq mIsSignaled',
             \/ pc' = pc
             \/ \E to \in {"idle", "deleting"} :
                  pc[Collector] \in {"idle", "deleting"} /\ pc' = [pc EXCEPT ![Collector] = to]
      PROVE  NoWaiterForgotten'
  <2>1. \A s \in Transactions : Untold(s)' \subseteq Untold(s) /\ Coming(s) \subseteq Coming(s)'
    BY <1>1 DEF TypeInv, Untold, Coming
  <2> QED
    BY <1>1, <2>1, Attended DEF NoWaiterForgotten
<1>2. ASSUME NEW u \in Threads, NEW t \in Transactions, FirstMessage(u, t) PROVE NoWaiterForgotten'
  BY <1>1, <1>2 DEF FirstMessage, eventVars, threadVars
<1>3. ASSUME NEW t \in Transactions, GetsOld(t) PROVE NoWaiterForgotten'
  BY <1>1, <1>3 DEF GetsOld, eventVars, threadVars
<1>4. ASSUME removeOldTransactions PROVE NoWaiterForgotten'
  BY <1>1, <1>4 DEF removeOldTransactions, RemoveFromList, Announce
<1>5. ASSUME deleteTransactions PROVE NoWaiterForgotten'
  BY <1>1, <1>5 DEF deleteTransactions, eventVars
<1>6. CASE UNCHANGED vars
  BY <1>1, <1>6 DEF vars, transactionVars, eventVars, threadVars
<1> QED
  BY <1>2, <1>3, <1>4, <1>5, <1>6, ThreadTells, markAvailableTells DEF Next

-----------------------------------------------------------------------------
(* The theorems.                                                           *)

\* Nothing is in use and nobody waits.
LEMMA InitInv == Init => IInv
<1> SUFFICES ASSUME Init PROVE IInv
  OBVIOUS
<1>1. <<>> \in Seq(Events) /\ ToSet(<<>>) = {}
  BY DEF ToSet
<1>2. TypeInv
  BY <1>1, TransactionListAssumption DEF Init, TypeInv, Created, Places, Waiting
<1>3. Holders = {} /\ Linkers = {} /\ Lookers = {} /\ Waiting = {}
  BY DEF Init, Holders, Linkers, Lookers, Looking, Waiting
<1>4. HolderInv
  BY <1>3 DEF Init, HolderInv, TreesWhole, HoldersApart, ChildrenAlone, LookersFound
<1>5. \A t \in Transactions : mWaitingList[t] = <<>> /\ Listed(t) = {}
  BY <1>1 DEF Init, Listed
<1>6. EventInv
  <2>1. IsInjective(<<>>)
    BY DEF IsInjective
  <2>2. EventsDistinct
    BY <1>3, <1>5, <2>1 DEF EventsDistinct
  <2>3. Handshake
    BY <1>3, <1>5 DEF Init, Handshake
  <2>4. EventsAccounted
    BY <1>1, <1>3, <1>5 DEF Init, EventsAccounted
  <2> QED
    BY <2>2, <2>3, <2>4 DEF EventInv
<1>7. GoneHasNoWaiters /\ NoWaiterForgotten
  BY DEF Init, GoneHasNoWaiters, NoWaiterForgotten, Unattended, Untold
<1> QED
  BY <1>2, <1>4, <1>6, <1>7 DEF IInv

\* The invariant the theorems rest on.
THEOREM Invariance == Spec => []IInv
<1>1. IInv /\ [Next]_vars => IInv'
  BY TypeStep, HolderStep, EventStep, GoneStep, WaiterStep DEF IInv
<1> QED
  BY <1>1, InitInv, PTL DEF Spec

\* The state has its types: a thread has an event exactly while it waits, a
\* transaction while it uses or looks for one.
THEOREM TypeCorrect == Spec => []TypeOK
<1>1. IInv => TypeOK
  <2> SUFFICES ASSUME TypeInv PROVE TypeOK
    BY DEF IInv
  <2>1. Created \subseteq Events
    BY TransactionListAssumption DEF TypeInv, Created, Events
  <2>2. ASSUME NEW u \in Threads
        PROVE  /\ transaction[u] \in IF pc[u] \in {"idle", "deleting"} THEN {None} ELSE Transactions
               /\ child[u] \in IF pc[u] = "linking" THEN Transactions ELSE {None}
               /\ waitEvent[u] \in IF u \in Waiting THEN Events ELSE {None}
    <3>1. /\ transaction[u] \in Transactions \cup {None} /\ child[u] \in Transactions \cup {None}
          /\ waitEvent[u] \in Events \cup {None}
          /\ pc[u] \in {"idle", "deleting"} <=> transaction[u] = None
          /\ pc[u] = "linking" <=> child[u] # None
          /\ u \in Waiting <=> waitEvent[u] # None
      BY <2>1 DEF TypeInv
    <3> QED
      BY <3>1
  <2> QED
    BY <2>2 DEF TypeInv, TypeOK, Created
<1> QED
  BY <1>1, Invariance, PTL

\* However many threads look up, create, link and give back transactions, no two
\* have transactions of one tree, nor will they once a child is linked.
THEOREM OneHolderAlways == Spec => []OneHolder
<1>1. IInv => OneHolder
  <2> SUFFICES ASSUME TypeInv, HolderInv, NEW u \in Holders, NEW v \in Holders, u # v,
                      NEW s \in Tree(transaction[u])
               PROVE  s \notin Tree(transaction[v]) /\ s # child[v]
    BY DEF IInv, OneHolder
  <2>1. s \in Transactions /\ topMostParent[s] = top(u) /\ top(u) # top(v)
    BY DEF Tree, top, HolderInv, HoldersApart
  <2>2. s \notin Tree(transaction[v])
    BY <2>1 DEF Tree, top
  <2>3. CASE v \in Linkers
    <3>1. topMostParent[child[v]] = child[v] /\ top(u) # child[v]
      BY <2>3 DEF HolderInv, ChildrenAlone
    <3> QED
      BY <2>1, <2>2, <3>1
  <2>4. CASE v \notin Linkers
    <3>1. child[v] = None
      BY <2>4 DEF TypeInv, Linkers, Holders
    <3> QED
      BY <2>1, <2>2, <3>1, TransactionListAssumption
  <2> QED
    BY <2>3, <2>4
<1> QED
  BY <1>1, Invariance, PTL

\* The collector never takes away the tree of a transaction in use.
THEOREM HolderKeeps == Spec => []HolderKeepsTree
<1>1. IInv => HolderKeepsTree
  <2> SUFFICES ASSUME TypeInv, HolderInv, NEW u \in Holders, NEW s \in Tree(transaction[u])
               PROVE  s \in mTransactions
    BY DEF IInv, HolderKeepsTree
  <2>1. s \in Transactions /\ topMostParent[s] = top(u) /\ life[top(u)] = "listed"
    BY DEF Tree, top, HolderInv, HoldersApart
  <2> QED
    BY <2>1 DEF mTransactions, HolderInv, TreesWhole
<1> QED
  BY <1>1, Invariance, PTL

\* Whoever signals an event last deletes it, and only then: neither side is left
\* with an event that is gone, and none is lost.
THEOREM EventsAlwaysAccounted == Spec => []EventsAccounted
BY Invariance, PTL DEF IInv, EventInv

\* A released tree that is waited for has a waiter on its way, unless a waiter that
\* gave up got the signal; however many wait, time out and come back.
THEOREM WaitersTold == Spec => []NoWaiterForgotten
BY Invariance, PTL DEF IInv
=============================================================================
