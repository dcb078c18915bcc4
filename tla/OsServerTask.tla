---------------------------- MODULE OsServerTask ----------------------------
(***************************************************************************)
(* OsServerTask (src/os/OsServerTask.cpp of sipXportLib): a task that      *)
(* handles the messages other threads post to its queue, one at a time,    *)
(* until it is asked to shut down.  SipUserAgent, CallManager, CpCall,     *)
(* SipPublishContentMgr and the timer task are such tasks.                 *)
(*                                                                         *)
(* The task's life is that of OsTask; its queue is taken at its promise,   *)
(* MsgQueue, which OsMsgQShared is proved to keep.  Client threads post    *)
(* messages and ask for the shutdown; the owner starts the task, may start *)
(* it again once it is shut down, and deletes it when no client is in a    *)
(* call to it.                                                             *)
(***************************************************************************)
EXTENDS OsTask, Sequences

CONSTANTS
  Clients, Owner,   \* the threads other than the task's
  mMaxMsgs,         \* the room in the queue
  MaxCalls,         \* bound: calls of the clients, together
  NoMsg

ASSUME ServerTaskAssumption ==
  /\ IsFiniteSet(Clients)
  /\ Owner \notin Clients
  /\ (Clients \cup {Owner}) \cap TaskThreads = {}
  /\ mMaxMsgs \in Nat \ {0}
  /\ MaxCalls \in Nat

VARIABLES
  queue, delivered, call, status,   \* mIncomingQ, see MsgQueue
  inHand,     \* the message each thread took last
  handled,    \* the messages given to handleMessage(), with the thread that did
  tooLate,    \* the messages put when a thread was already asked to stop, with it
  numCalls    \* the calls the clients have made

queueVars   == <<queue, delivered, call, status>>
historyVars == <<handled, tooLate>>
vars == <<taskVars, queueVars, inHand, historyVars, numCalls>>

Callers  == Clients \cup {Owner}
MsgTypes == {"work", "OS_SHUTDOWN"}
Messages == [from : Callers, num : 0..MaxCalls, type : MsgTypes, urgent : {FALSE}]
Msg(from, num, type) == [from |-> from, num |-> num, type |-> type, urgent |-> FALSE]

Q == INSTANCE MsgQueue WITH Threads <- Callers \cup TaskThreads, MaxMsgs <- mMaxMsgs

Init ==
  /\ TaskInit
  /\ Q!Init
  /\ inHand = [k \in TaskThreads |-> NoMsg]
  /\ handled = {} /\ tooLate = {}
  /\ numCalls = 0

\* The threads that were let through to run() and have not acknowledged a shutdown.
InRun == {k \in TaskThreads : thread[k] \in {"go", "run", "check", "handle", "returned"}}

Deleting == owner \notin {"idle", "creating"}

-----------------------------------------------------------------------------
(* The clients.                                                            *)

Calls ==
  /\ ~Deleting
  /\ numCalls < MaxCalls
  /\ numCalls' = numCalls + 1

postMessage(c) ==
  /\ Calls
  /\ Q!Begin(c, Q!Sending(Msg(c, numCalls', "work")))
  /\ UNCHANGED <<taskVars, inHand, historyVars>>

\* OsTask::requestShutdown(), then the message that unblocks the task.
AskToShutDown_x(t, num) ==   \* posts nothing
  /\ mState' = ShutdownRequested
  /\ call[t] = Q!None
  /\ UNCHANGED queueVars
AskToShutDown(t, num) ==
  /\ mState' = ShutdownRequested
  /\ Q!Begin(t, Q!Sending(Msg(t, num, "OS_SHUTDOWN")))

requestShutdown(c) ==
  /\ mDataGuardFree
  /\ Calls
  /\ AskToShutDown(c, numCalls')
  /\ UNCHANGED <<mTaskId, deleteReaders, startedEvent, thread, owner, inHand, historyVars>>

\* The queue takes the message.
MsgPut(t) ==
  /\ Q!Put(t)
  /\ tooLate' = IF mState = "SHUTTING_DOWN" /\ call[t].msg.type = "work"
                THEN tooLate \cup ({call[t].msg} \X InRun) ELSE tooLate
  /\ UNCHANGED <<inHand, handled, numCalls>>

ClientPuts(c) == MsgPut(c) /\ UNCHANGED taskVars

\* postMessage() with a timeout; requestShutdown() waits for ever.
PostTimesOut(c) ==
  /\ Q!SendGivesUp(c)
  /\ call[c].msg.type = "work"
  /\ UNCHANGED <<taskVars, inHand, historyVars, numCalls>>

-----------------------------------------------------------------------------
(* The task's thread, in run().                                            *)

receiveMessage(k) ==
  /\ thread[k] = "run"
  /\ Q!Begin(k, Q!Receiving)
  /\ UNCHANGED <<taskVars, inHand, historyVars, numCalls>>

MsgReceived_x(k) ==   \* looked at mState before it waited for the message
  /\ thread[k] = "run"
  /\ Q!Take(k)
  /\ inHand' = [inHand EXCEPT ![k] = Head(queue)]
  /\ GoThread(k, "handle")
  /\ UNCHANGED <<mState, mTaskId, deleteReaders, startedEvent, owner, historyVars, numCalls>>
MsgReceived(k) ==
  /\ thread[k] = "run"
  /\ Q!Take(k)
  /\ inHand' = [inHand EXCEPT ![k] = Head(queue)]
  /\ GoThread(k, "check")
  /\ UNCHANGED <<mState, mTaskId, deleteReaders, startedEvent, owner, historyVars, numCalls>>

\* doShutdown = isShuttingDown(): what it took before it looks is dropped.
Look(k) ==
  /\ thread[k] = "check"
  /\ mDataGuardFree
  /\ GoThread(k, IF mState = "SHUTTING_DOWN" THEN "returned" ELSE "handle")
  /\ UNCHANGED <<mState, mTaskId, deleteReaders, startedEvent, owner>>

isShuttingDown(k) == Look(k) /\ UNCHANGED <<queueVars, inHand, historyVars, numCalls>>

\* OS_SHUTDOWN changes nothing by itself.
handleMessage(k) ==
  /\ thread[k] = "handle"
  /\ handled' = IF inHand[k].type = "work" THEN handled \cup {<<inHand[k], k>>} ELSE handled
  /\ GoThread(k, "run")
  /\ UNCHANGED <<mState, mTaskId, deleteReaders, startedEvent, owner,
                 queueVars, inHand, tooLate, numCalls>>

TaskStep(k) ==
  \/ receiveMessage(k) \/ MsgReceived(k) \/ isShuttingDown(k) \/ handleMessage(k)
  \/ TaskThreadStep(k) /\ UNCHANGED <<queueVars, inHand, historyVars, numCalls>>

-----------------------------------------------------------------------------
(* The owner.                                                              *)

\* "After a task has been shut down, it may be restarted" (OsTask.h): the owner does
\* not start it again while the shutdown it was asked for is under way.
OwnerStarts ==
  /\ \/ mState # "SHUTTING_DOWN" /\ start
     \/ StartTimesOut
  /\ UNCHANGED <<queueVars, inHand, historyVars, numCalls>>

\* ~OsServerTask(): waitUntilShutDown(), its requests first.
delete ==
  /\ \A c \in Clients : call[c] = Q!None
  /\ IF mState \in {"STARTED", "UNINITIALIZED"}
     THEN GoOwner("idle", "post") /\ AskToShutDown(Owner, 0)
     ELSE GoOwner("idle", "waitUntilShutDown") /\ UNCHANGED <<mState, queueVars>>
  /\ UNCHANGED <<mTaskId, deleteReaders, startedEvent, thread, inHand, historyVars, numCalls>>

OwnerPosted == owner = "post" /\ call[Owner] = Q!None

OwnerPuts ==
  /\ owner = "post"
  /\ MsgPut(Owner)
  /\ UNCHANGED taskVars

\* It does not return before the task is shut down.
waitUntilShutDown_x ==   \* gives up after milliSecToWait
  /\ OwnerPosted \/ owner = "waitUntilShutDown"
  /\ owner' = "flush"
  /\ UNCHANGED <<mState, mTaskId, deleteReaders, startedEvent, thread>>
waitUntilShutDown ==
  /\ OwnerPosted \/ owner = "waitUntilShutDown"
  /\ mState # "SHUTTING_DOWN"
  /\ owner' = "flush"
  /\ UNCHANGED <<mState, mTaskId, deleteReaders, startedEvent, thread>>

\* flush() receives, without waiting, until the queue is empty.
flush ==
  /\ GoOwner("flush", "terminate")
  /\ queue' = <<>>
  /\ UNCHANGED <<mState, mTaskId, deleteReaders, startedEvent, thread, delivered, call, status>>

OwnerStep ==
  \/ OwnerPuts
  \/ flush /\ UNCHANGED <<inHand, historyVars, numCalls>>
  \/ (waitUntilShutDown \/ TaskOwnerStep)
       /\ UNCHANGED <<queueVars, inHand, historyVars, numCalls>>

ClientStep(c) == postMessage(c) \/ requestShutdown(c) \/ ClientPuts(c) \/ PostTimesOut(c)

Next ==
  \/ \E c \in Clients : ClientStep(c)
  \/ \E k \in TaskThreads : TaskStep(k)
  \/ OwnerStarts \/ delete \/ OwnerStep

Spec == Init /\ [][Next]_vars

\* Threads that can go on do, a put that can be made is made; nobody has to
\* call, to time out, to start or to delete.
FairSpec ==
  /\ Spec
  /\ \A c \in Clients : WF_vars(ClientPuts(c))
  /\ \A k \in TaskThreads : WF_vars(TaskStep(k))
  /\ WF_vars(OwnerStep)

-----------------------------------------------------------------------------
(* Properties.                                                             *)

ThreadPlaces == {"none", "born", "awaitInit", "go", "run", "check", "handle",
                 "returned", "unregister", "release", "gone"}
OwnerPlaces  == {"idle", "creating", "post", "waitUntilShutDown", "flush", "terminate",
                 "acquireWrite", "unregister", "uninitialize", "freed"}

\* The types; a thread is counted in mDeleteGuard from before run() until it leaves.
TypeOK ==
  /\ mState \in TaskStates
  /\ mTaskId \in {0} \cup TaskThreads
  /\ thread \in [TaskThreads -> ThreadPlaces]
  /\ deleteReaders = {k \in TaskThreads :
       thread[k] \in {"run", "check", "handle", "returned", "unregister", "release"}}
  /\ startedEvent \in BOOLEAN
  /\ owner \in OwnerPlaces
  /\ queue \in Seq(Messages) /\ Len(queue) <= mMaxMsgs
  /\ inHand \in [TaskThreads -> Messages \cup {NoMsg}]
  /\ handled \subseteq Messages \X TaskThreads
  /\ tooLate \subseteq Messages \X TaskThreads
  /\ numCalls \in 0..MaxCalls

\* However often start() gave up on a thread that came late, one thread at most
\* was let through to run(): handleMessage() is never in two threads at once.
AtMostOneRunner == Cardinality(InRun) <= 1

\* waitUntilShutDown() keeps its promise: once it returned, run() has exited,
\* and the destructor can flush the queue and destroy what run() uses.
RunExitedBeforeDelete == owner \in OwnerPlaces \ {"idle", "creating", "post", "waitUntilShutDown"}
                           => InRun = {}

\* requestShutdown() changes mState before it posts, and run() looks at mState
\* after it received: what the queue takes from then on is not handled in this
\* life of the task, only in the next.
LateMessageNotHandled == handled \cap tooLate = {}

\* A message in the queue of a started task is handled, unless a shutdown comes first.
PostedIsHandled ==
  \A n \in 1..MaxCalls :
    mState = "STARTED" /\ (\E i \in 1..Len(queue) : queue[i].num = n /\ queue[i].type = "work")
      ~> mState # "STARTED" \/ \E h \in handled : h[1].num = n

\* A task that was asked to shut down does, whatever its thread was doing: the
\* message that unblocks it does not come before the state it is to see.
ShutdownCompletes == mState = "SHUTTING_DOWN" ~> mState # "SHUTTING_DOWN"

\* The destructor returns, but for one case: it posts its OS_SHUTDOWN to a queue
\* that is full, and there is no thread in run() any more, or yet, to make room.
DestructorReturns ==
  Deleting ~> \/ owner = "freed"
              \/ /\ owner = "post" /\ call[Owner] # Q!None
                 /\ Len(queue) = mMaxMsgs /\ InRun = {}

\* OsServerTask.cpp:58-62, of the destructor: "As part of destroying the task,
\* flush all messages from the incoming OsMsgQ", after "upto 20 seconds": whatever
\* the queue holds, it comes to its end.
DestructorEnds == Deleting ~> owner = "freed"

\* OsTaskLinux.cpp:680-683, of the destructor: "A task is made safe from deletes
\* by acquiring a read lock on its mDeleteGuard.  [...] This will only happen after
\* all of the read lock holders have released their locks."
DeleteWaitsForReaders == owner = "freed" => deleteReaders = {}
=============================================================================
