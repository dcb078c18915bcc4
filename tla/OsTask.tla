------------------------------- MODULE OsTask -------------------------------
(***************************************************************************)
(* The life of a task: OsTaskBase (src/os/OsTask.cpp) and OsTaskLinux      *)
(* (src/os/linux/OsTaskLinux.cpp) of sipXportLib.                          *)
(*                                                                         *)
(* start() creates a thread and meets it through two condition variables   *)
(* of mStartupSyncMutex; the thread runs run() with mDeleteGuard held for  *)
(* reading, acknowledges the shutdown and leaves; the destructor waits     *)
(* until the task is shut down and then for mDeleteGuard.                  *)
(*                                                                         *)
(* What run() does, and the calls that lead here, are left to the task,    *)
(* see OsServerTask.  A thread is known by the number of the start that    *)
(* created it.                                                             *)
(*                                                                         *)
(* Definitions whose name ends in _x are not the code: each is a plausible *)
(* mistake in the definition that follows it, kept to show that the        *)
(* properties would notice it.                                             *)
(***************************************************************************)
EXTENDS Integers, FiniteSets

CONSTANTS MaxStarts   \* bound: the threads that start() ever creates

ASSUME MaxStartsAssumption == MaxStarts \in Nat

TaskThreads == 1..MaxStarts

VARIABLES
  mState, mTaskId,
  deleteReaders,   \* the threads that hold mDeleteGuard for reading
  startedEvent,    \* mTaskStartedEvent was signalled to the waiting creator
  thread,          \* where each thread is in taskEntry()
  owner            \* where the owner of the task is

taskVars == <<mState, mTaskId, deleteReaders, startedEvent, thread, owner>>

TaskStates == {"UNINITIALIZED", "STARTED", "SHUTTING_DOWN", "SHUT_DOWN"}

\* start() keeps mDataGuard while it waits for the thread it created, so all
\* who look at mState wait for it.
mDataGuardFree == owner # "creating"

TaskInit ==
  /\ mState = "UNINITIALIZED" /\ mTaskId = 0
  /\ deleteReaders = {}
  /\ startedEvent = FALSE
  /\ thread = [k \in TaskThreads |-> "none"]
  /\ owner = "idle"

GoThread(k, place) == thread' = [thread EXCEPT ![k] = place]
GoOwner(from, to)  == owner = from /\ owner' = to

\* It refuses a started task only; see OsServerTask for when it is called.
start ==
  /\ mState # "STARTED"
  /\ GoOwner("idle", "creating")
  /\ \E k \in TaskThreads :
       /\ \A j \in TaskThreads : thread[j] = "none" <=> j >= k
       /\ GoThread(k, "born")
       /\ mTaskId' = k
  /\ startedEvent' = FALSE
  /\ UNCHANGED <<mState, deleteReaders>>

\* The thread signals mTaskStartedEvent and waits for mTaskInitializedEvent.
ThreadStarts(k) ==
  /\ thread[k] = "born"
  /\ GoThread(k, "awaitInit")
  /\ startedEvent' = (owner = "creating")
  /\ UNCHANGED <<mState, mTaskId, deleteReaders, owner>>

\* doLinuxCreateTask() wakes up: the task is started, one waiting thread goes on.
StartSucceeds_x ==   \* signals before anybody waits
  /\ GoOwner("creating", "idle")
  /\ mState' = "STARTED"
  /\ IF \E k \in TaskThreads : thread[k] = "awaitInit"
     THEN \E k \in TaskThreads : thread[k] = "awaitInit" /\ GoThread(k, "go")
     ELSE UNCHANGED thread
  /\ startedEvent' = FALSE
  /\ UNCHANGED <<mTaskId, deleteReaders>>
StartSucceeds_broadcast_x ==   \* wakes all that wait
  /\ startedEvent
  /\ GoOwner("creating", "idle")
  /\ mState' = "STARTED"
  /\ thread' = [k \in TaskThreads |-> IF thread[k] = "awaitInit" THEN "go" ELSE thread[k]]
  /\ startedEvent' = FALSE
  /\ UNCHANGED <<mTaskId, deleteReaders>>
StartSucceeds ==
  /\ startedEvent
  /\ GoOwner("creating", "idle")
  /\ mState' = "STARTED"
  /\ \E k \in TaskThreads : thread[k] = "awaitInit" /\ GoThread(k, "go")
  /\ startedEvent' = FALSE
  /\ UNCHANGED <<mTaskId, deleteReaders>>

\* After OS_TASK_THREAD_STARTUP_TIMEOUT the creator gives up on the thread.
StartTimesOut ==
  /\ ~startedEvent
  /\ GoOwner("creating", "idle")
  /\ UNCHANGED <<mState, mTaskId, deleteReaders, startedEvent, thread>>

\* The thread marks the task as not safe to delete and enters run().
EnterRun_x(k) ==   \* without mDeleteGuard
  /\ thread[k] = "go"
  /\ GoThread(k, "run")
  /\ UNCHANGED <<mState, mTaskId, deleteReaders, startedEvent, owner>>
EnterRun(k) ==
  /\ thread[k] = "go"
  /\ owner # "unregister"    \* nobody writes
  /\ deleteReaders' = deleteReaders \cup {k}
  /\ GoThread(k, "run")
  /\ UNCHANGED <<mState, mTaskId, startedEvent, owner>>

ackShutdown(k) ==
  /\ thread[k] = "returned" /\ mDataGuardFree
  /\ mState' = "SHUT_DOWN"
  /\ GoThread(k, "unregister")
  /\ UNCHANGED <<mTaskId, deleteReaders, startedEvent, owner>>

\* taskUnregister() clears mTaskId, whoever's it is by now.
taskUnregister(k) ==
  /\ thread[k] = "unregister"
  /\ mTaskId' = 0
  /\ GoThread(k, "release")
  /\ UNCHANGED <<mState, deleteReaders, startedEvent, owner>>

LeaveThread(k) ==
  /\ thread[k] = "release"
  /\ deleteReaders' = deleteReaders \ {k}
  /\ GoThread(k, "gone")
  /\ UNCHANGED <<mState, mTaskId, startedEvent, owner>>

TaskThreadStep(k) ==
  ThreadStarts(k) \/ EnterRun(k) \/ ackShutdown(k) \/ taskUnregister(k) \/ LeaveThread(k)

\* OsTaskBase::requestShutdown(): the change of mState.
ShutdownRequested_x == IF mState = "UNINITIALIZED" THEN "SHUT_DOWN" ELSE "SHUTTING_DOWN"
ShutdownRequested ==
  IF mState \notin {"STARTED", "SHUTTING_DOWN"} THEN "SHUT_DOWN" ELSE "SHUTTING_DOWN"

\* ~OsTaskLinux(): waitUntilShutDown() again, with nothing to wait for, and
\* doLinuxTerminateTask(FALSE), which looks at mTaskId before mDeleteGuard.
TerminateTask ==
  /\ owner = "terminate"
  /\ owner' = IF mState # "UNINITIALIZED" /\ mTaskId # 0
              THEN "acquireWrite" ELSE "uninitialize"
  /\ UNCHANGED <<mState, mTaskId, deleteReaders, startedEvent, thread>>

acquireWrite ==
  /\ deleteReaders = {}
  /\ GoOwner("acquireWrite", "unregister")
  /\ UNCHANGED <<mState, mTaskId, deleteReaders, startedEvent, thread>>

\* Under mDeleteGuard: taskUnregister(); the task is neither STARTED nor
\* SHUTTING_DOWN any more, so there is nobody to cancel.
TerminateUnregisters ==
  /\ GoOwner("unregister", "uninitialize")
  /\ mTaskId' = 0
  /\ UNCHANGED <<mState, deleteReaders, startedEvent, thread>>

FreeTask ==
  /\ GoOwner("uninitialize", "freed")
  /\ mState' = "UNINITIALIZED"
  /\ UNCHANGED <<mTaskId, deleteReaders, startedEvent, thread>>

TaskOwnerStep ==
  StartSucceeds \/ TerminateTask \/ acquireWrite \/ TerminateUnregisters \/ FreeTask
=============================================================================
