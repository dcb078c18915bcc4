------------------------ MODULE OsServerTask_proofs ------------------------
(* The safety of OsTask and OsServerTask, for any number of clients, calls  *)
(* and starts and any capacity of the queue.                                *)
EXTENDS OsServerTask, FiniteSetTheorems, TLAPS

-----------------------------------------------------------------------------
(* The life of the task.                                                    *)

Reading == {"run", "check", "handle", "returned", "unregister", "release"}
Running == {"go", "run", "check", "handle", "returned"}

TaskType ==
  /\ mState \in TaskStates
  /\ mTaskId \in {0} \cup TaskThreads
  /\ thread \in [TaskThreads -> ThreadPlaces]
  /\ deleteReaders = {k \in TaskThreads : thread[k] \in Reading}
  /\ startedEvent \in BOOLEAN
  /\ owner \in OwnerPlaces

Destroying == OwnerPlaces \ {"idle", "creating", "post", "waitUntilShutDown"}

\* The state that lets a thread through to run() is left only by that thread,
\* and nobody starts the task in between.
OneRun ==
  /\ \A j, k \in TaskThreads : thread[j] \in Running /\ thread[k] \in Running => j = k
  /\ \A k \in TaskThreads :
       /\ thread[k] \in Running => mState \in {"STARTED", "SHUTTING_DOWN"}
       /\ thread[k] \in Running => owner \notin Destroying
       /\ thread[k] = "returned" => mState = "SHUTTING_DOWN"
  /\ owner = "creating" => mState \in {"UNINITIALIZED", "SHUT_DOWN"}
  /\ Deleting => mState # "STARTED"

RunInv == TaskType /\ OneRun

LEMMA RunInit == Init => RunInv
BY DEF Init, TaskInit, RunInv, TaskType, OneRun, TaskStates, ThreadPlaces, OwnerPlaces, Reading,
   Running, Deleting

\* A step that only lets a thread go on within run(), or leave it.
LEMMA ThreadGoesOn ==
  ASSUME RunInv, NEW k \in TaskThreads, NEW place \in ThreadPlaces,
         GoThread(k, place), UNCHANGED <<mState, owner, startedEvent>>, mTaskId' \in {0} \cup TaskThreads,
         deleteReaders' = {j \in TaskThreads : thread'[j] \in Reading},
         place \in Running => thread[k] \in Running,
         place = "returned" => mState = "SHUTTING_DOWN"
  PROVE  RunInv'
<1>1. /\ thread' \in [TaskThreads -> ThreadPlaces]
      /\ \A j \in TaskThreads : thread'[j] = IF j = k THEN place ELSE thread[j]
  BY DEF GoThread, RunInv, TaskType
<1>2. TaskType'
  BY <1>1 DEF RunInv, TaskType
<1>3. \A j \in TaskThreads : /\ thread'[j] \in Running => thread[j] \in Running
                             /\ thread'[j] = "returned" => mState = "SHUTTING_DOWN"
  BY <1>1 DEF RunInv, OneRun
<1>4. OneRun'
  BY <1>3 DEF RunInv, OneRun, Deleting
<1> QED
  BY <1>2, <1>4 DEF RunInv

\* What is read of a thread that goes on within run().
LEMMA StaysReading ==
  ASSUME RunInv, NEW k \in TaskThreads, NEW place, GoThread(k, place),
         place \in Reading, thread[k] \in Reading, UNCHANGED deleteReaders
  PROVE  deleteReaders' = {j \in TaskThreads : thread'[j] \in Reading}
BY DEF GoThread, RunInv, TaskType

LEMMA RunTaskThread ==
  ASSUME RunInv, NEW k \in TaskThreads, TaskThreadStep(k)
  PROVE  RunInv'
<1>0. mTaskId \in {0} \cup TaskThreads /\ thread \in [TaskThreads -> ThreadPlaces]
  BY DEF RunInv, TaskType
<1>1. CASE ThreadStarts(k)
  <2>1. /\ thread' = [thread EXCEPT ![k] = "awaitInit"] /\ thread[k] = "born"
        /\ UNCHANGED <<mState, mTaskId, deleteReaders, owner>> /\ startedEvent' \in BOOLEAN
    BY <1>1 DEF ThreadStarts, GoThread
  <2>2. \A j \in TaskThreads : /\ thread'[j] \in Running => thread[j] \in Running
                               /\ thread'[j] = "returned" => thread[j] = "returned"
                               /\ thread'[j] \in Reading <=> thread[j] \in Reading
    BY <2>1, <1>0 DEF Running, Reading
  <2>3. TaskType'
    BY <2>1, <2>2 DEF RunInv, TaskType, ThreadPlaces
  <2> QED
    BY <2>1, <2>2, <2>3 DEF RunInv, OneRun, Deleting
<1>2. CASE EnterRun(k)
  <2>1. deleteReaders' = {j \in TaskThreads : thread'[j] \in Reading}
    BY <1>2, <1>0 DEF EnterRun, GoThread, RunInv, TaskType, Reading
  <2> QED
    BY <1>2, <2>1, <1>0, ThreadGoesOn DEF EnterRun, ThreadPlaces, Running
<1>3. CASE ackShutdown(k)
  <2>1. /\ thread' = [thread EXCEPT ![k] = "unregister"] /\ thread[k] = "returned"
        /\ UNCHANGED <<mTaskId, deleteReaders, startedEvent, owner>>
        /\ mState' = "SHUT_DOWN" /\ owner # "creating"
    BY <1>3 DEF ackShutdown, GoThread, mDataGuardFree
  <2>2. \A j \in TaskThreads : thread'[j] \notin Running
    BY <2>1, <1>0 DEF RunInv, OneRun, Running
  <2>3. \A j \in TaskThreads : thread'[j] \in Reading <=> thread[j] \in Reading
    BY <2>1, <1>0 DEF Reading
  <2>4. TaskType'
    BY <2>1, <2>3 DEF RunInv, TaskType, ThreadPlaces, TaskStates
  <2> QED
    BY <2>1, <2>2, <2>4 DEF RunInv, OneRun, Deleting, Running
<1>4. CASE taskUnregister(k)
  <2>1. deleteReaders' = {j \in TaskThreads : thread'[j] \in Reading}
    BY <1>4, StaysReading DEF taskUnregister, Reading
  <2> QED
    BY <1>4, <2>1, ThreadGoesOn DEF taskUnregister, ThreadPlaces, Running
<1>5. CASE LeaveThread(k)
  <2>1. deleteReaders' = {j \in TaskThreads : thread'[j] \in Reading}
    BY <1>5, <1>0 DEF LeaveThread, GoThread, RunInv, TaskType, Reading
  <2> QED
    BY <1>5, <2>1, <1>0, ThreadGoesOn DEF LeaveThread, ThreadPlaces, Running
<1> QED
  BY <1>1, <1>2, <1>3, <1>4, <1>5 DEF TaskThreadStep

LEMMA RunTask ==
  ASSUME RunInv, NEW k \in TaskThreads, TaskStep(k)
  PROVE  RunInv'
<1>0. mTaskId \in {0} \cup TaskThreads
  BY DEF RunInv, TaskType
<1>1. CASE receiveMessage(k)
  BY <1>1 DEF receiveMessage, taskVars, RunInv, TaskType, OneRun, Deleting
<1>2. CASE MsgReceived(k)
  <2>1. deleteReaders' = {j \in TaskThreads : thread'[j] \in Reading}
    BY <1>2, StaysReading DEF MsgReceived, Reading
  <2> QED
    BY <1>2, <2>1, <1>0, ThreadGoesOn DEF MsgReceived, ThreadPlaces, Running
<1>3. CASE isShuttingDown(k)
  <2> DEFINE place == IF mState = "SHUTTING_DOWN" THEN "returned" ELSE "handle"
  <2>1. /\ GoThread(k, place) /\ thread[k] = "check"
        /\ UNCHANGED <<mState, mTaskId, deleteReaders, startedEvent, owner>>
    BY <1>3 DEF isShuttingDown, Look
  <2>2. deleteReaders' = {j \in TaskThreads : thread'[j] \in Reading}
    BY <2>1, StaysReading DEF Reading
  <2>3. place \in ThreadPlaces /\ (place = "returned" => mState = "SHUTTING_DOWN")
    BY DEF ThreadPlaces
  <2> HIDE DEF place
  <2> QED
    BY <2>1, <2>2, <2>3, <1>0, ThreadGoesOn DEF Running
<1>4. CASE handleMessage(k)
  <2>1. deleteReaders' = {j \in TaskThreads : thread'[j] \in Reading}
    BY <1>4, StaysReading DEF handleMessage, Reading
  <2> QED
    BY <1>4, <2>1, <1>0, ThreadGoesOn DEF handleMessage, ThreadPlaces, Running
<1>5. CASE TaskThreadStep(k)
  BY <1>5, RunTaskThread
<1> QED
  BY <1>1, <1>2, <1>3, <1>4, <1>5 DEF TaskStep

LEMMA RunOwnerStarts == ASSUME RunInv, OwnerStarts PROVE RunInv'
<1>0. thread \in [TaskThreads -> ThreadPlaces] /\ mState \in TaskStates
  BY DEF RunInv, TaskType
<1>1. CASE start /\ mState # "SHUTTING_DOWN"
  <2>1. PICK k \in TaskThreads : /\ \A j \in TaskThreads : thread[j] = "none" <=> j >= k
                                 /\ GoThread(k, "born")
                                 /\ mTaskId' = k
    BY <1>1 DEF start
  <2>2. /\ mState \in {"UNINITIALIZED", "SHUT_DOWN"} /\ owner = "idle" /\ owner' = "creating"
        /\ startedEvent' = FALSE /\ UNCHANGED <<mState, deleteReaders>>
    BY <1>0, <1>1 DEF start, GoOwner, TaskStates
  <2>3. thread[k] = "none"
    BY <2>1 DEF TaskThreads
  <2>4. /\ thread' \in [TaskThreads -> ThreadPlaces]
        /\ \A j \in TaskThreads : thread'[j] = IF j = k THEN "born" ELSE thread[j]
    BY <2>1, <1>0 DEF GoThread, ThreadPlaces
  <2>5. \A j \in TaskThreads : /\ thread'[j] \notin Running
                               /\ thread'[j] \in Reading <=> thread[j] \in Reading
    BY <2>2, <2>3, <2>4 DEF Running, Reading, RunInv, OneRun
  <2>6. TaskType'
    BY <2>1, <2>2, <2>4, <2>5 DEF RunInv, TaskType, OwnerPlaces
  <2> QED
    BY <2>2, <2>5, <2>6 DEF RunInv, OneRun, Deleting, Destroying, Running
<1>2. CASE StartTimesOut
  <2>1. /\ owner = "creating" /\ owner' = "idle"
        /\ UNCHANGED <<mState, mTaskId, deleteReaders, startedEvent, thread>>
    BY <1>2 DEF StartTimesOut, GoOwner
  <2> QED
    BY <2>1 DEF RunInv, TaskType, OneRun, Deleting, Destroying, OwnerPlaces
<1> QED
  BY <1>1, <1>2 DEF OwnerStarts

\* requestShutdown() leaves the task shutting down, or shut down.
LEMMA RequestChanges ==
  ASSUME RunInv, mState' = ShutdownRequested
  PROVE  /\ mState' \in {"SHUTTING_DOWN", "SHUT_DOWN"}
         /\ mState \in {"STARTED", "SHUTTING_DOWN"} => mState' = "SHUTTING_DOWN"
         /\ mState = "SHUT_DOWN" => mState' = "SHUT_DOWN"
BY DEF ShutdownRequested, RunInv, TaskType, TaskStates

LEMMA RunClient == ASSUME RunInv, NEW c \in Clients, ClientStep(c) PROVE RunInv'
<1>1. CASE requestShutdown(c)
  <2>1. /\ mState' = ShutdownRequested /\ owner # "creating" /\ ~Deleting
        /\ UNCHANGED <<mTaskId, deleteReaders, startedEvent, thread, owner>>
    BY <1>1 DEF requestShutdown, Calls, AskToShutDown, mDataGuardFree
  <2>2. /\ mState' \in {"SHUTTING_DOWN", "SHUT_DOWN"}
        /\ mState \in {"STARTED", "SHUTTING_DOWN"} => mState' = "SHUTTING_DOWN"
    BY <2>1, RequestChanges
  <2>3. TaskType'
    BY <2>1, <2>2 DEF RunInv, TaskType, TaskStates
  <2>4. OneRun'
    BY <2>1, <2>2 DEF RunInv, OneRun, Deleting
  <2> QED
    BY <2>3, <2>4 DEF RunInv
<1>2. CASE UNCHANGED taskVars
  BY <1>2 DEF taskVars, RunInv, TaskType, OneRun, Deleting
<1> QED
  BY <1>1, <1>2 DEF ClientStep, postMessage, ClientPuts, PostTimesOut

LEMMA RunOwner == ASSUME RunInv, delete \/ OwnerStep PROVE RunInv'
<1>0. thread \in [TaskThreads -> ThreadPlaces] /\ mState \in TaskStates
  BY DEF RunInv, TaskType
<1>1. CASE delete
  <2>1. /\ owner = "idle" /\ owner' \in {"post", "waitUntilShutDown"}
        /\ UNCHANGED <<mTaskId, deleteReaders, startedEvent, thread>>
        /\ mState \in {"STARTED", "UNINITIALIZED"} => mState' = ShutdownRequested
        /\ mState \notin {"STARTED", "UNINITIALIZED"} => mState' = mState
    BY <1>1 DEF delete, GoOwner, AskToShutDown
  <2>2. /\ mState' \in {"SHUTTING_DOWN", "SHUT_DOWN"}
        /\ mState \in {"STARTED", "SHUTTING_DOWN"} => mState' = "SHUTTING_DOWN"
    BY <2>1, <1>0, RequestChanges DEF TaskStates
  <2>3. TaskType'
    BY <2>1, <2>2 DEF RunInv, TaskType, TaskStates, OwnerPlaces
  <2>4. OneRun'
    BY <2>1, <2>2 DEF RunInv, OneRun, Deleting, Destroying
  <2> QED
    BY <2>3, <2>4 DEF RunInv
<1>2. CASE OwnerPuts
  BY <1>2 DEF OwnerPuts, taskVars, RunInv, TaskType, OneRun, Deleting
<1>3. CASE waitUntilShutDown
  <2>1. /\ owner \in {"post", "waitUntilShutDown"} /\ owner' = "flush" /\ mState # "SHUTTING_DOWN"
        /\ UNCHANGED <<mState, mTaskId, deleteReaders, startedEvent, thread>>
    BY <1>3 DEF waitUntilShutDown, OwnerPosted
  <2>2. \A k \in TaskThreads : thread[k] \notin Running
    BY <2>1 DEF RunInv, OneRun, Deleting
  <2>3. TaskType'
    BY <2>1 DEF RunInv, TaskType, OwnerPlaces
  <2>4. OneRun'
    BY <2>1, <2>2 DEF RunInv, OneRun, Deleting, Running
  <2> QED
    BY <2>3, <2>4 DEF RunInv
<1>4. CASE flush \/ TerminateTask \/ acquireWrite \/ TerminateUnregisters \/ FreeTask
  <2>1. /\ owner \in Destroying /\ owner' \in Destroying
        /\ UNCHANGED <<deleteReaders, startedEvent, thread>>
        /\ mState' \in {mState, "UNINITIALIZED"} /\ mTaskId' \in {mTaskId, 0}
    BY <1>4 DEF flush, TerminateTask, acquireWrite, TerminateUnregisters, FreeTask, GoOwner,
       Destroying, OwnerPlaces
  <2>2. \A k \in TaskThreads : thread[k] \notin Running
    BY <2>1 DEF RunInv, OneRun
  <2>3. TaskType'
    BY <2>1 DEF RunInv, TaskType, Destroying, TaskStates
  <2>4. OneRun'
    BY <2>1, <2>2 DEF RunInv, OneRun, Deleting, Running, Destroying
  <2> QED
    BY <2>3, <2>4 DEF RunInv
<1>5. CASE StartSucceeds
  <2>1. PICK k \in TaskThreads : thread[k] = "awaitInit" /\ GoThread(k, "go")
    BY <1>5 DEF StartSucceeds
  <2>2. /\ owner = "creating" /\ owner' = "idle" /\ mState' = "STARTED" /\ startedEvent' = FALSE
        /\ UNCHANGED <<mTaskId, deleteReaders>>
    BY <1>5 DEF StartSucceeds, GoOwner
  <2>3. \A j \in TaskThreads : thread[j] \notin Running
    BY <2>2 DEF RunInv, OneRun
  <2>4. /\ thread' \in [TaskThreads -> ThreadPlaces]
        /\ \A j \in TaskThreads : thread'[j] = IF j = k THEN "go" ELSE thread[j]
    BY <2>1, <1>0 DEF GoThread, ThreadPlaces
  <2>5. TaskType'
    BY <2>1, <2>2, <2>4 DEF RunInv, TaskType, TaskStates, OwnerPlaces, Reading
  <2>6. OneRun'
    BY <2>2, <2>3, <2>4 DEF OneRun, Deleting, Destroying, Running
  <2> QED
    BY <2>5, <2>6 DEF RunInv
<1> QED
  BY <1>1, <1>2, <1>3, <1>4, <1>5 DEF OwnerStep, TaskOwnerStep

LEMMA RunNext == RunInv /\ [Next]_vars => RunInv'
<1>1. RunInv /\ UNCHANGED vars => RunInv'
  BY DEF vars, taskVars, RunInv, TaskType, OneRun, Deleting
<1> QED
  BY <1>1, RunTask, RunOwnerStarts, RunClient, RunOwner DEF Next

\* The invariant of a task's life holds in every state.
THEOREM RunIsSafe == Spec => []RunInv
BY RunInit, RunNext, PTL DEF Spec

\* However often start() gave up on a thread that came late, at most one thread
\* is let through to run() (OsTaskLinux::doLinuxCreateTask(), taskEntry()).
THEOREM OneRunner == Spec => []AtMostOneRunner
<1>1. RunInv => AtMostOneRunner
  <2> SUFFICES ASSUME RunInv PROVE Cardinality(InRun) <= 1
    BY DEF AtMostOneRunner
  <2>1. \A j, k \in InRun : j = k
    BY DEF RunInv, OneRun, InRun, Running
  <2>2. CASE InRun = {}
    BY <2>2, FS_EmptySet
  <2>3. CASE InRun # {}
    <3>1. PICK k \in InRun : TRUE
      BY <2>3
    <3>2. InRun = {k}
      BY <2>1, <3>1
    <3> HIDE DEF InRun
    <3> QED
      BY <3>2, FS_Singleton
  <2> QED
    BY <2>2, <2>3
<1> QED
  BY <1>1, RunIsSafe, PTL

\* Once waitUntilShutDown() returned, run() has exited: the destructor of
\* OsServerTask may flush the queue and destroy what run() uses.
THEOREM RunExited == Spec => []RunExitedBeforeDelete
<1>1. RunInv => RunExitedBeforeDelete
  BY DEF RunInv, OneRun, RunExitedBeforeDelete, InRun, Running, Destroying
<1> QED
  BY <1>1, RunIsSafe, PTL
-----------------------------------------------------------------------------
(* The messages.                                                            *)

Early == {"none", "born", "awaitInit"}
Holding == {"check", "handle"}

\* The messages that a call may have made so far.
Sent == {m \in Messages : m.num <= numCalls}

MsgType ==
  /\ numCalls \in 0..MaxCalls
  /\ queue \in Seq(Sent) /\ Len(queue) <= mMaxMsgs
  /\ call \in [Callers \cup TaskThreads -> {Q!None, Q!Receiving} \cup {Q!Sending(m) : m \in Sent}]
  /\ inHand \in [TaskThreads -> Sent \cup {NoMsg}]
  /\ \A k \in TaskThreads : thread[k] \in Holding => inHand[k] \in Sent
  /\ handled \subseteq Sent \X TaskThreads
  /\ tooLate \subseteq Sent \X TaskThreads

\* A message that is still to be put was not put before.
Fresh ==
  \A t \in Callers : \A m \in Sent :
    call[t] = Q!Sending(m) =>
      /\ m.from = t
      /\ m.type = "work" =>
           /\ \A i \in 1..Len(queue) : queue[i] # m
           /\ \A k \in TaskThreads : thread[k] \in Holding => inHand[k] # m
           /\ \A k \in TaskThreads : <<m, k>> \notin handled

\* A message that came too late for a thread: the thread will look at mState
\* before it handles what it takes, and it does not run again after it stopped.
Late ==
  \A m \in Sent, k \in TaskThreads : <<m, k>> \in tooLate =>
    /\ <<m, k>> \notin handled
    /\ thread[k] \notin Early
    /\ thread[k] \in Running => mState = "SHUTTING_DOWN"
    /\ thread[k] = "handle" => inHand[k] # m

MsgInv == MsgType /\ Fresh /\ Late

LEMMA MsgInit == Init => MsgInv
<1> SUFFICES ASSUME Init PROVE MsgInv
  OBVIOUS
<1> USE ServerTaskAssumption
<1>1. MsgType
  BY DEF Init, TaskInit, Q!Init, MsgType, Holding
<1>2. Fresh
  BY DEF Init, Q!Init, Fresh, Q!None, Q!Sending
<1>3. Late
  BY DEF Init, Late
<1> QED
  BY <1>1, <1>2, <1>3 DEF MsgInv

\* The steps of the task's life that leave the messages alone, flush() included.
LEMMA TaskMoves ==
  ASSUME MsgInv, queue' \in {queue, <<>>}, UNCHANGED <<call, inHand, handled, tooLate, numCalls>>,
         \A k \in TaskThreads :
           /\ thread'[k] \in Holding => thread[k] \in Holding
           /\ thread'[k] \in Early => thread[k] \in Early
           /\ thread'[k] \in Running /\ thread[k] \notin Early =>
                /\ thread[k] \in Running
                /\ mState = "SHUTTING_DOWN" => mState' = "SHUTTING_DOWN"
           /\ thread'[k] = "handle" =>
                \/ thread[k] = "handle"
                \/ thread[k] \in Running /\ mState # "SHUTTING_DOWN"
  PROVE  MsgInv'
<1>0. Sent' = Sent
  BY DEF Sent
<1>1. MsgType'
  <2>1. queue \in Seq(Sent) /\ Len(queue) <= mMaxMsgs /\ mMaxMsgs \in Nat
    BY ServerTaskAssumption DEF MsgInv, MsgType
  <2>2. <<>> \in Seq(Sent) /\ Len(<<>>) <= mMaxMsgs
    BY <2>1
  <2>3. queue' \in Seq(Sent) /\ Len(queue') <= mMaxMsgs
    <3>1. CASE queue' = queue
      BY <2>1, <3>1
    <3>2. CASE queue' = <<>>
      BY <2>2, <3>2
    <3> QED
      BY <3>1, <3>2
  <2> QED
    BY <1>0, <2>3 DEF MsgInv, MsgType
<1>2. Fresh'
  BY <1>0 DEF MsgInv, Fresh
<1>3. Late'
  BY <1>0 DEF MsgInv, Late
<1> QED
  BY <1>1, <1>2, <1>3 DEF MsgInv

\* A caller starts to send: a message nobody sent before, or no work at all.
LEMMA SendBegins ==
  ASSUME RunInv, MsgInv, NEW t \in Callers, NEW num \in 0..MaxCalls, NEW type \in MsgTypes,
         Q!Begin(t, Q!Sending(Msg(t, num, type))),
         num > numCalls \/ type # "work",
         numCalls' \in 0..MaxCalls, numCalls' >= numCalls, num <= numCalls',
         UNCHANGED <<thread, inHand, handled, tooLate>>,
         mState = "SHUTTING_DOWN" => mState' = "SHUTTING_DOWN"
  PROVE  MsgInv'
<1> DEFINE new == Msg(t, num, type)
<1>0. MaxCalls \in Nat /\ numCalls \in 0..MaxCalls
  BY ServerTaskAssumption DEF MsgInv, MsgType
<1>1. /\ Sent \subseteq Sent' /\ new \in Sent' /\ (new.type = "work" => new \notin Sent)
      /\ new.from = t
  <2>1. new \in Messages
    BY DEF Messages, Msg
  <2>2. new.num = num /\ new.type = type /\ new.from = t
    BY DEF Msg
  <2> HIDE DEF new
  <2>3. \A m \in Messages : m.num \in 0..MaxCalls
    BY DEF Messages
  <2>4. Sent \subseteq Sent'
    BY <1>0, <2>3 DEF Sent
  <2>5. new \in Sent' /\ (new.type = "work" => new \notin Sent)
    BY <1>0, <2>1, <2>2 DEF Sent
  <2> QED
    BY <2>2, <2>4, <2>5
<1>2. /\ call' = [call EXCEPT ![t] = Q!Sending(new)] /\ UNCHANGED queue
  BY DEF Q!Begin
<1> HIDE DEF new
<1>3. queue \in Seq(Sent')
  BY <1>1 DEF MsgInv, MsgType
<1>4. MsgType'
  BY <1>1, <1>2, <1>3, SMTT(30) DEF MsgInv, MsgType
<1>5. Fresh'
  <2> SUFFICES ASSUME NEW u \in Callers, NEW m \in Sent', call'[u] = Q!Sending(m)
               PROVE  /\ m.from = u
                      /\ m.type = "work" =>
                           /\ \A i \in 1..Len(queue) : queue[i] # m
                           /\ \A k \in TaskThreads : thread[k] \in Holding => inHand[k] # m
                           /\ \A k \in TaskThreads : <<m, k>> \notin handled
    BY <1>2 DEF Fresh
  <2>1. CASE u = t
    <3>1. m = new
      BY <2>1, <1>2 DEF MsgInv, MsgType, Q!Sending
    <3>2. \A i \in 1..Len(queue) : queue[i] \in Sent
      BY DEF MsgInv, MsgType
    <3> QED
      BY <2>1, <3>1, <3>2, <1>1 DEF MsgInv, MsgType
  <2>2. CASE u # t
    <3>1. call[u] = Q!Sending(m)
      BY <2>2, <1>2 DEF MsgInv, MsgType
    <3>2. m \in Sent
      BY <3>1 DEF MsgInv, MsgType, Q!Sending, Q!None, Q!Receiving
    <3> QED
      BY <3>1, <3>2 DEF MsgInv, Fresh
  <2> QED
    BY <2>1, <2>2
<1>6. Late'
  <2>1. \A m \in Sent', k \in TaskThreads : <<m, k>> \in tooLate => m \in Sent
    BY DEF MsgInv, MsgType
  <2> QED
    BY <2>1 DEF MsgInv, Late
<1> QED
  BY <1>4, <1>5, <1>6 DEF MsgInv

\* A thread starts to receive, or gives up on what it sends.
LEMMA CallIsNoSend ==
  ASSUME MsgInv, NEW t \in Callers \cup TaskThreads, NEW c \in {Q!None, Q!Receiving},
         call' = [call EXCEPT ![t] = c],
         UNCHANGED <<mState, thread, queue, inHand, handled, tooLate, numCalls>>
  PROVE  MsgInv'
<1>0. Sent' = Sent
  BY DEF Sent
<1>1. \A u \in Callers, m \in Sent : call'[u] = Q!Sending(m) => call[u] = Q!Sending(m)
  BY DEF MsgInv, MsgType, Q!None, Q!Receiving, Q!Sending
<1>2. MsgType'
  BY <1>0 DEF MsgInv, MsgType
<1>3. Fresh'
  BY <1>0, <1>1 DEF MsgInv, Fresh
<1>4. Late'
  BY <1>0 DEF MsgInv, Late
<1> QED
  BY <1>2, <1>3, <1>4 DEF MsgInv

\* The queue takes a message: if a thread is asked to stop, it comes too late.
LEMMA PutIsFresh ==
  ASSUME RunInv, MsgInv, NEW t \in Callers, MsgPut(t), UNCHANGED taskVars
  PROVE  MsgInv'
<1> USE ServerTaskAssumption
<1>0. Sent' = Sent /\ UNCHANGED <<mState, thread, inHand, handled, numCalls>>
  BY DEF Sent, MsgPut, taskVars
<1>1. PICK m \in Sent : call[t] = Q!Sending(m)
  BY DEF MsgPut, Q!Put, MsgInv, MsgType, Q!None, Q!Receiving, Q!Sending
<1>2. call[t].msg = m /\ ~m.urgent
  <2>1. call[t].msg = m
    BY <1>1 DEF Q!Sending
  <2>2. m \in Messages
    BY DEF Sent
  <2>3. m.urgent = FALSE
    BY <2>2 DEF Messages
  <2> QED
    BY <2>1, <2>3
<1>3. /\ queue' = Append(queue, m) /\ Len(queue) < mMaxMsgs
      /\ call' = [call EXCEPT ![t] = Q!None]
  BY <1>2 DEF MsgPut, Q!Put, Q!Return
<1>4. tooLate' = IF mState = "SHUTTING_DOWN" /\ m.type = "work"
                 THEN tooLate \cup ({m} \X InRun) ELSE tooLate
  BY <1>2 DEF MsgPut
<1>5. /\ queue \in Seq(Sent) /\ queue' \in Seq(Sent) /\ Len(queue') <= mMaxMsgs
      /\ \A i \in 1..Len(queue') : (i \in 1..Len(queue) /\ queue'[i] = queue[i]) \/ queue'[i] = m
  <2>1. queue \in Seq(Sent) /\ mMaxMsgs \in Nat
    BY DEF MsgInv, MsgType
  <2>2. queue' \in Seq(Sent) /\ Len(queue') = Len(queue) + 1
    BY <1>3, <2>1
  <2>3. \A i \in 1..Len(queue') : queue'[i] = IF i <= Len(queue) THEN queue[i] ELSE m
    BY <1>3, <2>1
  <2> QED
    BY <1>3, <2>1, <2>2, <2>3
<1>6. tooLate' \subseteq Sent \X TaskThreads
  BY <1>4 DEF MsgInv, MsgType, InRun
<1>7. MsgType'
  BY <1>0, <1>3, <1>5, <1>6 DEF MsgInv, MsgType
<1>8. Fresh'
  <2> SUFFICES ASSUME NEW u \in Callers, NEW n \in Sent, call'[u] = Q!Sending(n)
               PROVE  /\ n.from = u
                      /\ n.type = "work" =>
                           /\ \A i \in 1..Len(queue') : queue'[i] # n
                           /\ \A k \in TaskThreads : thread[k] \in Holding => inHand[k] # n
                           /\ \A k \in TaskThreads : <<n, k>> \notin handled
    BY <1>0 DEF Fresh
  <2>1. u # t /\ call[u] = Q!Sending(n)
    BY <1>3 DEF MsgInv, MsgType, Q!None, Q!Sending
  <2>2. m.from = t /\ n.from = u
    BY <1>1, <2>1 DEF MsgInv, Fresh
  <2> QED
    BY <1>5, <2>1, <2>2 DEF MsgInv, Fresh
<1>9. Late'
  <2> SUFFICES ASSUME NEW n \in Sent, NEW k \in TaskThreads, <<n, k>> \in tooLate'
               PROVE  /\ <<n, k>> \notin handled
                      /\ thread[k] \notin Early
                      /\ thread[k] \in Running => mState = "SHUTTING_DOWN"
                      /\ thread[k] = "handle" => inHand[k] # n
    BY <1>0 DEF Late
  <2>1. CASE <<n, k>> \in tooLate
    BY <2>1 DEF MsgInv, Late
  <2>2. CASE <<n, k>> \notin tooLate
    <3>1. mState = "SHUTTING_DOWN" /\ m.type = "work" /\ n = m /\ k \in InRun
      BY <1>4, <2>2
    <3>2. thread[k] \notin Early
      BY <3>1 DEF InRun, Early
    <3> QED
      BY <1>1, <3>1, <3>2 DEF MsgInv, Fresh, Holding
  <2> QED
    BY <2>1, <2>2
<1> QED
  BY <1>7, <1>8, <1>9 DEF MsgInv

\* A thread takes the head of the queue in its hand.
LEMMA TakeIsFresh ==
  ASSUME RunInv, MsgInv, NEW k \in TaskThreads, MsgReceived(k)
  PROVE  MsgInv'
<1> USE ServerTaskAssumption
<1>0. /\ Sent' = Sent /\ UNCHANGED <<mState, handled, tooLate, numCalls>>
      /\ thread[k] = "run" /\ thread' = [thread EXCEPT ![k] = "check"]
      /\ queue # <<>> /\ queue' = Tail(queue)
      /\ inHand' = [inHand EXCEPT ![k] = Head(queue)]
      /\ call' = [call EXCEPT ![k] = Q!None]
  BY DEF Sent, MsgReceived, GoThread, Q!Take, Q!Return, historyVars
<1>1. /\ queue \in Seq(Sent) /\ queue' \in Seq(Sent) /\ Len(queue') <= mMaxMsgs
      /\ Head(queue) \in Sent /\ Head(queue) = queue[1] /\ 1 \in 1..Len(queue)
      /\ \A i \in 1..Len(queue') : i + 1 \in 1..Len(queue) /\ queue'[i] = queue[i + 1]
  BY <1>0 DEF MsgInv, MsgType
<1>2. /\ thread \in [TaskThreads -> ThreadPlaces] /\ inHand \in [TaskThreads -> Sent \cup {NoMsg}]
  BY DEF RunInv, TaskType, MsgInv, MsgType
<1>3. \A j \in TaskThreads : /\ thread'[j] = IF j = k THEN "check" ELSE thread[j]
                             /\ inHand'[j] = IF j = k THEN Head(queue) ELSE inHand[j]
  BY <1>0, <1>2
<1>4. MsgType'
  <2>1. inHand' \in [TaskThreads -> Sent \cup {NoMsg}]
    BY <1>0, <1>1, <1>2
  <2>2. \A j \in TaskThreads : thread'[j] \in Holding => inHand'[j] \in Sent
    BY <1>1, <1>3 DEF MsgInv, MsgType
  <2> QED
    BY <1>0, <1>1, <2>1, <2>2 DEF MsgInv, MsgType
<1>5. Fresh'
  <2> SUFFICES ASSUME NEW u \in Callers, NEW n \in Sent, call'[u] = Q!Sending(n)
               PROVE  /\ n.from = u
                      /\ n.type = "work" =>
                           /\ \A i \in 1..Len(queue') : queue'[i] # n
                           /\ \A j \in TaskThreads : thread'[j] \in Holding => inHand'[j] # n
                           /\ \A j \in TaskThreads : <<n, j>> \notin handled
    BY <1>0 DEF Fresh
  <2>1. call[u] = Q!Sending(n)
    BY <1>0 DEF MsgInv, MsgType, Q!None, Q!Sending
  <2> QED
    BY <1>1, <1>3, <2>1 DEF MsgInv, Fresh
<1>6. Late'
  BY <1>0, <1>3 DEF MsgInv, Late, Early, Running
<1> QED
  BY <1>4, <1>5, <1>6 DEF MsgInv

\* What a thread handles did not come too late for it.
LEMMA HandlesInTime ==
  ASSUME RunInv, MsgInv, NEW k \in TaskThreads, handleMessage(k)
  PROVE  MsgInv'
<1>0. /\ Sent' = Sent /\ UNCHANGED <<mState, queue, call, inHand, tooLate, numCalls>>
      /\ thread[k] = "handle" /\ thread' = [thread EXCEPT ![k] = "run"]
      /\ handled' \in {handled, handled \cup {<<inHand[k], k>>}}
  BY DEF Sent, handleMessage, GoThread, queueVars
<1>1. thread \in [TaskThreads -> ThreadPlaces] /\ inHand[k] \in Sent
  BY <1>0 DEF RunInv, TaskType, MsgInv, MsgType, Holding
<1>2. \A j \in TaskThreads : thread'[j] = IF j = k THEN "run" ELSE thread[j]
  BY <1>0, <1>1
<1>3. MsgType'
  BY <1>0, <1>1, <1>2 DEF MsgInv, MsgType, Holding
<1>4. Fresh'
  BY <1>0, <1>2 DEF MsgInv, Fresh, Holding
<1>5. Late'
  BY <1>0, <1>2 DEF MsgInv, Late, Early, Running
<1> QED
  BY <1>3, <1>4, <1>5 DEF MsgInv

\* One thread moves, to a place where it starts no run and handles nothing.
LEMMA MsgThread ==
  ASSUME RunInv, MsgInv, NEW k \in TaskThreads, TaskThreadStep(k),
         UNCHANGED <<queueVars, inHand, historyVars, numCalls>>
  PROVE  MsgInv'
<1>0. /\ UNCHANGED <<queue, call, inHand, handled, tooLate, numCalls>>
      /\ thread \in [TaskThreads -> ThreadPlaces]
  BY DEF queueVars, historyVars, RunInv, TaskType
<1>1. CASE ackShutdown(k)
  <2>1. /\ thread' = [thread EXCEPT ![k] = "unregister"] /\ thread[k] = "returned"
    BY <1>1 DEF ackShutdown, GoThread
  <2>2. \A j \in TaskThreads : thread'[j] = IF j = k THEN "unregister" ELSE thread[j]
    BY <1>0, <2>1
  <2>3. \A j \in TaskThreads \ {k} : thread[j] \notin Running
    BY <2>1 DEF RunInv, OneRun, Running
  <2>4. \A j \in TaskThreads : /\ thread'[j] \notin Running
                               /\ thread'[j] \in Early => thread[j] \in Early
    BY <2>2, <2>3 DEF Running, Early
  <2>5. \A j \in TaskThreads : thread'[j] \notin Holding /\ thread'[j] # "handle"
    BY <2>4 DEF Running, Holding
  <2> QED
    BY <1>0, <2>4, <2>5, TaskMoves
<1>2. CASE ~ackShutdown(k)
  <2>1. PICK place : /\ thread' = [thread EXCEPT ![k] = place] /\ UNCHANGED mState
                     /\ place \notin Holding
                     /\ place \in Early => thread[k] \in Early
                     /\ place \in Running => thread[k] \in Running
    BY <1>2 DEF TaskThreadStep, ThreadStarts, EnterRun, taskUnregister, LeaveThread, GoThread,
       Early, Running, Holding
  <2>2. \A j \in TaskThreads : thread'[j] = IF j = k THEN place ELSE thread[j]
    BY <1>0, <2>1
  <2>3. place # "handle"
    BY <2>1 DEF Holding
  <2>4. \A j \in TaskThreads :
           /\ thread'[j] \in Holding => thread[j] \in Holding
           /\ thread'[j] \in Early => thread[j] \in Early
           /\ thread'[j] \in Running => thread[j] \in Running
           /\ thread'[j] = "handle" => thread[j] = "handle"
    BY <2>1, <2>2, <2>3
  <2> QED
    BY <1>0, <2>1, <2>4, TaskMoves
<1> QED
  BY <1>1, <1>2

LEMMA MsgTask ==
  ASSUME RunInv, MsgInv, NEW k \in TaskThreads, TaskStep(k)
  PROVE  MsgInv'
<1>1. CASE receiveMessage(k)
  <2>1. /\ call' = [call EXCEPT ![k] = Q!Receiving]
        /\ UNCHANGED <<mState, thread, queue, inHand, handled, tooLate, numCalls>>
    BY <1>1 DEF receiveMessage, Q!Begin, taskVars, historyVars
  <2> QED
    BY <2>1, CallIsNoSend
<1>2. CASE MsgReceived(k)
  BY <1>2, TakeIsFresh
<1>3. CASE isShuttingDown(k)
  <2>1. /\ UNCHANGED <<mState, queue, call, inHand, handled, tooLate, numCalls>>
        /\ thread[k] = "check"
        /\ thread' = [thread EXCEPT ![k] =
                        IF mState = "SHUTTING_DOWN" THEN "returned" ELSE "handle"]
    BY <1>3 DEF isShuttingDown, Look, GoThread, queueVars, historyVars
  <2>2. \A j \in TaskThreads : thread'[j] =
          IF j = k THEN IF mState = "SHUTTING_DOWN" THEN "returned" ELSE "handle" ELSE thread[j]
    BY <2>1 DEF RunInv, TaskType
  <2>3. \A j \in TaskThreads :
           /\ thread'[j] \in Holding => thread[j] \in Holding
           /\ thread'[j] \in Early => thread[j] \in Early
           /\ thread'[j] \in Running => thread[j] \in Running
           /\ thread'[j] = "handle" =>
                \/ thread[j] = "handle"
                \/ thread[j] \in Running /\ mState # "SHUTTING_DOWN"
    BY <2>1, <2>2 DEF Holding, Early, Running
  <2> QED
    BY <2>1, <2>3, TaskMoves
<1>4. CASE handleMessage(k)
  BY <1>4, HandlesInTime
<1>5. CASE TaskThreadStep(k) /\ UNCHANGED <<queueVars, inHand, historyVars, numCalls>>
  BY <1>5, MsgThread
<1> QED
  BY <1>1, <1>2, <1>3, <1>4, <1>5 DEF TaskStep

LEMMA MsgClient ==
  ASSUME RunInv, MsgInv, NEW c \in Clients, ClientStep(c)
  PROVE  MsgInv'
<1> USE ServerTaskAssumption
<1>0. c \in Callers /\ numCalls \in 0..MaxCalls /\ MaxCalls \in Nat
  BY DEF Callers, MsgInv, MsgType
<1>1. CASE postMessage(c)
  <2>1. /\ numCalls' = numCalls + 1 /\ numCalls' \in 0..MaxCalls
        /\ Q!Begin(c, Q!Sending(Msg(c, numCalls', "work")))
        /\ UNCHANGED <<mState, thread, inHand, handled, tooLate>>
    BY <1>0, <1>1 DEF postMessage, Calls, taskVars, historyVars
  <2>2. "work" \in MsgTypes /\ numCalls' > numCalls /\ numCalls' >= numCalls /\ numCalls' <= numCalls'
    BY <1>0, <2>1 DEF MsgTypes
  <2> QED
    BY <1>0, <2>1, <2>2, SendBegins
<1>2. CASE requestShutdown(c)
  <2>1. /\ numCalls' = numCalls + 1 /\ numCalls' \in 0..MaxCalls
        /\ Q!Begin(c, Q!Sending(Msg(c, numCalls', "OS_SHUTDOWN")))
        /\ UNCHANGED <<thread, inHand, handled, tooLate>>
        /\ mState' = ShutdownRequested
    BY <1>0, <1>2 DEF requestShutdown, AskToShutDown, Calls, historyVars
  <2>2. /\ "OS_SHUTDOWN" \in MsgTypes /\ numCalls' >= numCalls /\ numCalls' <= numCalls'
        /\ mState = "SHUTTING_DOWN" => mState' = "SHUTTING_DOWN"
    BY <1>0, <2>1, RequestChanges DEF MsgTypes
  <2> QED
    BY <1>0, <2>1, <2>2, SendBegins
<1>3. CASE ClientPuts(c)
  BY <1>0, <1>3, PutIsFresh DEF ClientPuts
<1>4. CASE PostTimesOut(c)
  <2>1. /\ call' = [call EXCEPT ![c] = Q!None]
        /\ UNCHANGED <<mState, thread, queue, inHand, handled, tooLate, numCalls>>
    BY <1>4 DEF PostTimesOut, Q!SendGivesUp, Q!Return, taskVars, historyVars
  <2> QED
    BY <1>0, <2>1, CallIsNoSend
<1> QED
  BY <1>1, <1>2, <1>3, <1>4 DEF ClientStep

LEMMA MsgOwnerStarts == ASSUME RunInv, MsgInv, OwnerStarts PROVE MsgInv'
<1>0. /\ UNCHANGED <<queue, call, inHand, handled, tooLate, numCalls>>
      /\ thread \in [TaskThreads -> ThreadPlaces]
  BY DEF OwnerStarts, queueVars, historyVars, RunInv, TaskType
<1>1. CASE start
  <2>1. PICK k \in TaskThreads : /\ \A j \in TaskThreads : thread[j] = "none" <=> j >= k
                                 /\ GoThread(k, "born")
    BY <1>1 DEF start
  <2>2. thread[k] = "none" /\ UNCHANGED mState
    BY <1>1, <2>1 DEF TaskThreads, start
  <2>3. \A j \in TaskThreads : thread'[j] = IF j = k THEN "born" ELSE thread[j]
    BY <1>0, <2>1 DEF GoThread
  <2>4. \A j \in TaskThreads :
           /\ thread'[j] \in Holding => thread[j] \in Holding
           /\ thread'[j] \in Early => thread[j] \in Early
           /\ thread'[j] \in Running => thread[j] \in Running
           /\ thread'[j] = "handle" => thread[j] = "handle"
    BY <2>2, <2>3 DEF Holding, Early, Running
  <2> QED
    BY <1>0, <2>2, <2>4, TaskMoves
<1>2. CASE StartTimesOut
  BY <1>0, <1>2, TaskMoves DEF StartTimesOut
<1> QED
  BY <1>1, <1>2 DEF OwnerStarts

LEMMA MsgOwner == ASSUME RunInv, MsgInv, delete \/ OwnerStep PROVE MsgInv'
<1> USE ServerTaskAssumption
<1>0. /\ Owner \in Callers /\ numCalls \in 0..MaxCalls /\ MaxCalls \in Nat
      /\ thread \in [TaskThreads -> ThreadPlaces]
  BY DEF Callers, MsgInv, MsgType, RunInv, TaskType
<1>1. CASE delete
  <2>1. CASE mState \in {"STARTED", "UNINITIALIZED"}
    <3>1. /\ Q!Begin(Owner, Q!Sending(Msg(Owner, 0, "OS_SHUTDOWN")))
          /\ UNCHANGED <<thread, inHand, handled, tooLate, numCalls>>
      BY <1>1, <2>1 DEF delete, AskToShutDown, historyVars
    <3>2. /\ "OS_SHUTDOWN" \in MsgTypes /\ 0 \in 0..MaxCalls
          /\ numCalls' \in 0..MaxCalls /\ numCalls' >= numCalls /\ 0 <= numCalls'
      BY <1>0, <3>1 DEF MsgTypes
    <3> QED
      BY <1>0, <2>1, <3>1, <3>2, SendBegins
  <2>2. CASE mState \notin {"STARTED", "UNINITIALIZED"}
    <3>1. UNCHANGED <<mState, thread, queue, call, inHand, handled, tooLate, numCalls>>
      BY <1>1, <2>2 DEF delete, queueVars, historyVars
    <3> QED
      BY <3>1, TaskMoves
  <2> QED
    BY <2>1, <2>2
<1>2. CASE OwnerPuts
  BY <1>0, <1>2, PutIsFresh DEF OwnerPuts
<1>3. CASE flush /\ UNCHANGED <<inHand, historyVars, numCalls>>
  <2>1. queue' = <<>> /\ UNCHANGED <<mState, thread, call, inHand, handled, tooLate, numCalls>>
    BY <1>3 DEF flush, historyVars
  <2> QED
    BY <2>1, TaskMoves
<1>4. CASE (waitUntilShutDown \/ TaskOwnerStep)
             /\ UNCHANGED <<queueVars, inHand, historyVars, numCalls>>
  <2>0. UNCHANGED <<queue, call, inHand, handled, tooLate, numCalls>>
    BY <1>4 DEF queueVars, historyVars
  <2>1. CASE StartSucceeds
    <3>1. PICK k \in TaskThreads : thread[k] = "awaitInit" /\ GoThread(k, "go")
      BY <2>1 DEF StartSucceeds
    <3>2. owner = "creating"
      BY <2>1 DEF StartSucceeds, GoOwner
    <3>3. \A j \in TaskThreads : thread[j] \notin Running
      BY <3>2 DEF RunInv, OneRun
    <3>4. \A j \in TaskThreads : thread'[j] = IF j = k THEN "go" ELSE thread[j]
      BY <1>0, <3>1 DEF GoThread
    <3>5. \A j \in TaskThreads :
           /\ thread'[j] \notin Holding /\ thread'[j] # "handle"
           /\ thread'[j] \in Early => thread[j] \in Early
           /\ thread'[j] \in Running => thread[j] \in Early
      BY <3>1, <3>3, <3>4 DEF Holding, Early, Running
    <3> QED
      BY <2>0, <3>5, TaskMoves
  <2>2. CASE acquireWrite \/ TerminateTask \/ TerminateUnregisters \/ waitUntilShutDown
    BY <2>0, <2>2, TaskMoves
    DEF acquireWrite, TerminateTask, TerminateUnregisters, waitUntilShutDown
  <2>3. CASE FreeTask
    <3>1. UNCHANGED thread /\ owner = "uninitialize"
      BY <2>3 DEF FreeTask, GoOwner
    <3>2. \A j \in TaskThreads : thread[j] \notin Running
      BY <3>1 DEF RunInv, OneRun, Destroying, OwnerPlaces
    <3> QED
      BY <2>0, <3>1, <3>2, TaskMoves
  <2> QED
    BY <1>4, <2>1, <2>2, <2>3 DEF TaskOwnerStep
<1> QED
  BY <1>1, <1>2, <1>3, <1>4 DEF OwnerStep

LEMMA MsgNext == RunInv /\ MsgInv /\ [Next]_vars => MsgInv'
<1>1. ASSUME MsgInv, UNCHANGED vars PROVE MsgInv'
  BY <1>1, TaskMoves DEF vars, taskVars, queueVars, historyVars
<1> QED
  BY <1>1, MsgTask, MsgOwnerStarts, MsgClient, MsgOwner DEF Next

\* Both invariants hold in every state.
THEOREM Inductive == Spec => [](RunInv /\ MsgInv)
BY RunInit, RunNext, MsgInit, MsgNext, PTL DEF Spec

\* The types, for every value of the constants.
THEOREM TypeCorrect == Spec => []TypeOK
<1>1. RunInv /\ MsgInv => TypeOK
  <2> SUFFICES ASSUME RunInv, MsgInv PROVE TypeOK
    OBVIOUS
  <2>1. Sent \subseteq Messages
    BY DEF Sent
  <2>2. queue \in Seq(Messages)
    BY <2>1 DEF MsgInv, MsgType
  <2>3. /\ inHand \in [TaskThreads -> Messages \cup {NoMsg}]
        /\ handled \subseteq Messages \X TaskThreads /\ tooLate \subseteq Messages \X TaskThreads
    BY <2>1 DEF MsgInv, MsgType
  <2> QED
    BY <2>2, <2>3 DEF RunInv, TaskType, MsgInv, MsgType, TypeOK, Reading
<1> QED
  BY <1>1, Inductive, PTL

\* requestShutdown() changes mState before it posts and run() looks at mState
\* after it received: what is posted from then on is not handled in this life
\* of the task, however many clients post.
THEOREM LateIsDropped == Spec => []LateMessageNotHandled
<1>1. MsgInv => LateMessageNotHandled
  BY DEF MsgInv, MsgType, Late, LateMessageNotHandled
<1> QED
  BY <1>1, Inductive, PTL

=============================================================================
