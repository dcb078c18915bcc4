------------------------------- MODULE OsTimer -------------------------------
(***************************************************************************)
(* OsTimer and OsTimerTask of sipXportLib (src/os/OsTimer.cpp,             *)
(* src/os/OsTimerTask.cpp).                                                *)
(*                                                                         *)
(* A timer is shared by application threads and the timer task.  The       *)
(* threads advance mApplicationState (odd: started) under the timer's      *)
(* mBSem and, when no message about the timer is outstanding, then post    *)
(* one; the task catches up, moving mTaskState to the mApplicationState it *)
(* read and the timer in or out of the queue of running timers, sorted by  *)
(* expiry.  What a thread does under mBSem is one step; posting is another *)
(* one; the task reads a timer under mBSem in one step and acts on what it *)
(* read in the next.  mBSem is held across the event routine, so Locked(t) *)
(* is the only time at which a thread has to wait for it.                  *)
(*                                                                         *)
(* Definitions whose name ends in _x are not the code: each is a plausible *)
(* mistake in the definition that follows it, kept to show that the        *)
(* properties would notice it.                                             *)
(***************************************************************************)
EXTENDS Integers, Sequences, FiniteSets, SequencesExt

CONSTANTS
  Timers,
  Threads,                  \* the application threads
  TIMER_MAX_REQUEST_MSGS,   \* capacity of the task's message queue
  Period,                   \* mPeriod of the periodic timers
  MaxClock,                 \* bound: the clock stops there
  MaxState,                 \* bound: no start beyond this mApplicationState
  Deleters,                 \* how a timer is deleted, a subset of DeleterKinds
  RoutineUsesTimer,         \* the timers whose event routine calls a method of
                            \* the timer that seizes mBSem
  NoTimer

DeleterKinds == {"deleteAsync", "destructorWhileStarted", "destructorWhileStopped"}

ASSUME TimerAssumption ==
  /\ IsFiniteSet(Threads)
  /\ TIMER_MAX_REQUEST_MSGS \in Nat \ {0}
  /\ Period \in Nat \ {0}    \* with 0, run() would fire the timer for ever
  /\ MaxClock \in Nat
  /\ MaxState \in Nat
  /\ Deleters \subseteq DeleterKinds
  /\ RoutineUsesTimer \subseteq Timers
  /\ NoTimer \notin Timers

VARIABLES
  \* the members of each OsTimer
  life,                  \* "freed", "live", "deleting"
  mApplicationState, mTaskState, mOutstandingMessages, mWasFired,
  mExpiresAt, mPeriodic,                \* as the application set them
  mQueuedExpiresAt, mQueuedPeriodic,    \* the timer task's copies
  \* the timer task
  mIncomingQ,            \* its message queue
  mTimerQueue,           \* the running timers, in the order they expire
  task,                  \* what it is doing
  now,                   \* its record of the time
  \* the application threads and the world
  call,                  \* the call each thread is in
  clock

timerVars == <<life, mApplicationState, mTaskState, mOutstandingMessages,
               mWasFired, mExpiresAt, mPeriodic, mQueuedExpiresAt,
               mQueuedPeriodic>>
taskVars == <<mIncomingQ, mTimerQueue, task, now>>
vars == <<timerVars, taskVars, call, clock>>

isStarted(s) == s % 2 = 1
isStopped(s) == s % 2 = 0

MessageTypes == {"UPDATE", "UPDATE_SYNC", "UPDATE_DELETE"}
NoCall == [step |-> "none"]
Loop   == [step |-> "loop"]

Locked(t) == task.step = "signal" /\ task.timer = t

Init ==
  /\ life = [t \in Timers |-> "freed"]
  /\ mApplicationState = [t \in Timers |-> 0]
  /\ mTaskState = [t \in Timers |-> 0]
  /\ mOutstandingMessages = [t \in Timers |-> 0]
  /\ mWasFired = [t \in Timers |-> FALSE]
  /\ mExpiresAt = [t \in Timers |-> 0]
  /\ mPeriodic = [t \in Timers |-> FALSE]
  /\ mQueuedExpiresAt = [t \in Timers |-> 0]
  /\ mQueuedPeriodic = [t \in Timers |-> FALSE]
  /\ mIncomingQ = <<>>
  /\ mTimerQueue = <<>>
  /\ task = Loop
  /\ now = 0
  /\ call = [a \in Threads |-> NoCall]
  /\ clock = 0

-----------------------------------------------------------------------------
(* The application threads.                                                *)

\* The constructors. The times have no value yet; they are read only after a
\* start has set them.
Construct(t) ==
  /\ life[t] = "freed"
  /\ life' = [life EXCEPT ![t] = "live"]
  /\ mApplicationState' = [mApplicationState EXCEPT ![t] = 0]
  /\ mTaskState' = [mTaskState EXCEPT ![t] = 0]
  /\ mOutstandingMessages' = [mOutstandingMessages EXCEPT ![t] = 0]
  /\ mWasFired' = [mWasFired EXCEPT ![t] = FALSE]
  /\ mExpiresAt' = [mExpiresAt EXCEPT ![t] = 0]
  /\ mPeriodic' = [mPeriodic EXCEPT ![t] = FALSE]
  /\ mQueuedExpiresAt' = [mQueuedExpiresAt EXCEPT ![t] = 0]
  /\ mQueuedPeriodic' = [mQueuedPeriodic EXCEPT ![t] = FALSE]
  /\ UNCHANGED <<taskVars, call, clock>>

Advance(t) == mApplicationState' = [mApplicationState EXCEPT ![t] = @ + 1]

WillPost_x(a, t, type, deletes) ==
  /\ UNCHANGED mOutstandingMessages
  /\ call' = [call EXCEPT ![a] = [step |-> "post", timer |-> t, type |-> type,
                                  deletes |-> deletes]]

\* The thread will post this message once it has left the critical section.
WillPost(a, t, type, deletes) ==
  /\ mOutstandingMessages' = [mOutstandingMessages EXCEPT ![t] = @ + 1]
  /\ call' = [call EXCEPT ![a] = [step |-> "post", timer |-> t, type |-> type,
                                  deletes |-> deletes]]

WillUpdate_x(a, t, type) ==
  IF mTaskState[t] = mApplicationState[t]
  THEN WillPost(a, t, type, FALSE)
  ELSE UNCHANGED <<mOutstandingMessages, call>>

\* start and stop send a message only when none is outstanding: the one that is
\* will find the new state.
WillUpdate(a, t, type) ==
  IF mOutstandingMessages[t] = 0
  THEN WillPost(a, t, type, FALSE)
  ELSE UNCHANGED <<mOutstandingMessages, call>>

\* A thread may call a method of the timer, and gets mBSem.
Enter(a, t) == call[a] = NoCall /\ life[t] = "live" /\ ~Locked(t)

\* startTimer(), for a time that may be past; OS_FAILED, and no change, for a timer
\* that is started.
StartTimer(a, t) ==
  /\ Enter(a, t)
  /\ isStopped(mApplicationState[t])
  /\ mApplicationState[t] < MaxState
  /\ Advance(t)
  /\ mWasFired' = [mWasFired EXCEPT ![t] = FALSE]
  /\ \E start \in 0..MaxClock, periodic \in BOOLEAN :
       /\ mExpiresAt' = [mExpiresAt EXCEPT ![t] = start]
       /\ mPeriodic' = [mPeriodic EXCEPT ![t] = periodic]
  /\ WillUpdate(a, t, "UPDATE")
  /\ UNCHANGED <<life, mTaskState, mQueuedExpiresAt, mQueuedPeriodic,
                 taskVars, clock>>

\* stop(); OS_FAILED, and no change, for a timer that is stopped.
StopTimer(a, t) ==
  /\ Enter(a, t)
  /\ isStarted(mApplicationState[t])
  /\ Advance(t)
  /\ mWasFired' = [mWasFired EXCEPT ![t] = FALSE]
  /\ \E synchronous \in BOOLEAN :
       WillUpdate(a, t, IF synchronous THEN "UPDATE_SYNC" ELSE "UPDATE")
  /\ UNCHANGED <<life, mTaskState, mExpiresAt, mPeriodic, mQueuedExpiresAt,
                 mQueuedPeriodic, taskVars, clock>>

StopIfStarted(t) ==
  IF isStarted(mApplicationState[t]) THEN Advance(t)
                                     ELSE UNCHANGED mApplicationState

\* "no other method may be called concurrently with the destructor"
EnterAlone(a, t) ==
  /\ Enter(a, t)
  /\ \A b \in Threads : call[b] # NoCall => call[b].timer # t

NeedsTask_x(t) == mOutstandingMessages[t] > 0
NeedsTask(t) == isStarted(mApplicationState[t]) \/ mOutstandingMessages[t] > 0

\* ~OsTimer(): it needs the task only when the timer is started or a message
\* about it is outstanding; otherwise the memory goes at once.
Destroy(a, t) ==
  /\ EnterAlone(a, t)
  /\ Deleters \cap (IF isStarted(mApplicationState[t])
                    THEN {"destructorWhileStarted"}
                    ELSE {"destructorWhileStopped"}) # {}
  /\ StopIfStarted(t)
  /\ IF NeedsTask(t)
     THEN /\ life' = [life EXCEPT ![t] = "deleting"]
          /\ WillPost(a, t, "UPDATE_SYNC", TRUE)
     ELSE /\ life' = [life EXCEPT ![t] = "freed"]
          /\ UNCHANGED <<mOutstandingMessages, call>>
  /\ UNCHANGED <<mTaskState, mWasFired, mExpiresAt, mPeriodic,
                 mQueuedExpiresAt, mQueuedPeriodic, taskVars, clock>>

DeleteAsync(a, t) ==
  /\ EnterAlone(a, t)
  /\ "deleteAsync" \in Deleters
  /\ StopIfStarted(t)
  /\ life' = [life EXCEPT ![t] = "deleting"]
  /\ WillPost(a, t, "UPDATE_DELETE", FALSE)
  /\ UNCHANGED <<mTaskState, mWasFired, mExpiresAt, mPeriodic,
                 mQueuedExpiresAt, mQueuedPeriodic, taskVars, clock>>

\* postMessage() waits for room; only a synchronous call then waits for the task.
PostMessage(a) ==
  /\ call[a].step = "post"
  /\ Len(mIncomingQ) < TIMER_MAX_REQUEST_MSGS
  /\ mIncomingQ' = Append(mIncomingQ, [type |-> call[a].type,
                                       timer |-> call[a].timer, event |-> a])
  /\ call' = [call EXCEPT ![a] = IF @.type = "UPDATE_SYNC"
                                 THEN [@ EXCEPT !.step = "wait"]
                                 ELSE NoCall]
  /\ UNCHANGED <<timerVars, mTimerQueue, task, now, clock>>

\* event.wait() returned.
Awake(a) ==
  /\ call[a].step = "signalled"
  /\ life' = IF call[a].deletes
             THEN [life EXCEPT ![call[a].timer] = "freed"]
             ELSE life
  /\ call' = [call EXCEPT ![a] = NoCall]
  /\ UNCHANGED <<mApplicationState, mTaskState, mOutstandingMessages, mWasFired,
                 mExpiresAt, mPeriodic, mQueuedExpiresAt, mQueuedPeriodic,
                 taskVars, clock>>

Tick ==
  /\ clock < MaxClock
  /\ clock' = clock + 1
  /\ UNCHANGED <<timerVars, taskVars, call>>

-----------------------------------------------------------------------------
(* The timer task.                                                         *)

InsertTimer_x(queue, t, expiresAt) == <<t>> \o queue

\* insertTimer(): before the first timer that does not expire earlier.
InsertTimer(queue, t, expiresAt) ==
  LET place == SelectInSeq(queue, LAMBDA u : expiresAt <= mQueuedExpiresAt[u])
  IN IF place = 0 THEN Append(queue, t) ELSE InsertAt(queue, place, t)

\* removeTimer()
RemoveTimer(queue, t) == RemoveFirst(queue, t)

Due(time) == mTimerQueue # <<>> /\ mQueuedExpiresAt[Head(mTimerQueue)] <= time

\* receiveMessage(), and handleMessage() up to the end of its critical section.
ReceiveMessage ==
  /\ task = Loop
  /\ ~Due(now)
  /\ mIncomingQ # <<>>
  /\ LET m == Head(mIncomingQ)
     IN /\ mOutstandingMessages' =
             [mOutstandingMessages EXCEPT ![m.timer] = @ - 1]
        /\ task' = [step |-> "apply", msg |-> m,
                    applicationState |-> mApplicationState[m.timer],
                    expiresAt |-> mExpiresAt[m.timer],
                    periodic |-> mPeriodic[m.timer]]
  /\ mIncomingQ' = Tail(mIncomingQ)
  /\ UNCHANGED <<life, mApplicationState, mTaskState, mWasFired, mExpiresAt,
                 mPeriodic, mQueuedExpiresAt, mQueuedPeriodic, mTimerQueue,
                 now, call, clock>>

AnswerEvent_x(msg) == UNCHANGED call

\* An UPDATE_SYNC message carries the event its sender waits for.
AnswerEvent(msg) ==
  call' = IF msg.type = "UPDATE_SYNC"
          THEN [call EXCEPT ![msg.event].step = "signalled"] ELSE call

\* The rest of handleMessage(), and the new record of the time.
ApplyUpdate ==
  /\ task.step = "apply"
  /\ LET t == task.msg.timer
         changed == task.applicationState # mTaskState[t]
         removed == IF changed /\ isStarted(mTaskState[t])
                    THEN RemoveTimer(mTimerQueue, t) ELSE mTimerQueue
     IN /\ IF changed /\ isStarted(task.applicationState)
           THEN /\ mQueuedExpiresAt' =
                     [mQueuedExpiresAt EXCEPT ![t] = task.expiresAt]
                /\ mQueuedPeriodic' =
                     [mQueuedPeriodic EXCEPT ![t] = task.periodic]
                /\ mTimerQueue' = InsertTimer(removed, t, task.expiresAt)
           ELSE /\ mTimerQueue' = removed
                /\ UNCHANGED <<mQueuedExpiresAt, mQueuedPeriodic>>
        /\ mTaskState' = [mTaskState EXCEPT ![t] = task.applicationState]
        /\ AnswerEvent(task.msg)
        /\ life' = IF task.msg.type = "UPDATE_DELETE"
                   THEN [life EXCEPT ![t] = "freed"] ELSE life
  /\ task' = Loop
  /\ now' = clock
  /\ UNCHANGED <<mApplicationState, mOutstandingMessages, mWasFired, mExpiresAt,
                 mPeriodic, mIncomingQ, clock>>

\* receiveMessage() timed out: the first timer of the queue has expired.
ReceiveTimeout ==
  /\ task = Loop
  /\ ~Due(now)
  /\ mIncomingQ = <<>>
  /\ Due(clock)
  /\ now' = clock
  /\ UNCHANGED <<timerVars, mIncomingQ, mTimerQueue, task, call, clock>>

\* A firing is reported unless the application has changed the state since the
\* task last caught up.
Report_x(t) == TRUE
Report(t) == mTaskState[t] = mApplicationState[t]

FireStopped_x(t) ==
  /\ ~Report(t)
  /\ mTimerQueue' = Tail(mTimerQueue)
  /\ UNCHANGED <<mTaskState, mApplicationState, mQueuedExpiresAt, task>>

\* fireTimer(), up to the signal, for a timer the application has stopped: it
\* stops for the task too.
FireStopped(t) ==
  /\ ~Report(t)
  /\ mTaskState' = [mTaskState EXCEPT ![t] = @ + 1]
  /\ mTimerQueue' = Tail(mTimerQueue)
  /\ UNCHANGED <<mApplicationState, mQueuedExpiresAt, task>>

\* ... for a one-shot timer: it stops for both.
FireOneShot(t) ==
  /\ Report(t) /\ ~mQueuedPeriodic[t]
  /\ mTaskState' = [mTaskState EXCEPT ![t] = @ + 1]
  /\ mApplicationState' = [mApplicationState EXCEPT ![t] = mTaskState[t] + 1]
  /\ mTimerQueue' = Tail(mTimerQueue)
  /\ task' = [step |-> "signal", timer |-> t]
  /\ UNCHANGED mQueuedExpiresAt

\* ... for a periodic timer: it goes back into the queue.
FirePeriodic(t) ==
  /\ Report(t) /\ mQueuedPeriodic[t]
  /\ LET next == mQueuedExpiresAt[t] + Period
     IN /\ mQueuedExpiresAt' = [mQueuedExpiresAt EXCEPT ![t] = next]
        /\ mTimerQueue' = InsertTimer(Tail(mTimerQueue), t, next)
  /\ task' = [step |-> "signal", timer |-> t]
  /\ UNCHANGED <<mTaskState, mApplicationState>>

\* One turn of run()'s loop over the expired timers.
FireTimer ==
  /\ task = Loop
  /\ Due(now)
  /\ LET t == Head(mTimerQueue)
     IN FireStopped(t) \/ FireOneShot(t) \/ FirePeriodic(t)
  /\ UNCHANGED <<life, mOutstandingMessages, mWasFired, mExpiresAt, mPeriodic,
                 mQueuedPeriodic, mIncomingQ, now, call, clock>>

\* mpNotifier->signal() returned (it gives up after mSignalTimeout), and
\* fireTimer() leaves its critical section. An event routine that needs mBSem
\* waits for it first, and fireTimer() still holds it.
SignalReturns ==
  /\ task.step = "signal"
  /\ task.timer \in RoutineUsesTimer => ~Locked(task.timer)
  /\ mWasFired' = [mWasFired EXCEPT ![task.timer] = TRUE]
  /\ task' = Loop
  /\ UNCHANGED <<life, mApplicationState, mTaskState, mOutstandingMessages,
                 mExpiresAt, mPeriodic, mQueuedExpiresAt, mQueuedPeriodic,
                 mIncomingQ, mTimerQueue, now, call, clock>>

-----------------------------------------------------------------------------
Application ==
  \/ \E t \in Timers : Construct(t)
  \/ \E a \in Threads, t \in Timers :
       StartTimer(a, t) \/ StopTimer(a, t) \/ Destroy(a, t) \/ DeleteAsync(a, t)
  \/ \E a \in Threads : PostMessage(a) \/ Awake(a)

TimerTask ==
  \/ ReceiveMessage
  \/ ApplyUpdate
  \/ ReceiveTimeout
  \/ FireTimer
  \/ SignalReturns

Next == Application \/ TimerTask \/ Tick

Spec == Init /\ [][Next]_vars

\* The timer task keeps running (a high priority thread), time passes, and a
\* thread that is inside a call goes on; nobody is obliged to make a call.
Fairness ==
  /\ WF_vars(TimerTask)
  /\ WF_vars(Tick)
  /\ \A a \in Threads : WF_vars(PostMessage(a)) /\ WF_vars(Awake(a))

FairSpec == Spec /\ Fairness

-----------------------------------------------------------------------------
(* Properties.                                                             *)

Kinds == {"freed", "live", "deleting"}
Messages == [type : MessageTypes, timer : Timers, event : Threads]
Calls == [step : {"post", "wait", "signalled"}, timer : Timers,
          type : MessageTypes, deletes : BOOLEAN] \cup {NoCall}
TaskSteps == {Loop}
  \cup [step : {"apply"}, msg : Messages, applicationState : Nat,
        expiresAt : Nat, periodic : BOOLEAN]
  \cup [step : {"signal"}, timer : Timers]

\* The state counters and the count of messages are never negative, and the
\* task always knows what it is doing.
TypeOK ==
  /\ life \in [Timers -> Kinds]
  /\ mApplicationState \in [Timers -> Nat]
  /\ mTaskState \in [Timers -> Nat]
  /\ mOutstandingMessages \in [Timers -> Nat]
  /\ mWasFired \in [Timers -> BOOLEAN]
  /\ mExpiresAt \in [Timers -> Nat] /\ mPeriodic \in [Timers -> BOOLEAN]
  /\ mQueuedExpiresAt \in [Timers -> Nat]
  /\ mQueuedPeriodic \in [Timers -> BOOLEAN]
  /\ mIncomingQ \in Seq(Messages)
  /\ mTimerQueue \in Seq(Timers)
  /\ task \in TaskSteps
  /\ now \in Nat /\ clock \in Nat
  /\ call \in [Threads -> Calls]

Queued == ToSet(mTimerQueue)

\* removeTimer()'s assert(current) and insertTimer()'s assert that the timer is
\* not linked: the task's parity tells exactly which timers are in the queue,
\* each of them once, however starts, stops and firings interleave.
QueueMatchesTaskState ==
  /\ \A t \in Timers : t \in Queued <=> isStarted(mTaskState[t])
  /\ IsInjective(mTimerQueue)

\* run() looks only at the head: nothing behind it expires earlier.
QueueSorted ==
  \A i, j \in DOMAIN mTimerQueue :
    i < j => mQueuedExpiresAt[mTimerQueue[i]] <= mQueuedExpiresAt[mTimerQueue[j]]

\* "mApplicationState is always >= mTaskState by design", which lets the code
\* compare the two with !=; also for the value the task is about to apply.
ApplicationStateLeads ==
  /\ \A t \in Timers : mApplicationState[t] >= mTaskState[t]
  /\ task.step = "apply" =>
       /\ task.applicationState >= mTaskState[task.msg.timer]
       /\ task.applicationState <= mApplicationState[task.msg.timer]

\* No start or stop is lost by sending no message of its own: while the task
\* has not caught up, and it is always the task that is behind, a message is
\* outstanding or in the task's hand.
NoLostUpdate ==
  /\ ApplicationStateLeads
  /\ \A t \in Timers :
       mApplicationState[t] # mTaskState[t] =>
         \/ mOutstandingMessages[t] > 0
         \/ /\ task.step = "apply" /\ task.msg.timer = t
            /\ task.applicationState = mApplicationState[t]

\* handleMessage()'s asserts on UPDATE_DELETE: it is the last message of a
\* stopped timer.
DeleteIsLast ==
  task.step = "apply" /\ task.msg.type = "UPDATE_DELETE" =>
    /\ life[task.msg.timer] = "deleting"
    /\ isStopped(mApplicationState[task.msg.timer])
    /\ mOutstandingMessages[task.msg.timer] = 0

\* Every timer somebody still refers to exists: the task's queue, its messages,
\* what it is handling or signalling, and the calls in progress.
NoDanglingTimer ==
  /\ DeleteIsLast
  /\ \A t \in Queued : life[t] # "freed"
  /\ \A i \in DOMAIN mIncomingQ : life[mIncomingQ[i].timer] # "freed"
  /\ task.step = "apply" => life[task.msg.timer] # "freed"
  /\ task.step = "signal" => life[task.timer] # "freed"
  /\ \A a \in Threads : call[a] # NoCall => life[call[a].timer] # "freed"

\* The abstract timer. While the task has not caught up with the application the
\* timer is due when the application said, afterwards when the queue says; one
\* that is being deleted is gone for the application.
Exists(t) == life[t] = "live"
abstractState ==
  [t \in Timers |->
     IF ~Exists(t) THEN "none"
     ELSE IF isStopped(mApplicationState[t]) THEN "stopped"
     ELSE IF mPeriodic[t] THEN "periodic" ELSE "oneshot"]
abstractDue ==
  [t \in Timers |->
     IF ~Exists(t) \/ isStopped(mApplicationState[t]) THEN 0
     ELSE IF mTaskState[t] = mApplicationState[t] THEN mQueuedExpiresAt[t]
     ELSE mExpiresAt[t]]
abstractRunning == IF task.step = "signal" THEN task.timer ELSE NoTimer

Service == INSTANCE TimerService
             WITH state <- abstractState, due <- abstractDue,
                  running <- abstractRunning

\* The timers implement TimerService: none fires early, twice for one start,
\* after a successful stop() or deletion, or while another event routine runs;
\* and no method takes effect while the timer's event routine executes.
ImplementsTimerService == Service!Spec

\* A started timer that comes due fires, unless it is stopped or deleted first.
StartedTimerFires ==
  \A t \in Timers : \A n \in 1..MaxState :
    (/\ mApplicationState[t] = n /\ isStarted(n) /\ life[t] = "live"
     /\ abstractDue[t] <= MaxClock)
      ~> (mApplicationState[t] # n \/ abstractRunning = t)

\* A synchronous stop and the destructor get their answer from the timer task.
WaiterIsAnswered ==
  \A a \in Threads : call[a].step = "post" ~> call[a] = NoCall

\* "Within an event routine, all non-blocking methods may be executed on the
\* timer": the event routine comes back to the timer task.
EventRoutineReturns ==
  \A t \in Timers : abstractRunning = t ~> abstractRunning # t
=============================================================================
