# sipXtapi in TLA+

A verification development for sipXtapi, a C++ SIP user agent library. The
repository is five libraries stacked on each other; this directory holds TLA+
modules for the parts whose correctness depends on the order in which threads,
messages and timers meet, TLC configurations that check them on small
instances, and TLAPS proofs of the properties that matter most.

## 1. Inventory

Paths are relative to `src/`. "State" is what the component remembers,
"correct" what makes it right.

### sipXportLib - operating system abstraction

| Component | State | Operations | Correct when |
|---|---|---|---|
| `OsTimer`, `OsTimerTask` | two state counters per timer, a count of outstanding messages, the task's message queue and its sorted queue of timers | start, stop, delete, deleteAsync, fire | a timer fires once per start, never early, never after a stop; nobody touches a freed timer; synchronous calls return |
| `OsRWMutexShared` | four counters, two ticket semaphores, an exclusive semaphore, a guard | acquire/tryAcquire/release for reading and writing | readers exclude writers, writers each other; no wake-up is lost; try does not block |
| `OsMsgQ` (`shared`), `OsServerTask`, `OsTask` | a bounded list with two counting semaphores; task state | send, sendUrgent, receive with timeouts; start, requestShutdown, waitUntilShutDown | no message lost, duplicated or reordered within its priority; capacity kept; shutdown ends |
| `OsEvent`, `OsProtectEvent`, `OsProtectEventMgr` | signalled/notified flags, pool of events in use | wait with timeout, signal, alloc, release | exactly one of waiter and signaller releases a timed-out event; no event in two hands |
| `OsMsgPool`, `OsQueuedEvent`, `OsCallback`, `OsNotification` | pool slots in use; one pending notification | findFreeMsg, signal | a slot is in use by one sender |
| semaphores and mutexes (`linux/pt_csem.c`, ...) | a count | wait, timed wait, post | external to most models: used as atomic operations |
| sockets, files, config database, processes, `utl` containers | - | - | sequential code or pure I/O; not modelled |

### sipXtackLib - SIP stack

| Component | State | Operations | Correct when |
|---|---|---|---|
| `SipTransaction`, `SipTransactionList` | transaction state, busy marker, waiting threads, timers, resend counts, parent and child transactions | handleOutgoing, handleIncoming, handleResendEvent, handleExpiresEvent, markBusy, waitUntilAvailable, removeOldTransactions | RFC 3261 state machine; one final response to the application; busy transactions are not deleted; waiters wake |
| `SipUserAgent` | transaction list, observers, servers, timers | send, dispatch, handleMessage | routes every message to its transaction and observers |
| `SipRefreshMgr`, `SipRefreshManager` | per-dialog refresh state, resend timers | initiateRefresh, handleSipMessage, stopRefresh | a subscription or registration is renewed before it expires; a late response is not applied to a stopped refresh |
| `SipSubscriptionMgr`, `SipSubscribeClient`, `SipSubscribeServer`, `SipPublishContentMgr` | subscriptions by dialog and resource, content per event type | subscribe, notify, publish, unpublish, remove | NOTIFY order, content not freed while sent, expired subscriptions go |
| `SipDialog`, `SipDialogMgr` | early/established/terminated, CSeqs, route sets | createDialog, updateDialog, isNextRemoteCseq, terminate | CSeqs increase, early dialogs become established once |
| `SipLineMgr`, `SipNonceDb` | lines, credentials, nonces with times | add/remove line, create and check nonces | nonce accepted only for its call, URI, realm and age |
| `SipTcpServer`, `SipUdpServer`, `SipClient`, `HttpServer` | connections, in-use flags | create, find, remove, send | a client in use is not deleted |
| message parsing (`SipMessage`, `HttpMessage`, `Url`) | - | - | data transformation; not modelled |

### sipXcallLib - call control

| Component | State | Operations | Correct when |
|---|---|---|---|
| `SipConnection`, `Connection` | connection state, offer/answer state, hold state, CSeqs | dial, answer, hold, transfer, processMessage | call state machine; one outstanding re-INVITE; terminal states stay |
| `CpPeerCall`, `CpCall`, `CpCallManager`, `CallManager` | calls, connections, queues | message handlers | calls are deleted once, not while in use |
| `CSeqManager` | CSeq per transaction | startTransaction, endTransaction | numbers increase, transactions match |
| `sipXtapi` (tapi) | handle tables, call data with locks | the C API | handles freed once; locks not inverted |
| `ptapi`, `tao` | legacy telephony API | - | not built by default; not modelled |

### sipXmediaLib, sipXmediaAdapterLib - media

| Component | State | Operations | Correct when |
|---|---|---|---|
| `MpMediaTask` | managed, started and focused flow graphs; signals per frame; limit exceptions | manage, unmanage, start, stop, set focus, wait for signals | every started graph runs once per frame; counts match |
| `MpFlowGraphBase`, `MpResource` | resources, links, message queue, state | add, remove, link, processNextFrame | execution order respects links |
| `MpBufPool` | free list and reference counts | allocate, release | a block is free or referenced, never both |
| `MpJitterBuffer`, `MprDejitter` | packet ring with sequence numbers | push, pull | packets leave in order, each once |
| `MpStreamPlayer`, `MpStreamQueuePlayer` | player state, queue | realize, prefetch, play, pause, stop | state machine |
| device managers, codecs, bridge mixing, DSP | - | - | numeric kernels and device I/O; not modelled |
| `contrib` | - | - | vendored; not modelled |

### sipXsdpLib

SDP parsing, codec negotiation and body manipulation: data transformation,
not modelled.

### How the components interact

Every active object of the stack (`SipUserAgent`, `CallManager`, `CpPeerCall`,
`SipPublishContentMgr`, the timer task, ...) is an `OsServerTask`: a thread
that takes messages from an `OsMsgQ` and handles them one at a time. Timers
talk to it in the same way: the timer task posts an `OsQueuedEvent` message
when a timer fires. Threads that receive from the network call
`SipUserAgent::dispatch()` directly, so the list of transactions is shared by
many threads; a thread that needs a transaction another one has waits for an
`OsEvent`. Observers are called back with locks held. Everything above rests
on these few objects, so they come first:

```
 SipSubscribeServer (subscriptions, publications, dialogs)   CallManager, ... (planned)
        |   four locks, one of them an OsRWMutex                   |
 SipExchange: SipTransaction (client)  +  server transaction       |
        |         <===  ServerHunt (what the client promises)      |
 SipTransactionList     OsServerTask ----- OsTask ----- OsRWMutexShared
        |                    |                (mDeleteGuard)
     OsEvent             OsMsgQShared  <===  MsgQueue (what it promises)
        |                    |
     OsTimer, OsTimerTask ---+          <===  TimerService (what it promises)
```

### What is hard here

* Two-step calls: a semaphore first, then a guard (`OsMsgQShared`,
  `OsRWMutexShared`); a read under a guard, then an action outside it
  (`OsTimerTask`, `SipTransactionList`, subscriptions).
* An object deleted while another thread is on its way out of it (`OsTimer`,
  `OsTask`, transactions, events with two owners).
* Wake-ups: given to nobody, given twice, or spent on a waiter that gave up.
* Timeouts that race with what they wait for.
* Callbacks made with a lock held.
* Messages that are lost, repeated or overtake each other, and timers that fire
  after what they were for has happened (`SipTransaction`).
* Content, state and sequence number of one message read under different
  locks (`SipSubscribeServer`).
* Counters at their limits and comparisons modulo 2^16 or 2^32.

`PROJECT.json` lists each of these with its line and the properties that
would notice it going wrong.

## 2. Modules

Each module's comments name the code its definitions stand for;
`PROJECT.json` ("map") has the lines. Members keep the names they have in the
code. A step is what one thread does under one lock, or one operation on a
semaphore: the other threads cannot see anything in between, because whatever
they could see is behind the same lock. Definitions that end in `_x` are not
the code: each is a plausible mistake in the definition after it, and the
property it belongs to fails when it takes that definition's place.

### OsRWMutexShared (with `OsRWMutexShared_proofs`, `MC_OsRWMutexShared`)

The reader/writer lock of `sipXportLib/src/os/shared/OsRWMutexShared.cpp`.
State: the four counters, the tickets in `mReadSem` and `mWriteSem`,
`mWriteExclSem`, `mGuard`, and where each task is. `BeginRead`, `BeginWrite`,
`TryBeginRead` and `TryBeginWrite` are the guarded parts of the four acquire
functions, `TakeReadTicket`, `TakeWriteTicket`, `TryTakeWriteTicket`,
`TakeExcl` and `TryTakeExcl` the semaphores they acquire afterwards,
`ReleaseRead`, `ReleaseExcl` and `ReleaseWriteTicket` the releases. The
conditional writer takes its ticket with `mGuard` held, which is why `mGuard`
is a variable; everywhere else the guarded part is one step.

`OsRWMutex.h` makes this class the `OsRWMutex` of Windows, VxWorks and Android;
on other POSIX systems `OsRWMutex` is a `pthread_rwlock_t` (`OsRWMutexLinux`,
external).

### OsTimer, refining TimerService (with `OsTimer_proofs`, `MC_OsTimer`)

`OsTimer.cpp` and `OsTimerTask.cpp`. State: the members of each timer
(`mApplicationState`, `mTaskState`, `mOutstandingMessages`, expiry times and
their copies in the task), the message queue and the sorted queue of the task,
what the task is doing, and the call each application thread is in.
`Construct`, `StartTimer`, `StopTimer`, `Destroy` and `DeleteAsync` are the
parts of the methods under `mBSem`, `PostMessage` and `Awake` what follows
them. `ReceiveMessage` is the part of `handleMessage()` under `mBSem`,
`ApplyUpdate` the part after it, `ReceiveTimeout` and `FireTimer` the rest of
`run()`, `SignalReturns` the return of the event routine. `Tick` is the clock.

`TimerService` states what `OsTimer.h` promises, without the task: a timer
that is started fires when it is due, never earlier, once per start if it is
one-shot, never after a successful stop or delete, one timer at a time.
`ImplementsTimerService` is the refinement: the timer's state for the
application is read off `mApplicationState`, its due time off the application's
or the task's copy, whichever is current.

Not modelled: the shutdown of the singleton timer task (a module of its own is
planned), the asynchronous `stop` of a timer from its own event routine (see
`EventRoutineReturns`), printing.

### OsMsgQShared, refining MsgQueue (with `OsMsgQShared_proofs`, `MC_OsMsgQShared`)

`OsMsgQShared.cpp`. State: the list, the semaphores `mEmpty` and `mFull`, the
diagnostic counters, where each thread is and which message it carries.
`send`, `sendHandledByHook`, `AcquireEmpty`, `sendTimesOut` and `Insert` are
`doSend()`; `receive`, `AcquireFull`, `receiveTimesOut` and `Remove` are
`doReceive()`. `MsgQueue` is a bounded queue in which a call takes effect at
one moment; it also says when a call may give up: a send only when the messages
in the queue and those of the other sends that are underway fill it.

Not modelled: `flush()` other than in `OsServerTask`, and the wrapper
functions that only add a default argument.

### OsTask and OsServerTask (with `OsServerTask_proofs`, `MC_OsServerTask`)

`OsTask` is the life of a thread: `start`, `ThreadStarts`, `StartSucceeds` and
`StartTimesOut` are the handshake over two condition variables in
`OsTaskLinux.cpp`; `EnterRun`, `ackShutdown`, `taskUnregister` and
`LeaveThread` are `taskEntry()`; `TerminateTask`, `acquireWrite`,
`TerminateUnregisters` and `FreeTask` the destructor. Condition variables
match by address only, so a thread that came too late may be woken by the next
start; `StartSucceeds` lets any thread that waits go on. Only
the POSIX implementation is modelled.

`OsServerTask` EXTENDS it with the loop of `run()`, `postMessage()`,
`requestShutdown()` and the destructor. Its queue is `MsgQueue`, of which it
uses the actions directly: that `OsMsgQShared` behaves like this is proved.
The owner starts the task, starts it again after a shutdown, and deletes it
when no client is in a call to it, as the class asks for. `start` itself refuses
a started task only; that the owner does not call it while a shutdown is under
way ("After a task has been shut down, it may be restarted", `OsTask.h:99`) is
a conjunct of `OwnerStarts`.

Not modelled: `restart()`, `suspend()`, priorities, `waitUntilShutDown()` by
somebody other than the destructor.

### SipTransactionList (with `SipTransactionList_proofs`, `MC_SipTransactionList`)

`SipTransactionList.cpp` and the part of `SipTransaction.cpp` it is made of.
State: which transactions are listed, removed or deleted, their tree
(`topMostParent`), `mIsBusy`, `mWaitingList`, which are old; the events with
their signals; where each thread is. `NewTransaction`, `AddChild`, `linkChild`
and `FirstMessage` create transactions as `SipUserAgent::dispatch()` and
`recurseChildren()` do; `findTransactionFor` takes the transaction of a
message or starts to wait; `FoundGone`, `FoundAvailable`,
`notifyWhenAvailable`, `WaitSucceeds`, `WaitTimesOut` and `WaiterSignals` are
the loop of `waitUntilAvailable()`; `markAvailable` gives the tree back and
tells the first waiter; `removeOldTransactions` and `deleteTransactions` are
the two halves of the garbage collection, of which only the first has the lock.

Which transaction a message matches, and what is done with it, is left open:
the model lets every message match every listed transaction that has had a
message. A thread has one transaction at a time. Time is abstract: a
transaction may get old whenever it likes, also while it is in use.

### SipTransaction, refining ServerHunt (with `SipTransaction_proofs`)

`SipTransaction.cpp` as a client over UDP: an application sends a request to a
domain, a parent transaction that sends nothing itself holds one child per
server of the domain (DNS SRV), and the children are tried one after the
other. State: the members of each child (`mTransactionState`, the provisional
and final response, `mIsCanceled`, whether a CANCEL was sent, how often the
request was), the parent's `mIsRecursing`, `mIsCanceled` and
`mDispatchedFinalResponse`, the running timers, and what the application was
told. `startSequentialSearch`, `recurseDnsSrvChildren`, `findBestResponse`,
`cancel` and `cancelChildren` are the functions of these names, as operators
on the children; `SearchOn` is what `handleChildTimeoutEvent()` and
`handleChildIncoming()` have in common. `SendRequest`, `CancelTree`,
`CancelChild` and `SendAck` are what the application does;
`ReceiveProvisional`, `ReceiveSuccess` and `ReceiveFailure` are
`handleIncoming()` with the parent's `handleChildIncoming()`; `ResendRequest`,
`EndResending`, `ExpireChild`, `ExpireParent`, `ResendCancel` and
`ExpireCancel` are `handleResendEvent()` and `handleExpiresEvent()`, by whose
timer it is. The handling of one message or timer is one step, since only the
thread that has the tree can be in it (`SipTransactionList`, `OneHolder`).

The network is what may be received next: a response of any server that was
sent the request, at any time or never, so loss, delay and overtaking are in
the choice of the next step; a timer that was started may fire at any time
afterwards, so a timer that was queued before a response and is handled after
it is included.

`ServerHunt` says what the application sees: one server after the other, each
at most once, one failure when none is left, nothing new after an answer or a
cancellation.

### SipExchange (EXTENDS SipTransaction; with `SipExchange_proofs`)

The same client with the code of the server of each branch in place of the
free choice: `ServerReceivesRequest` (`SipUserAgent::dispatch()` makes the
server transaction and sends the 100), `ServerAnswers`
(`handleOutgoing()`), `ResendAnswer` (`handleResendEvent()` of an answer),
`ServerReceivesCancel` and `ServerReceivesAck`. The messages between the two
ends may be lost, repeated and overtake each other.

### SipSubscribeServer (with `SipSubscribeServer_proofs`)

`SipSubscribeServer`, `SipSubscriptionMgr`, `SipPublishContentMgr` and the use
they make of `SipDialogMgr`, for one event type and one resource. State: how
often the content was changed, whether the event type is enabled and its
content observed, the end of each subscription, the dialogs with their next
CSeq, the newest NOTIFY of each dialog, and where each thread is.
`HandleSubscribe`, `GetNotifyDialogInfo` and `SendSubscribed` are the three
critical sections of `handleSubscribe()`; `EndSubscription` and
`DeleteDialog` the two of `endSubscription()`; `Publish`, `NotifySubscribers`
and `SendNotifies` are `publish()` with its callback `contentChangeCallback()`
and `notifySubscribers()`; `LockForWrite` and what follows it
`enableEventType()` and `disableEventType()`; the clean-up is
`removeOldSubscriptions()`. The locks are read off where the threads are. The
server's lock is an `OsRWMutex`, and the rule that a waiting writer keeps new
readers out is the one that `OsRWMutexShared_proofs` proves
(`WritersPreferred`). Where `OsRWMutex` is a `pthread_rwlock_t`, that rule is
the platform's to choose. Without it (`MayRead` as `admin # "observing"`) the
properties of `subscriptions` still hold, and the observer still can wait for
ever, only one change of the event type later (`MaxToggles = 3`): an event type
that was disabled keeps its observer, and `enableEventType()` waits for the
content with the server's lock held, as the observer waits for that lock with
the content locked.

## 3. Runs

| Run | Instance | Shows | Distinct states |
|---|---|---|---|
| `rwmutex_safety` | 3 tasks, each may use any of the four acquire functions | readers exclude writers; no lost wake-up; tickets conserved; only writers can keep a writer out | 622 |
| `timer_races` | 1 timer, 2 threads, 2 starts and stops, clock to 2 | the task and the application agree; no update is lost; no dangling timer; refines `TimerService` | 263,094 |
| `timer_live` | 2 timers, 1 thread, a message queue of 1 | the queue stays sorted; timers fire; callers are answered | 79,399 |
| `timer_destructor` | 1 timer, destructor of a timer that was stopped asynchronously | **violated**: a timer freed under the task | |
| `msgq` | 3 threads, 2 slots, 2 sends each, urgent and not, send hook, timeouts | slots and messages accounted for; assertions hold; refines `MsgQueue`; nothing is stuck | 86,908 |
| `server_task` | 2 clients, an owner, a queue of 1, 3 calls, 2 starts | one thread in `run()`; shutdown; late messages; destructor | 346,852 |
| `server_task_destructor` | 1 client, an owner, a queue of 1, 2 calls, 1 start | **violated**: the destructor waits for room for ever | |
| `sip_transactions` | 3 threads, one of them the collector, 2 transactions, 4 waits | one holder per tree; it is not collected; events; waiters | 207,579 (symmetric) |
| `sip_hunt` | 2 servers, answers 200, 486 and 487, an INVITE, 2 sends of each message | refines `ServerHunt`; nobody rings on; a final response is heard | 829,239 |
| `sip_exchange` | 1 server with its code, the same answers | an answer that was acknowledged is the one the client took; every answer is acknowledged or given up | 64,057 |
| `subscriptions` | 2 publishers, 2 dialogs, 3 SUBSCRIBEs, 2 changes of the content, 3 of the event type, time to 2 | the newest NOTIFY of every subscriber has the newest content; a subscription has a dialog | 1,665,777 |
| `subscriptions_observer` | 2 publishers, 1 dialog, 1 SUBSCRIBE, 1 change of the content, 2 of the event type | **violated**: the observer of a publication never returns | |

### Bounds, and why they are enough

* Tasks and threads: every race here is between two or three parties (a holder,
  a waiter and a newcomer; a sender, a receiver and one that gives up). Three
  tasks in the lock give a holder, a waiter and a newcomer of every kind; that
  more of them change nothing in the safety properties is proved.
* `MaxState` bounds `mApplicationState`. 5 allows start, stop, start, stop,
  start: every relation between the application's state, the task's state and
  the state the task has read (equal, one, two or more behind) occurs. The
  real counters wrap after 2^32 calls, which needs that many calls while the
  task does nothing, and is not modelled.
* `MaxClock` bounds the clock; expiry times are drawn from `0..MaxClock`, so
  timers are due in the past, now, later and never.
* `TIMER_MAX_REQUEST_MSGS` is 1 or 2 instead of 10000, so that posts do block.
* `mMaxMsgs` is 1 or 2: the queue gets full and empty in every order.
* `MaxSends`, `MaxCalls`, `MaxStarts`, `MaxEvents` bound how often a thread
  calls. `MaxEvents` 4 lets two threads wait, give up and wait again for the
  same tree; two transactions give a tree of a parent and a child beside two
  trees of their own.
* `SEMAPHORE_CNT_MAX` is the real 100; it only has to exceed the tasks.
* `MaxSrvRecords` 2 gives a server that is given up while another is tried,
  late answers of the first, and a last one; the safety properties are proved
  for any number. `Codes`: a success, a failure that counts, and the 487 that
  answers a CANCEL and that `findBestResponse()` passes over. 503, which
  becomes a 500, is in the proofs. `RESEND_TIMES` 2 instead of 7: one resend,
  then the last.
* `SipExchange` has one branch: what two branches do to each other is
  `sip_hunt`'s question, what two ends do to each other is this one's.
* Two publishers and two dialogs: one publication can overtake another, and a
  subscriber can be notified by both and by the server task. `MaxToggles` 3
  enables, disables and enables again; `Duration` 1 and `MaxTime` 2 let a
  subscription end, be refreshed in its last second, and end again.

`CHECK_DEADLOCK FALSE` is said wherever the bounds, or the end of a life (a
deleted task, a freed timer), let the model stop.

### Fairness

* `OsRWMutexShared`: a task inside a call goes on while it can, and whoever has
  the lock gives it back (weak). A semaphore is a count and a broadcast
  (`pt_csem.c`), and `OsBSemLinux` stores its queue options without using them,
  so a waiter that was woken competes with whoever comes, and nothing stronger
  is assumed. A guarded part is one step, so `mGuard` is taken to be granted in
  the end. Nobody has to ask for the lock.
* `OsTimer`: the timer task and the clock go on, and a thread in a call goes on
  while it can (weak). With one thread (`timer_live`) there is nobody to take
  the room in the queue from it; several threads compete for it as above. Nobody
  has to call.
* `OsMsgQShared`: a thread that can go on does; a server keeps receiving, as
  `OsServerTask::run()` does. Timeouts are not relied upon.
* `OsServerTask`: the task's threads, the owner once it is in a call, and a
  client whose message has room go on (weak). Nobody has to time out, post,
  ask for a shutdown, start or delete.
* `SipTransaction`: every timer that was started fires (weak), which is what
  `OsTimer` promises. No message has to arrive: the final response is heard
  also when all are lost.
* `SipExchange`: the timer of an answer's resends (weak), and no more.
* `SipSubscribeServer`, in `subscriptions_observer` only: every thread that is
  in a call and can go on does (weak).
* `SipTransactionList` has no liveness property: the 30 seconds after which a
  waiter gives up would make any such property true.

### Disagreements with the documentation

Three runs end in a violation, each of a sentence in the code or its header.

1. `timer_destructor` (`OsTimer.cpp:111`): the destructor takes
   `mOutstandingMessages = 0` for the end of the task's work, but the task
   decrements it when it starts on the message. Comment: the destructor
   handles this "correctly".
2. `server_task_destructor` (`OsServerTask.cpp:118`): the destructor changes
   `mState` and then posts its `OS_SHUTDOWN` with an infinite timeout. If the
   queue is full, and the thread has just taken its last message (it looks at
   `mState`, leaves `run()` and receives no more) or was never started, nobody
   makes room. Comment: "upto 20 seconds", after which the queue is flushed. No
   other case keeps the destructor (`DestructorReturns`).
3. `subscriptions_observer` (`SipPublishContentMgr.cpp:205`): `publish()` calls
   its observer with the content locked. The observer of the subscribe server
   takes the server's lock for reading, which waits behind a thread that
   enables or disables an event type; that one waits for the server task, which
   is in `handleSubscribe()` and waits for the content. The three wait for each
   other for ever. Header: an observer "should not block".

### Other disagreements

These have no run of their own. Each is a definition in its module, and adding
it to the module's configuration, with the change named here, shows it.

* `WritersExclusive` of `OsRWMutexShared` (`OsRWMutexShared.cpp:293`), in
  `rwmutex_safety`: the conditional form of `doAcquireExclWrite()` returns
  `OS_SUCCESS` when the semaphore said `OS_BUSY`. A task in `tryAcquireWrite()`
  that left `mGuard` then writes beside one that came by `acquireWrite()` in
  between. Header (`OsRWMutexShared.h:72`): "Only one writer at a time is
  allowed". Without conditional writers `WritersExclusive` is a theorem
  (`WritersExclude`); in the libraries nothing calls `tryAcquireWrite()`, only
  tests do.
* `WriterEnters` of `OsRWMutexShared`, in `rwmutex_safety`: other writers may
  take `mWriteExclSem` before one that waits for it again and again. Header
  (`OsRWMutexShared.h:34`): "it should be enabled to do so as soon as possible";
  the semaphores' `Q_FIFO` (`OsBSem.h:46`): "queue blocked tasks on a first-in,
  first-out basis". `OnlyWritersDelayWriters` says what is still true.
* `EventRoutineReturns` of `OsTimer` (`OsTimerTask.cpp:382`), with
  `RoutineUsesTimer = {t1}`: `fireTimer()` holds `mBSem` across the event
  routine, so the routine can call no method of its own timer that takes
  `mBSem`. Header: "all non-blocking methods may be executed".
* `DeleteWaitsForReaders` of `OsServerTask` (`OsTaskLinux.cpp:669` and `:849`):
  the thread clears `mTaskId` before it releases `mDeleteGuard`, and the
  destructor waits for `mDeleteGuard` only when `mTaskId` is not 0. The comment
  at `:680-683` says that it waits.
* `SignaledWhenReleased` of `SipTransactionList` (`SipTransaction.cpp:4476`):
  the wake-up of a release goes to one waiter. If that one gave up in the
  meantime the next is not told. `NoWaiterForgotten` says what is still true.
* `CancelAfterProvisional` of `SipTransaction`: a CANCEL of the application
  that `findTransactionFor()` matches with a child is sent before any
  provisional response; the comment in `cancel()` says that it must not be.
* `OsProtectEventMgr.cpp:121` (not modelled): with the pool at its full size
  `alloc()` can look at the element behind the array.

## 4. Proofs

All theorems hold for any sets of threads, tasks, transactions and any
capacity and bounds that satisfy the ASSUMEs of the modules: `Tasks` and
`Threads` finite where they are counted (in the lock, the queue and the
timers), `SEMAPHORE_CNT_MAX` at least the number of tasks (the header's "upper
bound on the number of simultaneous readers or writers"), a queue of at least
one slot.

* `OsRWMutexShared_proofs`: `Exclusion`, `NoWakeUpLost`, `TicketsAccounted`,
  `ErrorBranchDead`, `WritersPreferred`, `WritersExclude`, `TypeCorrect`.
  Exclusion is not inductive: the lock knows its holders only by counters, so
  `IInv` ties each counter to the number of tasks at certain places
  (`TicketsConserved`), adds that no ticket is granted to both kinds
  (`TicketsExclude`), that grants go to active tasks (`GrantedToActive`), and
  that a conditional writer inside `mGuard` finds the lock as it saw it
  (`TryWriterAlone`). The counting is done once, in `CountMove`: one task's
  move changes a count by what it enters minus what it leaves.
* `OsTimer_proofs`: `TypeCorrect`, `ParityTellsTheQueue`, `HeadExpiresFirst`,
  `UpdatesReachTheTask`, `NobodyRefersToTheDead`, and `TimersImplementService`,
  that every step is one of `TimerService` or a stutter, for any number of
  timers and threads, any capacity of the message queue and any bounds on the
  states and the clock. None of these is inductive without knowing what the
  messages stand for (`MessageInv`): `mOutstandingMessages` is the number of
  messages about the timer that are queued or about to be posted (`Counted`),
  so a count of 0 means that the task has heard everything, and `NoLostUpdate`
  can say who will tell it otherwise. A synchronous message has one thread that
  waits for it, and that thread waits for no other (`AnswersAwaited`); while a
  timer is being deleted the deleter's is the only call on it
  (`DeleterAlone`), and its message is the last about it (`LastIsLast`), which
  is why freeing the timer leaves no reference behind (`Existing`). `Copied`
  ties what the task read to what the application set. Under the refinement
  the posts, the receptions and the updates of the task are hidden: the
  application's view of a timer changes with `mApplicationState` only, and a
  firing finds the two states equal, so the due time the task compares with
  the clock is the one that was asked for. All of these theorems have the
  hypothesis `NoStoppedDestructor`: nobody runs the destructor of a timer that
  is stopped, because the destructor is wrong then (run `timer_destructor`). `deleteAsync()` at any time and the destructor of a started
  timer are in them.
* `OsMsgQShared_proofs`: `SlotsConserved`, `NoAssertionFails`,
  `SendersInOrder`, `SelfTestHolds`, `TypeCorrect`, and `Refinement`: every
  step is one of `MsgQueue` or a stutter. `IInv` adds to the accounting of the
  slots that the successful calls are counted (`CallsCounted`) and that a
  thread carries the latest of its messages (`CarriesLatest`), without which
  an insertion could break the order. That a call gives up with reason follows
  from the accounting: a semaphore at 0 means that the other calls underway
  own the rest.
* `SipTransactionList_proofs`: `OneHolderAlways`, `HolderKeeps`,
  `EventsAlwaysAccounted`, `WaitersTold`, `TypeCorrect`. `TreesWhole` says that
  a tree is busy and lives as a whole, without which the collector could take
  a child from under the holder of its parent; `ChildrenAlone` that a fork
  which is listed but not linked yet is known to its creator only, because
  nobody finds a transaction that had no message (`LookersFound`). `Handshake`
  is the protocol over an event: unsignalled and waited for, it is in the list
  of its tree; once signalled, only the other side still has it.
  `GoneHasNoWaiters` says that the lists of what is collected are empty.
  `WaitersTold` rests on both: an untold waiter's event is in the list, so a
  release tells the head of the list, and that is a waiter of this tree or one
  that gave up.

* `SipTransaction_proofs`: `TypeCorrect`, `NobodyRingsOn` and `ImplementsHunt`,
  that the client refines `ServerHunt`, for any number of servers and resends
  and any answers. `IInv` is stated over the children as a value, so that it
  can be asked of the children before a search starts (`ChildrenInv`, `Over`,
  `Heard`): at most one child is pursued; a canceled child whose server rings
  has been sent its CANCEL; what was not asked yet is canceled as a whole; and,
  once the application has an answer, either the tree was canceled or every
  child that was never asked stands behind one that answered (`Settled`).
  `Settled` is what makes it inductive: a timer that comes after the answer
  looks for a server again and must find none. `SearchKeeps` and
  `SearchImplements` prove both facts of a search once, for all five handlers
  that go on with it; `ChangeKeeps` does so for the steps that do not.
  `FirstBranch`, that a set of servers has a first one, is the only place where
  well-founded induction is used.
* `SipExchange_proofs`: `NoHalfCall`, `ExchangeTypeCorrect`, and
  `ExchangeImplementsTransaction`: the client that talks to the code of the
  servers is a client of `SipTransaction`, so the theorems about the latter
  hold here, and its freely chosen responses include all that these servers
  send. `ExchangeInv` adds two parts to the client's `IInv`. `ServerInv` says
  that a server has a final response exactly when it is `COMPLETE`, so it
  answers once. `Agreement`, stated over the children and what was heard as
  values, follows an acknowledgement back: one that was received was sent, it
  was sent for a final response, that response is the answer of its server,
  and a success that was acknowledged had been heard (from the client's
  `Heard`: what the application was told of, the transaction took). Ten of
  the client's handlers touch neither a response nor an ACK; they are dealt
  with by `QuietAgrees`, so that the proof is about the three that do.
* `SipSubscribeServer_proofs`: `TypeCorrect`, `HasDialog` and `NoChangeLost`,
  for any number of publishers and dialogs. `ServerInv` says which locks
  exclude what; `NotifyInv` ties each NOTIFY that is prepared or sent to the
  CSeqs of its dialog (`NotifiesTaken`), says that one prepared after a change
  is newer than all before (`NotifiesNew`), and that the content a subscriber
  lacks is on its way to it (`NoneLost`).

* `OsServerTask_proofs`: `OneRunner`, `RunExited`, `LateIsDropped` and
  `TypeCorrect`, for any number of clients, calls and starts and any capacity.
  `RunInv` says that the states `STARTED` and `SHUTTING_DOWN`, in which a
  thread is let through to `run()`, are left only by that thread, and that
  nobody starts the task meanwhile (`OneRun`). `MsgInv` says that a message
  still to be put was never put before (`Fresh`), and that a thread for which
  one came too late looks at `mState` before it handles what it takes and
  never runs again once it stopped (`Late`). The steps that leave the messages
  alone are dealt with once, in `TaskMoves`.

`WritersExclude`, `WritersPreferred`, `ErrorBranchDead`, `SendersInOrder` and
`SelfTestHolds` are proved of properties that no passing run checks.

### Model-checked only

* Liveness: `OnlyWritersDelayWriters`, `StartedTimerFires`, `WaiterIsAnswered`,
  `MessageArrives`, `SendReturns`, `PostedIsHandled`, `ShutdownCompletes`,
  `DestructorReturns`, `FinalIsHeard`, `AnswerSettles`. TLAPS does not reason
  about fairness.
* The conditional writers of `OsRWMutexShared` and the destructor of a stopped
  timer: TLC refutes what a theorem would say.

Every invariant and every refinement that a passing run checks is a theorem;
the lists above and `PROJECT.json` name them.

## 5. Known limits

Behaviour that was seen in the code and is outside the models:

* `tryAcquireRead()` may block for a moment: another reader can take its
  ticket before it does (`OsRWMutexShared.cpp:182`).
* A periodic timer with period 0 makes `run()` fire it for ever; `Period` is
  assumed positive.
* Messages that are too large for a copy are queued by address and belong to
  the receiver; a message is an opaque value here.
* Callers that wait for an answer of a task that has exited wait for ever.
* `restart()` takes the locks of a task in another order than the destructor;
  `start()` while the task is `SHUTTING_DOWN` is not refused, and gives it two
  threads.
* Spurious wake-ups of condition variables are not modelled.
* `waitUntilAvailable()` prints the tree of a transaction it has not looked up
  again (`SipTransactionList.cpp:505`), and `transactionExists()` compares
  addresses, which a new transaction may share with a deleted one.
* A waiter that gives up returns no transaction, and its caller may create a
  second one for the same message.
* The relation of a message to a transaction is read while its holder may
  change it; the model lets every outcome happen.
* `SipTransaction`: a provisional response that comes after a branch was given
  up (`COMPLETE`), and then a cancellation, send no CANCEL; the CANCEL that
  `cancel()` sends is never resent, because its transaction counts as canceled
  (`SipTransaction.cpp:1434`); a duplicate of a request is not answered again;
  an application that cancels hears a 408, because `findBestResponse()` passes
  over the 487; a failure of one server with a final response keeps the next
  ones from being asked, also a 503.
* `SipSubscribeServer`: subscriptions end without a NOTIFY, although
  `SipSubscribeServer.h:86` promises one; a NOTIFY may be `active` with
  `expires=0` after one that was `terminated` in the same second; CSeqs begin
  at 0 again when a dialog is made again; a refresh with exactly the least
  expiration is refused; a NOTIFY is sent after a 423; content that was
  published while the event type was disabled is not announced when it is
  enabled again (`LatestContentKnown` asks for content that was announced); the
  observer stays registered.

Not modelled at all: parsing and formatting of messages (data transformation,
no state), sockets and files (pure I/O), signal processing and codecs (numeric
kernels), vendored code in `contrib`, the legacy `ptapi` and `tao`.

## 6. Plan

Modelled so far: the operating system layer that everything rests on, the
transactions, and the subscriptions. What is left, most important first:

1. `SipUserAgent`: `dispatch()` with the two receivers that both find no
   transaction.
2. `SipDialogMgr` and `CSeqManager`: dialogs become established once, sequence
   numbers increase and match.
3. `SipRefreshMgr` over `OsTimer`'s promise `TimerService`: a subscription is
   renewed before it expires, a late response is ignored.
4. `OsProtectEventMgr` and `OsMsgPool`: pools at their limits, and the
   handshake of waiter and signaller when the wait times out.
5. `MpBufPool`, `MpJitterBuffer`, `MpMediaTask`: reference counts, sequence
   numbers modulo 2^16, one signal of every flow graph per frame.
6. `Connection` and `CpCall`: the call state machine.
7. The shutdown of the timer task.

A new component takes the place of the shallowest properties of the ones that
are there; what a proof covers for all constants needs the smallest instance.
