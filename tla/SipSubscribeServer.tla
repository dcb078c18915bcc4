------------------------- MODULE SipSubscribeServer -------------------------
(***************************************************************************)
(* SipSubscribeServer with its SipSubscriptionMgr, SipPublishContentMgr and *)
(* SipDialogMgr: one event type and one resource, whose content             *)
(* applications publish and whose subscribers are notified.  The threads    *)
(* are the server task, which handles one message at a time, the publishers, *)
(* an administrator that enables and disables the event type, and one that  *)
(* cleans up.  The locks are read off where the threads are:                *)
(*   - a publisher that is not idle holds the lock of the content manager,  *)
(*     also while it notifies the subscribers;                              *)
(*   - the server task that is not idle and a publisher that notifies hold  *)
(*     the lock of the server for reading; a writer that waits for it keeps  *)
(*     new readers out (WriterPreference of module OsRWMutexShared);        *)
(*   - the locks of the subscriptions and of the dialogs are held within    *)
(*     one step.                                                            *)
(***************************************************************************)
EXTENDS Integers

CONSTANTS
    Publishers,     \* the threads that publish
    Dialogs,        \* the dialogs of the subscribers
    Duration,       \* for how long a subscription is made or refreshed
    MaxTime,        \* bound on the time
    MaxVersions,    \* bound on how often content is published
    MaxSubscribes,  \* bound on the SUBSCRIBE requests
    MaxToggles      \* bound on how often the event type is enabled or disabled

ASSUME ConstantsAssumption ==
    /\ Dialogs # {}
    /\ Duration \in Nat \ {0}
    /\ MaxTime \in Nat /\ MaxVersions \in Nat /\ MaxSubscribes \in Nat /\ MaxToggles \in Nat

VARIABLES
    now,        \* the time in seconds
    content,    \* how often the content was changed
    event,      \* whether the event type is enabled, and its content observed; the
                \* last change that its observer was told of while it was enabled
    subs,       \* mExpirationDate of the subscriptions there are (NoSub: none)
    dialogs,    \* the dialogs: whether there is one, how often it was made, its next CSeq
    newest,     \* the newest NOTIFY that was sent in each dialog
    server,     \* what the server task is doing, and the NOTIFY it prepares
    publisher,  \* what each publisher is doing, and the NOTIFYs it prepared
    admin,      \* what the administrator is doing
    count       \* the SUBSCRIBEs and changes of the event type so far

vars == <<now, content, event, subs, dialogs, newest, server, publisher, admin, count>>

NoSub == -1
Dates == {NoSub} \cup 0 .. MaxTime + Duration
Made == 0 .. MaxSubscribes
CSeqs == 0 .. MaxSubscribes + MaxVersions

\* The NOTIFY of a dialog that does not exist: it is not sent.
NoNotify == [made |-> 0, cseq |-> 0, active |-> FALSE]
Notifies == [made : Made, cseq : CSeqs, active : BOOLEAN]

TypeOK ==
    /\ now \in 0 .. MaxTime
    /\ content \in 0 .. MaxVersions
    /\ event \in [enabled : BOOLEAN, observed : BOOLEAN, announced : 0 .. MaxVersions]
    /\ subs \in [Dialogs -> Dates]
    /\ dialogs \in [Dialogs -> [exists : BOOLEAN, made : Made, cseq : CSeqs]]
    /\ newest \in [Dialogs -> [notify : Notifies, content : 0 .. MaxVersions]]
    /\ server \in [at : {"idle", "subscribed", "notifying", "ended"}, dialog : Dialogs, notify : Notifies]
    /\ publisher \in [Publishers -> [at : {"idle", "callback", "notifying"},
                                     notifies : [Dialogs -> Notifies]]]
    /\ admin \in {"idle", "waiting", "observing"}
    /\ count \in [subscribes : 0 .. MaxSubscribes, toggles : 0 .. MaxToggles]

Init ==
    /\ now = 0 /\ content = 0
    /\ event = [enabled |-> FALSE, observed |-> FALSE, announced |-> 0]
    /\ subs = [d \in Dialogs |-> NoSub]
    /\ dialogs = [d \in Dialogs |-> [exists |-> FALSE, made |-> 0, cseq |-> 0]]
    /\ newest = [d \in Dialogs |-> [notify |-> NoNotify, content |-> 0]]
    /\ server = [at |-> "idle", dialog |-> CHOOSE d \in Dialogs : TRUE, notify |-> NoNotify]
    /\ publisher = [p \in Publishers |-> [at |-> "idle", notifies |-> [d \in Dialogs |-> NoNotify]]]
    /\ admin = "idle"
    /\ count = [subscribes |-> 0, toggles |-> 0]

ContentUnlocked == \A p \in Publishers : publisher[p].at = "idle"
NoReader == server.at = "idle" /\ \A p \in Publishers : publisher[p].at # "notifying"
MayRead == admin = "idle"

\* setRequestData(): the next CSeq of a dialog is taken for a NOTIFY.
NextNotify(d, active) == [made |-> dialogs[d].made, cseq |-> dialogs[d].cseq, active |-> active]
TakeCSeq(ds) == [d \in Dialogs |-> IF d \in ds THEN [dialogs[d] EXCEPT !.cseq = @ + 1] ELSE dialogs[d]]

\* What the subscribers know when these NOTIFYs, in any order, have reached them:
\* a receiver goes by the CSeq.
Newer(m, n) == m.made > n.made \/ (m.made = n.made /\ m.cseq >= n.cseq)
Known(notifies) ==
    [d \in Dialogs |-> IF notifies[d] # NoNotify /\ Newer(notifies[d], newest[d].notify)
                       THEN [notify |-> notifies[d], content |-> content]
                       ELSE newest[d]]
------------------------------------------------------------------------------
(***************************************************************************)
(* The server task.                                                         *)
(***************************************************************************)
\* Mutant: a refresh adds to the time that is left.
updateDialogInfo_x(d, e) ==
    /\ subs' = [subs EXCEPT ![d] = IF @ = NoSub THEN now + e ELSE @ + e]
    /\ dialogs' = IF dialogs[d].exists THEN dialogs
                  ELSE [dialogs EXCEPT ![d] = [exists |-> TRUE, made |-> @.made + 1, cseq |-> 0]]

\* updateDialogInfo(): the subscription d is made, made again or refreshed for a
\* time e.  One that is too short is refused and changes nothing.
updateDialogInfo(d, e) ==
    /\ subs' = [subs EXCEPT ![d] = now + e]
    /\ dialogs' = IF dialogs[d].exists THEN dialogs
                  ELSE [dialogs EXCEPT ![d] = [exists |-> TRUE, made |-> @.made + 1, cseq |-> 0]]

\* handleSubscribe(), which begins with the lock for reading.  A request for an
\* event type that is not enabled is refused.
HandleSubscribe(d, e) ==
    /\ server.at = "idle" /\ MayRead /\ event.enabled
    /\ count.subscribes < MaxSubscribes
    /\ count' = [count EXCEPT !.subscribes = @ + 1]
    /\ updateDialogInfo(d, e)
    /\ server' = [at |-> "subscribed", dialog |-> d, notify |-> NoNotify]
    /\ UNCHANGED <<now, content, event, newest, publisher, admin>>

\* getNotifyDialogInfo(): without a subscription the NOTIFY gets no dialog.
GetNotifyDialogInfo ==
    /\ server.at = "subscribed"
    /\ LET d == server.dialog
           found == subs[d] # NoSub
       IN  /\ server' = [server EXCEPT !.at = "notifying",
                                       !.notify = IF found THEN NextNotify(d, subs[d] > now) ELSE NoNotify]
           /\ dialogs' = IF found THEN TakeCSeq({d}) ELSE dialogs
    /\ UNCHANGED <<now, content, event, subs, newest, publisher, admin, count>>

\* getNotifyContent(), which waits for the lock of the content, and the sending.
SendSubscribed ==
    /\ server.at = "notifying" /\ ContentUnlocked
    /\ newest' = Known([d \in Dialogs |-> IF d = server.dialog THEN server.notify ELSE NoNotify])
    /\ server' = [server EXCEPT !.at = "idle", !.notify = NoNotify]
    /\ UNCHANGED <<now, content, event, subs, dialogs, publisher, admin, count>>

\* Mutant: the dialog is deleted before its subscription.
EndSubscription_x(d) ==
    /\ server.at = "idle" /\ MayRead /\ event.enabled
    /\ newest[d].notify # NoNotify
    /\ dialogs' = [dialogs EXCEPT ![d].exists = FALSE]
    /\ server' = [server EXCEPT !.at = "ended", !.dialog = d]
    /\ UNCHANGED <<now, content, event, subs, newest, publisher, admin, count>>

\* handleNotifyResponse() of a NOTIFY that failed: the subscription is removed,
\* and after the lock is released its dialog.
EndSubscription(d) ==
    /\ server.at = "idle" /\ MayRead /\ event.enabled
    /\ newest[d].notify # NoNotify
    /\ subs' = [subs EXCEPT ![d] = NoSub]
    /\ server' = [server EXCEPT !.at = "ended", !.dialog = d]
    /\ UNCHANGED <<now, content, event, dialogs, newest, publisher, admin, count>>

DeleteDialog ==
    /\ server.at = "ended"
    /\ dialogs' = [dialogs EXCEPT ![server.dialog].exists = FALSE]
    /\ server' = [server EXCEPT !.at = "idle"]
    /\ UNCHANGED <<now, content, event, subs, newest, publisher, admin, count>>
------------------------------------------------------------------------------
(***************************************************************************)
(* The publishers, the administrator and the clean-up.                      *)
(***************************************************************************)
\* publish() and unpublish(): with the lock of the content held, it is changed
\* and its observer, the server, is called.
Publish(p) ==
    /\ publisher[p].at = "idle" /\ ContentUnlocked
    /\ content < MaxVersions
    /\ content' = content + 1
    /\ publisher' = IF event.observed THEN [publisher EXCEPT ![p].at = "callback"] ELSE publisher
    /\ UNCHANGED <<now, event, subs, dialogs, newest, server, admin, count>>

\* Mutant: a subscription that ends in this second is left out.
NotifySubscribers_x(p) ==
    /\ publisher[p].at = "callback" /\ MayRead
    /\ LET live == IF event.enabled THEN { d \in Dialogs : subs[d] > now } ELSE {}
       IN  /\ publisher' = [publisher EXCEPT ![p] =
                  [at |-> "notifying",
                   notifies |-> [d \in Dialogs |-> IF d \in live THEN NextNotify(d, TRUE) ELSE NoNotify]]]
           /\ dialogs' = TakeCSeq(live)
           /\ event' = IF event.enabled THEN [event EXCEPT !.announced = content] ELSE event
    /\ UNCHANGED <<now, content, subs, newest, server, admin, count>>

\* createNotifiesDialogInfo(): a NOTIFY for each subscription that is not over.
NotifySubscribers(p) ==
    /\ publisher[p].at = "callback" /\ MayRead
    /\ LET live == IF event.enabled THEN { d \in Dialogs : subs[d] # NoSub /\ subs[d] >= now } ELSE {}
       IN  /\ publisher' = [publisher EXCEPT ![p] =
                  [at |-> "notifying",
                   notifies |-> [d \in Dialogs |-> IF d \in live THEN NextNotify(d, TRUE) ELSE NoNotify]]]
           /\ dialogs' = TakeCSeq(live)
           /\ event' = IF event.enabled THEN [event EXCEPT !.announced = content] ELSE event
    /\ UNCHANGED <<now, content, subs, newest, server, admin, count>>

\* Each NOTIFY gets the content and is sent; then both locks are released.
SendNotifies(p) ==
    /\ publisher[p].at = "notifying"
    /\ newest' = Known(publisher[p].notifies)
    /\ publisher' = [publisher EXCEPT ![p] = [at |-> "idle", notifies |-> [d \in Dialogs |-> NoNotify]]]
    /\ UNCHANGED <<now, content, event, subs, dialogs, server, admin, count>>

LockForWrite ==
    /\ admin = "idle"
    /\ count.toggles < MaxToggles
    /\ count' = [count EXCEPT !.toggles = @ + 1]
    /\ admin' = "waiting"
    /\ UNCHANGED <<now, content, event, subs, dialogs, newest, server, publisher>>

\* enableEventType(), which registers the observer with the lock held.
EnableEventType ==
    /\ admin = "waiting" /\ NoReader /\ ~event.enabled
    /\ event' = [event EXCEPT !.enabled = TRUE]
    /\ admin' = "observing"
    /\ UNCHANGED <<now, content, subs, dialogs, newest, server, publisher, count>>

SetContentChangeObserver ==
    /\ admin = "observing" /\ ContentUnlocked
    /\ event' = [event EXCEPT !.observed = TRUE]
    /\ admin' = "idle"
    /\ UNCHANGED <<now, content, subs, dialogs, newest, server, publisher, count>>

\* disableEventType(), which leaves the subscriptions and the observer.
DisableEventType ==
    /\ admin = "waiting" /\ NoReader /\ event.enabled
    /\ event' = [event EXCEPT !.enabled = FALSE]
    /\ admin' = "idle"
    /\ UNCHANGED <<now, content, subs, dialogs, newest, server, publisher, count>>

\* removeOldSubscriptions() of those that are over.
RemoveOldSubscriptions ==
    /\ LET old == { d \in Dialogs : subs[d] # NoSub /\ subs[d] < now }
       IN  /\ old # {}
           /\ subs' = [d \in Dialogs |-> IF d \in old THEN NoSub ELSE subs[d]]
           /\ dialogs' = [d \in Dialogs |-> IF d \in old THEN [dialogs[d] EXCEPT !.exists = FALSE] ELSE dialogs[d]]
    /\ UNCHANGED <<now, content, event, newest, server, publisher, admin, count>>

Tick ==
    /\ now < MaxTime
    /\ now' = now + 1
    /\ UNCHANGED <<content, event, subs, dialogs, newest, server, publisher, admin, count>>
------------------------------------------------------------------------------
ServerNext == GetNotifyDialogInfo \/ SendSubscribed \/ DeleteDialog
PublisherNext(p) == NotifySubscribers(p) \/ SendNotifies(p)
AdminNext == EnableEventType \/ SetContentChangeObserver \/ DisableEventType

Next ==
    \/ \E d \in Dialogs :
        \/ \E e \in {0, Duration} : HandleSubscribe(d, e)
        \/ EndSubscription(d)
    \/ \E p \in Publishers : Publish(p) \/ PublisherNext(p)
    \/ ServerNext \/ AdminNext \/ LockForWrite \/ RemoveOldSubscriptions \/ Tick

Spec == Init /\ [][Next]_vars

\* A thread that can run does.
FairSpec ==
    /\ Spec /\ WF_vars(ServerNext) /\ WF_vars(AdminNext)
    /\ \A p \in Publishers : WF_vars(PublisherNext(p))
------------------------------------------------------------------------------
Quiet == server.at = "idle" /\ ContentUnlocked

\* No change that the observer was told of is lost: when nothing is under way,
\* every subscription that is not over has last been told that content or a later
\* one, in the order of the CSeqs, and one that was made or refreshed is not told
\* that it is over - although CSeq, state and content of a NOTIFY are read under
\* three locks, one after the other, while others publish, subscribe and clean up.
\* What is published while the event type is disabled is not made up for.
UpToDate(d) ==
    /\ newest[d].notify.made = dialogs[d].made
    /\ newest[d].content >= event.announced
    /\ subs[d] > now => newest[d].notify.active

Live(d) == subs[d] # NoSub /\ subs[d] >= now

LatestContentKnown == Quiet => \A d \in Dialogs : Live(d) => UpToDate(d)

\* A subscription that a publisher can find has its dialog, without which a NOTIFY
\* cannot be addressed, also while it is ended (endSubscription() removes the two
\* under different locks) or cleaned up.
SubscriptionHasDialog == \A d \in Dialogs : subs[d] # NoSub => dialogs[d].exists

\* The observer of the content does not block the publisher for ever, as the
\* comment on SipPublisherContentChangeCallback asks of every observer.
CallbackReturns == \A p \in Publishers : (publisher[p].at = "callback") ~> (publisher[p].at = "idle")
=============================================================================
