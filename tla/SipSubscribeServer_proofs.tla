---------------------- MODULE SipSubscribeServer_proofs ----------------------
(***************************************************************************)
(* Proofs about SipSubscribeServer, for any publishers, dialogs and bounds. *)
(***************************************************************************)
EXTENDS SipSubscribeServer, TLAPS

-----------------------------------------------------------------------------
(* The inductive invariant.                                                *)

\* The lock of the content has one holder.
Alone ==
    \A p, q \in Publishers : publisher[p].at # "idle" /\ publisher[q].at # "idle" => p = q

\* A dialog was made by a SUBSCRIBE.
DialogsMade ==
    \A d \in Dialogs :
        /\ dialogs[d].made <= count.subscribes
        /\ dialogs[d].exists => dialogs[d].made > 0

\* Each SUBSCRIBE and each change of the content takes one CSeq of a dialog.
Answered == IF server.at = "subscribed" THEN count.subscribes - 1 ELSE count.subscribes
Told == IF \E p \in Publishers : publisher[p].at = "callback" THEN content - 1 ELSE content
CSeqsCounted == \A d \in Dialogs : dialogs[d].cseq <= Answered + Told

\* Something is under way only after it was counted.
Counted ==
    /\ server.at = "subscribed" => count.subscribes > 0
    /\ (\E p \in Publishers : publisher[p].at = "callback") => content > 0
    /\ event.announced <= content

\* What was ended is over until the server task is idle again.
EndedHasNoSub == server.at = "ended" => subs[server.dialog] = NoSub

ServerInv ==
    /\ TypeOK /\ Alone /\ DialogsMade /\ CSeqsCounted /\ Counted
    /\ SubscriptionHasDialog /\ EndedHasNoSub

-----------------------------------------------------------------------------
LEMMA ServerInvInit == Init => ServerInv
<1> SUFFICES ASSUME Init PROVE ServerInv
  OBVIOUS
<1> USE ConstantsAssumption DEF Init
<1>1. TypeOK
  BY DEF TypeOK, Dates, Made, CSeqs, NoSub, NoNotify, Notifies
<1>2. Alone /\ DialogsMade /\ CSeqsCounted /\ Counted
  BY DEF Alone, DialogsMade, CSeqsCounted, Counted, Answered, Told
<1>3. SubscriptionHasDialog /\ EndedHasNoSub
  BY DEF SubscriptionHasDialog, EndedHasNoSub
<1> QED
  BY <1>1, <1>2, <1>3 DEF ServerInv

\* The next CSeq of a dialog is within its bounds.
LEMMA CSeqInBounds ==
  ASSUME ServerInv, NEW d \in Dialogs,
         server.at = "subscribed" \/ (\E p \in Publishers : publisher[p].at = "callback")
  PROVE  dialogs[d].cseq + 1 \in CSeqs
<1>1. /\ dialogs[d].cseq \in Nat /\ content \in 0 .. MaxVersions
      /\ count.subscribes \in 0 .. MaxSubscribes
  BY DEF ServerInv, TypeOK, CSeqs
<1>2. dialogs[d].cseq <= Answered + Told
  BY DEF ServerInv, CSeqsCounted
<1>3. Answered + Told <= MaxSubscribes + MaxVersions - 1
  BY <1>1, ConstantsAssumption DEF ServerInv, Counted, Answered, Told
<1> QED
  BY <1>1, <1>2, <1>3, ConstantsAssumption DEF CSeqs, ServerInv, Counted, Answered, Told

LEMMA TakeCSeqType ==
  ASSUME ServerInv, NEW ds \in SUBSET Dialogs, \A d \in ds : dialogs[d].cseq + 1 \in CSeqs
  PROVE  TakeCSeq(ds) \in [Dialogs -> [exists : BOOLEAN, made : Made, cseq : CSeqs]]
BY DEF ServerInv, TypeOK, TakeCSeq

LEMMA NotifyType ==
  ASSUME ServerInv
  PROVE  /\ NoNotify \in Notifies
         /\ \A d \in Dialogs, a \in BOOLEAN : NextNotify(d, a) \in Notifies
         /\ \A n \in [Dialogs -> Notifies] :
              Known(n) \in [Dialogs -> [notify : Notifies, content : 0 .. MaxVersions]]
<1>1. NoNotify \in Notifies
  BY ConstantsAssumption DEF NoNotify, Notifies, Made, CSeqs
<1>2. ASSUME NEW d \in Dialogs, NEW a \in BOOLEAN PROVE NextNotify(d, a) \in Notifies
  BY DEF ServerInv, TypeOK, NextNotify, Notifies
<1>3. ASSUME NEW n \in [Dialogs -> Notifies]
      PROVE  Known(n) \in [Dialogs -> [notify : Notifies, content : 0 .. MaxVersions]]
  BY DEF ServerInv, TypeOK, Known
<1> QED
  BY <1>1, <1>2, <1>3

LEMMA TypeStep == ServerInv /\ [Next]_vars => TypeOK'
<1> SUFFICES ASSUME ServerInv, [Next]_vars PROVE TypeOK'
  OBVIOUS
<1>0. TypeOK
  BY DEF ServerInv
<1>1. ASSUME NEW d \in Dialogs, NEW e \in {0, Duration}, HandleSubscribe(d, e) PROVE TypeOK'
  <2> USE <1>1, <1>0, ConstantsAssumption DEF HandleSubscribe, updateDialogInfo
  <2>1. now' \in 0 .. MaxTime /\ content' \in 0 .. MaxVersions /\ subs' \in [Dialogs -> Dates]
    BY DEF TypeOK, Dates
  <2>2. dialogs' \in [Dialogs -> [exists : BOOLEAN, made : Made, cseq : CSeqs]]
    <3>1. dialogs[d].made + 1 \in Made /\ 0 \in CSeqs
      BY DEF ServerInv, DialogsMade, TypeOK, Made, CSeqs
    <3> QED
      BY <3>1 DEF TypeOK
  <2>3. server' \in [at : {"idle", "subscribed", "notifying", "ended"}, dialog : Dialogs, notify : Notifies]
    BY NotifyType
  <2>4. count' \in [subscribes : 0 .. MaxSubscribes, toggles : 0 .. MaxToggles]
    BY DEF TypeOK
  <2> QED
    BY <2>1, <2>2, <2>3, <2>4 DEF TypeOK
<1>2. ASSUME NEW d \in Dialogs, EndSubscription(d) PROVE TypeOK'
  BY <1>2, <1>0 DEF TypeOK, EndSubscription, Dates
<1>3. ASSUME NEW p \in Publishers, Publish(p) PROVE TypeOK'
  <2>1. content' \in 0 .. MaxVersions
    BY <1>3, <1>0, ConstantsAssumption DEF Publish, TypeOK
  <2>2. publisher' \in [Publishers -> [at : {"idle", "callback", "notifying"}, notifies : [Dialogs -> Notifies]]]
    BY <1>3, <1>0 DEF Publish, TypeOK
  <2> QED
    BY <1>3, <1>0, <2>1, <2>2 DEF Publish, TypeOK
<1>4. ASSUME NEW p \in Publishers, NotifySubscribers(p) PROVE TypeOK'
  <2> DEFINE live == IF event.enabled THEN { d \in Dialogs : subs[d] # NoSub /\ subs[d] >= now } ELSE {}
             n == [d \in Dialogs |-> IF d \in live THEN NextNotify(d, TRUE) ELSE NoNotify]
  <2>0. /\ publisher' = [publisher EXCEPT ![p] = [at |-> "notifying", notifies |-> n]]
        /\ dialogs' = TakeCSeq(live)
        /\ live \in SUBSET Dialogs
    BY <1>4 DEF NotifySubscribers
  <2>1. n \in [Dialogs -> Notifies]
    <3> HIDE DEF live
    <3> QED BY NotifyType
  <2> HIDE DEF live, n
  <2>2. publisher' \in [Publishers -> [at : {"idle", "callback", "notifying"}, notifies : [Dialogs -> Notifies]]]
    BY <2>0, <2>1, <1>0 DEF TypeOK
  <2>3. dialogs' \in [Dialogs -> [exists : BOOLEAN, made : Made, cseq : CSeqs]]
    BY <2>0, <1>4, CSeqInBounds, TakeCSeqType DEF NotifySubscribers
  <2>4. event' \in [enabled : BOOLEAN, observed : BOOLEAN, announced : 0 .. MaxVersions]
    BY <1>4, <1>0 DEF NotifySubscribers, TypeOK
  <2> QED
    BY <1>4, <1>0, <2>2, <2>3, <2>4 DEF NotifySubscribers, TypeOK
<1>5. ASSUME NEW p \in Publishers, SendNotifies(p) PROVE TypeOK'
  <2>1. newest' \in [Dialogs -> [notify : Notifies, content : 0 .. MaxVersions]]
    BY <1>5, <1>0, NotifyType DEF SendNotifies, TypeOK
  <2>2. publisher' \in [Publishers -> [at : {"idle", "callback", "notifying"}, notifies : [Dialogs -> Notifies]]]
    BY <1>5, <1>0, NotifyType DEF SendNotifies, TypeOK
  <2> QED
    BY <1>5, <1>0, <2>1, <2>2 DEF SendNotifies, TypeOK
<1>6. ASSUME GetNotifyDialogInfo PROVE TypeOK'
  <2>1. server.dialog \in Dialogs
    BY <1>0 DEF TypeOK
  <2>2. dialogs' \in [Dialogs -> [exists : BOOLEAN, made : Made, cseq : CSeqs]]
    <3>1. dialogs' = TakeCSeq({server.dialog}) \/ dialogs' = dialogs
      BY <1>6 DEF GetNotifyDialogInfo
    <3>2. TakeCSeq({server.dialog}) \in [Dialogs -> [exists : BOOLEAN, made : Made, cseq : CSeqs]]
      BY <1>6, <2>1, CSeqInBounds, TakeCSeqType DEF GetNotifyDialogInfo
    <3> QED
      BY <3>1, <3>2, <1>0 DEF TypeOK
  <2>3. server' \in [at : {"idle", "subscribed", "notifying", "ended"}, dialog : Dialogs, notify : Notifies]
    <3>1. (subs[server.dialog] > now) \in BOOLEAN
      OBVIOUS
    <3>2. NextNotify(server.dialog, subs[server.dialog] > now) \in Notifies
      BY <2>1, <3>1, NotifyType
    <3> QED
      BY <1>6, <1>0, <3>2, NotifyType DEF GetNotifyDialogInfo, TypeOK
  <2> QED
    BY <1>6, <1>0, <2>2, <2>3 DEF GetNotifyDialogInfo, TypeOK
<1>7. ASSUME SendSubscribed PROVE TypeOK'
  <2>1. newest' \in [Dialogs -> [notify : Notifies, content : 0 .. MaxVersions]]
    <3>1. [d \in Dialogs |-> IF d = server.dialog THEN server.notify ELSE NoNotify] \in [Dialogs -> Notifies]
      BY <1>0, NotifyType DEF TypeOK
    <3> QED
      BY <1>7, <3>1, NotifyType DEF SendSubscribed
  <2>2. server' \in [at : {"idle", "subscribed", "notifying", "ended"}, dialog : Dialogs, notify : Notifies]
    BY <1>7, <1>0, NotifyType DEF SendSubscribed, TypeOK
  <2> QED
    BY <1>7, <1>0, <2>1, <2>2 DEF SendSubscribed, TypeOK
<1>8. ASSUME DeleteDialog PROVE TypeOK'
  BY <1>8, <1>0 DEF DeleteDialog, TypeOK
<1>9. ASSUME EnableEventType \/ SetContentChangeObserver \/ DisableEventType PROVE TypeOK'
  BY <1>9, <1>0 DEF EnableEventType, SetContentChangeObserver, DisableEventType, TypeOK
<1>10. ASSUME LockForWrite \/ Tick PROVE TypeOK'
  BY <1>10, <1>0, ConstantsAssumption DEF LockForWrite, Tick, TypeOK
<1>11. ASSUME RemoveOldSubscriptions PROVE TypeOK'
  BY <1>11, <1>0 DEF RemoveOldSubscriptions, TypeOK, Dates
<1>12. CASE UNCHANGED vars
  BY <1>12, <1>0 DEF vars, TypeOK
<1> QED
  BY <1>1, <1>2, <1>3, <1>4, <1>5, <1>6, <1>7, <1>8, <1>9, <1>10, <1>11, <1>12
     DEF Next, PublisherNext, ServerNext, AdminNext

LEMMA AloneStep == ServerInv /\ [Next]_vars => Alone'
<1> SUFFICES ASSUME ServerInv, [Next]_vars PROVE Alone'
  OBVIOUS
<1> USE DEF ServerInv, TypeOK, Alone
<1>1. ASSUME NEW p \in Publishers, Publish(p) PROVE Alone'
  BY <1>1 DEF Publish, ContentUnlocked
<1>2. ASSUME NEW p \in Publishers, NotifySubscribers(p) PROVE Alone'
  BY <1>2 DEF NotifySubscribers
<1>3. ASSUME NEW p \in Publishers, SendNotifies(p) PROVE Alone'
  BY <1>3 DEF SendNotifies
<1>4. ASSUME UNCHANGED publisher PROVE Alone'
  BY <1>4
<1> QED
  BY <1>1, <1>2, <1>3, <1>4
     DEF Next, PublisherNext, ServerNext, AdminNext, HandleSubscribe, EndSubscription,
         GetNotifyDialogInfo, SendSubscribed, DeleteDialog, EnableEventType,
         SetContentChangeObserver, DisableEventType, LockForWrite, RemoveOldSubscriptions,
         Tick, vars

LEMMA DialogsStep ==
  ServerInv /\ [Next]_vars => DialogsMade' /\ SubscriptionHasDialog' /\ EndedHasNoSub'
<1> SUFFICES ASSUME ServerInv, [Next]_vars
             PROVE  DialogsMade' /\ SubscriptionHasDialog' /\ EndedHasNoSub'
  OBVIOUS
<1> DEFINE Goal == DialogsMade /\ SubscriptionHasDialog /\ EndedHasNoSub
<1> SUFFICES Goal'
  OBVIOUS
<1> USE ConstantsAssumption
    DEF ServerInv, TypeOK, DialogsMade, SubscriptionHasDialog, EndedHasNoSub, Made
<1>1. ASSUME NEW d \in Dialogs, NEW e \in {0, Duration}, HandleSubscribe(d, e) PROVE Goal'
  BY <1>1 DEF HandleSubscribe, updateDialogInfo
<1>2. ASSUME NEW d \in Dialogs, EndSubscription(d) PROVE Goal'
  BY <1>2 DEF EndSubscription
<1>3. ASSUME NEW p \in Publishers, Publish(p) \/ SendNotifies(p) PROVE Goal'
  BY <1>3 DEF Publish, SendNotifies
<1>4. ASSUME NEW p \in Publishers, NotifySubscribers(p) PROVE Goal'
  BY <1>4 DEF NotifySubscribers, TakeCSeq
<1>5. ASSUME GetNotifyDialogInfo PROVE Goal'
  BY <1>5 DEF GetNotifyDialogInfo, TakeCSeq
<1>6. ASSUME SendSubscribed PROVE Goal'
  BY <1>6 DEF SendSubscribed
<1>7. ASSUME DeleteDialog PROVE Goal'
  BY <1>7 DEF DeleteDialog
<1>8. ASSUME AdminNext \/ LockForWrite \/ Tick PROVE Goal'
  BY <1>8 DEF AdminNext, EnableEventType, SetContentChangeObserver, DisableEventType,
              LockForWrite, Tick
<1>9. ASSUME RemoveOldSubscriptions PROVE Goal'
  BY <1>9 DEF RemoveOldSubscriptions
<1>10. CASE UNCHANGED vars
  BY <1>10 DEF vars
<1> HIDE DEF Goal
<1> QED
  BY <1>1, <1>2, <1>3, <1>4, <1>5, <1>6, <1>7, <1>8, <1>9, <1>10
     DEF Next, PublisherNext, ServerNext

LEMMA CountedStep == ServerInv /\ [Next]_vars => CSeqsCounted' /\ Counted'
<1> SUFFICES ASSUME ServerInv, [Next]_vars PROVE CSeqsCounted' /\ Counted'
  OBVIOUS
<1> DEFINE Goal == CSeqsCounted /\ Counted
<1> SUFFICES Goal'
  OBVIOUS
<1>0. TypeOK /\ Alone /\ CSeqsCounted /\ Counted
  BY DEF ServerInv
<1>t. /\ content \in Nat /\ count.subscribes \in Nat /\ event.announced \in Nat
      /\ \A d \in Dialogs : dialogs[d].cseq \in Nat
  BY <1>0, ConstantsAssumption DEF TypeOK, CSeqs
<1> USE DEF CSeqsCounted, Counted, Answered, Told
<1>1. ASSUME NEW d \in Dialogs, NEW e \in {0, Duration}, HandleSubscribe(d, e) PROVE Goal'
  BY <1>0, <1>t, <1>1 DEF HandleSubscribe, updateDialogInfo, TypeOK
<1>2. ASSUME NEW d \in Dialogs, EndSubscription(d) PROVE Goal'
  BY <1>0, <1>t, <1>2 DEF EndSubscription, TypeOK
<1>3. ASSUME NEW p \in Publishers, Publish(p) PROVE Goal'
  <2>1. /\ content' = content + 1
        /\ \A q \in Publishers : publisher[q].at = "idle"
        /\ UNCHANGED <<event, dialogs, server, count>>
    BY <1>3 DEF Publish, ContentUnlocked
  <2> QED
    BY <1>0, <1>t, <2>1
<1>4. ASSUME NEW p \in Publishers, NotifySubscribers(p) PROVE Goal'
  <2>1. /\ publisher[p].at = "callback"
        /\ \A q \in Publishers : publisher'[q].at # "callback"
        /\ UNCHANGED <<content, server, count>>
        /\ event'.announced \in {event.announced, content}
    BY <1>0, <1>4 DEF NotifySubscribers, TypeOK, Alone
  <2>2. \A d \in Dialogs : dialogs'[d].cseq <= dialogs[d].cseq + 1
    BY <1>0, <1>t, <1>4 DEF NotifySubscribers, TakeCSeq, TypeOK
  <2>3. \A d \in Dialogs : dialogs'[d].cseq \in Nat
    BY <1>0, <1>t, <1>4 DEF NotifySubscribers, TakeCSeq, TypeOK
  <2> QED
    BY <1>0, <1>t, <2>1, <2>2, <2>3
<1>5. ASSUME NEW p \in Publishers, SendNotifies(p) PROVE Goal'
  <2>1. /\ \A q \in Publishers : publisher[q].at # "callback" /\ publisher'[q].at # "callback"
        /\ UNCHANGED <<content, event, dialogs, server, count>>
    BY <1>0, <1>5 DEF SendNotifies, TypeOK, Alone
  <2> QED
    BY <1>0, <1>t, <2>1
<1>6. ASSUME GetNotifyDialogInfo PROVE Goal'
  <2>1. /\ server.at = "subscribed" /\ server'.at = "notifying"
        /\ UNCHANGED <<content, event, publisher, count>>
    BY <1>0, <1>6 DEF GetNotifyDialogInfo, TypeOK
  <2>2. \A d \in Dialogs : dialogs'[d].cseq <= dialogs[d].cseq + 1 /\ dialogs'[d].cseq \in Nat
    BY <1>0, <1>t, <1>6 DEF GetNotifyDialogInfo, TakeCSeq, TypeOK
  <2> QED
    BY <1>0, <1>t, <2>1, <2>2
<1>7. ASSUME SendSubscribed PROVE Goal'
  BY <1>0, <1>t, <1>7 DEF SendSubscribed, TypeOK
<1>8. ASSUME DeleteDialog PROVE Goal'
  BY <1>0, <1>t, <1>8 DEF DeleteDialog, TypeOK
<1>9. ASSUME AdminNext \/ LockForWrite \/ Tick PROVE Goal'
  BY <1>0, <1>t, <1>9 DEF AdminNext, EnableEventType, SetContentChangeObserver, DisableEventType,
                          LockForWrite, Tick, TypeOK
<1>10. ASSUME RemoveOldSubscriptions PROVE Goal'
  BY <1>0, <1>t, <1>10 DEF RemoveOldSubscriptions, TypeOK
<1>11. CASE UNCHANGED vars
  BY <1>0, <1>11 DEF vars
<1> HIDE DEF Goal
<1> QED
  BY <1>1, <1>2, <1>3, <1>4, <1>5, <1>6, <1>7, <1>8, <1>9, <1>10, <1>11
     DEF Next, PublisherNext, ServerNext

LEMMA ServerInvStep == ServerInv /\ [Next]_vars => ServerInv'
BY TypeStep, AloneStep, DialogsStep, CountedStep DEF ServerInv

LEMMA ServerInvHolds == Spec => []ServerInv
BY ServerInvInit, ServerInvStep, PTL DEF Spec

\* CSeqs, dates and counters stay within what the SUBSCRIBEs and publications so
\* far allow, and the threads are where the code has a place for them.
THEOREM TypeCorrect == Spec => []TypeOK
BY ServerInvHolds, PTL DEF ServerInv

\* A subscription that a publisher can find has its dialog, also between the two
\* critical sections of endSubscription() and beside the clean-up.
THEOREM HasDialog == Spec => []SubscriptionHasDialog
BY ServerInvHolds, PTL DEF ServerInv

-----------------------------------------------------------------------------
(* No change is lost.  Whatever is not yet known is prepared by a publisher *)
(* or by the server task, and what they send is newer than what was sent.   *)

\* m is a NOTIFY of the dialog d, for which a CSeq was taken.
TakenFrom(m, d) ==
    m # NoNotify =>
        /\ m.made > 0 /\ m.made <= dialogs[d].made
        /\ m.made = dialogs[d].made => m.cseq < dialogs[d].cseq

\* CSeqs only grow: what was sent and what is prepared took its CSeq before.
NotifiesTaken ==
    /\ \A d \in Dialogs : TakenFrom(newest[d].notify, d)
    /\ server.at = "notifying" => TakenFrom(server.notify, server.dialog)
    /\ \A p \in Publishers, d \in Dialogs :
         publisher[p].at = "notifying" => TakenFrom(publisher[p].notifies[d], d)

\* A publisher sends its NOTIFYs before any later one is sent.
After(m, n) == m.made > n.made \/ (m.made = n.made /\ m.cseq > n.cseq)

NotifiesNew ==
    \A p \in Publishers, d \in Dialogs :
        publisher[p].at = "notifying" /\ publisher[p].notifies[d] # NoNotify =>
            /\ After(publisher[p].notifies[d], newest[d].notify)
            /\ publisher[p].notifies[d].active

\* A publisher or the server task is about to tell the subscriber of d.
Prepared(d) ==
    \E p \in Publishers :
        /\ publisher[p].at = "notifying"
        /\ publisher[p].notifies[d] # NoNotify
        /\ publisher[p].notifies[d].made = dialogs[d].made

AnswerReady(d) ==
    /\ server.notify # NoNotify
    /\ server.notify.made = dialogs[d].made
    /\ subs[d] > now => server.notify.active
    /\ Newer(server.notify, newest[d].notify) \/ UpToDate(d) \/ Prepared(d)

Busy(d) == server.dialog = d /\ server.at \in {"subscribed", "notifying"}

NoneLost ==
    \A d \in Dialogs : Live(d) =>
        IF server.dialog = d /\ server.at = "notifying"
        THEN AnswerReady(d)
        ELSE UpToDate(d) \/ Prepared(d) \/ Busy(d)

NotifyInv == NotifiesTaken /\ NotifiesNew /\ NoneLost

LEMMA NotifyInvInit == Init => NotifyInv
BY DEF Init, NotifyInv, NotifiesTaken, NotifiesNew, NoneLost, Live, TakenFrom

LEMMA TakenStep == ServerInv /\ NotifyInv /\ [Next]_vars => NotifiesTaken'
<1> SUFFICES ASSUME ServerInv, NotifyInv, [Next]_vars PROVE NotifiesTaken'
  OBVIOUS
<1>0. TypeOK /\ NotifiesTaken
  BY DEF ServerInv, NotifyInv
<1>t. /\ \A d \in Dialogs : dialogs[d].made \in Nat /\ dialogs[d].cseq \in Nat
      /\ \A n \in Notifies : n.made \in Nat /\ n.cseq \in Nat
      /\ \A d \in Dialogs : newest[d].notify \in Notifies
      /\ server.notify \in Notifies /\ server.dialog \in Dialogs
      /\ \A p \in Publishers, d \in Dialogs : publisher[p].notifies[d] \in Notifies
  BY <1>0 DEF TypeOK, Notifies, Made, CSeqs
\* A dialog only moves on to later CSeqs.
<1>d. ASSUME \A d \in Dialogs :
               \/ dialogs'[d].made > dialogs[d].made
               \/ dialogs'[d].made = dialogs[d].made /\ dialogs'[d].cseq >= dialogs[d].cseq,
             \A d \in Dialogs : dialogs'[d].made \in Nat /\ dialogs'[d].cseq \in Nat
      PROVE  \A d \in Dialogs, m \in Notifies : TakenFrom(m, d) => TakenFrom(m, d)'
  BY <1>d, <1>t DEF TakenFrom
<1>1. ASSUME NEW d \in Dialogs, NEW e \in {0, Duration}, HandleSubscribe(d, e) PROVE NotifiesTaken'
  <2>1. \A c \in Dialogs, m \in Notifies : TakenFrom(m, c) => TakenFrom(m, c)'
    <3>1. \A c \in Dialogs : /\ \/ dialogs'[c].made > dialogs[c].made
                                \/ dialogs'[c].made = dialogs[c].made /\ dialogs'[c].cseq >= dialogs[c].cseq
                             /\ dialogs'[c].made \in Nat /\ dialogs'[c].cseq \in Nat
      BY <1>1, <1>0, <1>t DEF HandleSubscribe, updateDialogInfo, TypeOK
    <3> QED
      BY <3>1, <1>d
  <2>2. UNCHANGED <<newest, publisher>> /\ server'.at = "subscribed"
    BY <1>1 DEF HandleSubscribe
  <2> QED
    BY <2>1, <2>2, <1>0, <1>t DEF NotifiesTaken
<1>2. ASSUME NEW p \in Publishers, NotifySubscribers(p) PROVE NotifiesTaken'
  <2>1. \A c \in Dialogs : /\ dialogs'[c].made = dialogs[c].made
                           /\ dialogs'[c].cseq >= dialogs[c].cseq
                           /\ dialogs'[c].cseq \in Nat
    BY <1>2, <1>0, <1>t DEF NotifySubscribers, TakeCSeq, TypeOK
  <2>2. \A c \in Dialogs, m \in Notifies : TakenFrom(m, c) => TakenFrom(m, c)'
    BY <2>1, <1>d, <1>t
  <2>3. UNCHANGED <<newest, server>>
    BY <1>2 DEF NotifySubscribers
  <2>4. ASSUME NEW q \in Publishers, NEW c \in Dialogs, publisher'[q].at = "notifying"
        PROVE  TakenFrom(publisher[q].notifies[c], c)'
    <3>1. CASE q = p
      <4>1. publisher'[p].notifies[c] = NoNotify
            \/ /\ publisher'[p].notifies[c] = NextNotify(c, TRUE)
               /\ subs[c] # NoSub
               /\ dialogs'[c].cseq = dialogs[c].cseq + 1
        BY <1>2, <1>0, <1>t DEF NotifySubscribers, TakeCSeq, TypeOK
      <4>2. subs[c] # NoSub => dialogs[c].made > 0
        BY DEF ServerInv, SubscriptionHasDialog, DialogsMade
      <4> QED
        BY <4>1, <4>2, <2>1, <1>t, <3>1 DEF TakenFrom, NextNotify
    <3>2. CASE q # p
      <4>1. publisher'[q] = publisher[q]
        BY <1>2, <3>2, <1>0 DEF NotifySubscribers, TypeOK
      <4> QED
        BY <4>1, <2>2, <2>4, <1>0, <1>t DEF NotifiesTaken
    <3> QED
      BY <3>1, <3>2
  <2> QED
    BY <2>2, <2>3, <2>4, <1>0, <1>t DEF NotifiesTaken
<1>3. ASSUME NEW p \in Publishers, SendNotifies(p) PROVE NotifiesTaken'
  <2>1. UNCHANGED <<dialogs, server>> /\ publisher[p].at = "notifying"
    BY <1>3 DEF SendNotifies
  <2>2. \A q \in Publishers : publisher'[q].at = "notifying" => publisher'[q] = publisher[q]
    BY <1>3, <1>0 DEF SendNotifies, TypeOK
  <2>3. \A d \in Dialogs : newest'[d].notify \in {newest[d].notify, publisher[p].notifies[d]}
    BY <1>3, <1>0 DEF SendNotifies, Known, TypeOK
  <2> QED
    BY <2>1, <2>2, <2>3, <1>0 DEF NotifiesTaken, TakenFrom
<1>4. ASSUME GetNotifyDialogInfo PROVE NotifiesTaken'
  <2>1. \A c \in Dialogs : /\ dialogs'[c].made = dialogs[c].made
                           /\ dialogs'[c].cseq >= dialogs[c].cseq
                           /\ dialogs'[c].cseq \in Nat
    BY <1>4, <1>0, <1>t DEF GetNotifyDialogInfo, TakeCSeq, TypeOK
  <2>2. \A c \in Dialogs, m \in Notifies : TakenFrom(m, c) => TakenFrom(m, c)'
    BY <2>1, <1>d, <1>t
  <2>3. UNCHANGED <<newest, publisher>> /\ server'.dialog = server.dialog
    BY <1>4, <1>0 DEF GetNotifyDialogInfo, TypeOK
  <2>4. TakenFrom(server.notify, server.dialog)'
    <3> DEFINE c == server.dialog
    <3>1. server'.notify = NoNotify
          \/ /\ server'.notify = NextNotify(c, subs[c] > now)
             /\ subs[c] # NoSub
             /\ dialogs'[c].cseq = dialogs[c].cseq + 1
      BY <1>4, <1>0, <1>t DEF GetNotifyDialogInfo, TakeCSeq, TypeOK
    <3>2. subs[c] # NoSub => dialogs[c].made > 0
      BY <1>t DEF ServerInv, SubscriptionHasDialog, DialogsMade
    <3> QED
      BY <3>1, <3>2, <2>1, <2>3, <1>t DEF TakenFrom, NextNotify
  <2> QED
    BY <2>2, <2>3, <2>4, <1>0, <1>t DEF NotifiesTaken
<1>5. ASSUME SendSubscribed PROVE NotifiesTaken'
  <2>1. UNCHANGED <<dialogs, publisher>> /\ server.at = "notifying" /\ server'.at = "idle"
    BY <1>5, <1>0 DEF SendSubscribed, TypeOK
  <2>2. \A d \in Dialogs :
          \/ newest'[d].notify = newest[d].notify
          \/ d = server.dialog /\ newest'[d].notify = server.notify
    BY <1>5, <1>0 DEF SendSubscribed, Known, TypeOK
  <2> QED
    BY <2>1, <2>2, <1>0 DEF NotifiesTaken, TakenFrom
<1>6. ASSUME /\ UNCHANGED newest
             /\ \A d \in Dialogs : /\ dialogs'[d].made = dialogs[d].made
                                   /\ dialogs'[d].cseq = dialogs[d].cseq
             /\ server'.at = "notifying" => server' = server
             /\ \A p \in Publishers : publisher'[p].at = "notifying" => publisher'[p] = publisher[p]
      PROVE  NotifiesTaken'
  BY <1>6, <1>0, <1>t DEF NotifiesTaken, TakenFrom
<1>7. ASSUME NEW d \in Dialogs, EndSubscription(d) PROVE NotifiesTaken'
  BY <1>7, <1>6, <1>0 DEF EndSubscription, TypeOK
<1>8. ASSUME NEW p \in Publishers, Publish(p) PROVE NotifiesTaken'
  BY <1>8, <1>6, <1>0 DEF Publish, TypeOK
<1>9. ASSUME DeleteDialog PROVE NotifiesTaken'
  BY <1>9, <1>6, <1>0, <1>t DEF DeleteDialog, TypeOK
<1>10. ASSUME AdminNext \/ LockForWrite \/ Tick PROVE NotifiesTaken'
  BY <1>10, <1>6 DEF AdminNext, EnableEventType, SetContentChangeObserver, DisableEventType,
                     LockForWrite, Tick
<1>11. ASSUME RemoveOldSubscriptions PROVE NotifiesTaken'
  BY <1>11, <1>6, <1>0 DEF RemoveOldSubscriptions, TypeOK
<1>12. CASE UNCHANGED vars
  BY <1>12, <1>6 DEF vars
<1> QED
  BY <1>1, <1>2, <1>3, <1>4, <1>5, <1>7, <1>8, <1>9, <1>10, <1>11, <1>12
     DEF Next, PublisherNext, ServerNext

LEMMA NewStep == ServerInv /\ NotifyInv /\ [Next]_vars => NotifiesNew'
<1> SUFFICES ASSUME ServerInv, NotifyInv, [Next]_vars PROVE NotifiesNew'
  OBVIOUS
<1>0. TypeOK /\ Alone /\ NotifiesTaken /\ NotifiesNew
  BY DEF ServerInv, NotifyInv
<1>1. ASSUME UNCHANGED newest,
             \A p \in Publishers : publisher'[p].at = "notifying" => publisher'[p] = publisher[p]
      PROVE  NotifiesNew'
  BY <1>1, <1>0 DEF NotifiesNew, After
<1>2. ASSUME NEW p \in Publishers, NotifySubscribers(p) PROVE NotifiesNew'
  <2> SUFFICES ASSUME NEW q \in Publishers, NEW d \in Dialogs,
                      publisher'[q].at = "notifying", publisher'[q].notifies[d] # NoNotify
               PROVE  /\ After(publisher'[q].notifies[d], newest[d].notify)
                      /\ publisher'[q].notifies[d].active
    BY <1>2 DEF NotifySubscribers, NotifiesNew, After
  <2>1. q = p
    BY <1>2, <1>0 DEF NotifySubscribers, TypeOK, Alone
  <2>2. publisher'[p].notifies[d] = NextNotify(d, TRUE) /\ subs[d] # NoSub
    BY <1>2, <1>0, <2>1 DEF NotifySubscribers, TypeOK
  <2>3. dialogs[d].made > 0
    BY <2>2 DEF ServerInv, SubscriptionHasDialog, DialogsMade
  <2>4. TakenFrom(newest[d].notify, d)
    BY <1>0 DEF NotifiesTaken
  <2>5. /\ newest[d].notify.made \in Nat /\ newest[d].notify.cseq \in Nat
        /\ dialogs[d].made \in Nat /\ dialogs[d].cseq \in Nat
    BY <1>0 DEF TypeOK, Notifies, Made, CSeqs
  <2>6. CASE newest[d].notify = NoNotify
    BY <2>1, <2>2, <2>3, <2>6 DEF After, NextNotify, NoNotify
  <2>7. CASE newest[d].notify # NoNotify
    BY <2>1, <2>2, <2>4, <2>5, <2>7 DEF After, NextNotify, TakenFrom
  <2> QED
    BY <2>6, <2>7
<1>3. ASSUME NEW p \in Publishers, SendNotifies(p) PROVE NotifiesNew'
  <2>1. \A q \in Publishers : publisher'[q].at # "notifying"
    BY <1>3, <1>0 DEF SendNotifies, TypeOK, Alone
  <2> QED
    BY <2>1 DEF NotifiesNew
<1>4. ASSUME SendSubscribed PROVE NotifiesNew'
  <2>1. \A q \in Publishers : publisher'[q].at # "notifying"
    BY <1>4 DEF SendSubscribed, ContentUnlocked
  <2> QED
    BY <2>1 DEF NotifiesNew
<1>5. ASSUME NEW p \in Publishers, Publish(p) PROVE NotifiesNew'
  BY <1>5, <1>1, <1>0 DEF Publish, TypeOK
<1>6. ASSUME UNCHANGED <<newest, publisher>> PROVE NotifiesNew'
  BY <1>6, <1>1
<1> QED
  BY <1>2, <1>3, <1>4, <1>5, <1>6
     DEF Next, PublisherNext, ServerNext, AdminNext, HandleSubscribe, EndSubscription,
         GetNotifyDialogInfo, DeleteDialog, EnableEventType, SetContentChangeObserver,
         DisableEventType, LockForWrite, RemoveOldSubscriptions, Tick, vars

LEMMA NoneLostStep == ServerInv /\ NotifyInv /\ [Next]_vars => NoneLost'
<1> SUFFICES ASSUME ServerInv, NotifyInv, [Next]_vars, NEW d \in Dialogs, Live(d)'
             PROVE  (IF server.dialog = d /\ server.at = "notifying"
                     THEN AnswerReady(d)
                     ELSE UpToDate(d) \/ Prepared(d) \/ Busy(d))'
  BY DEF NoneLost
<1> DEFINE Goal == IF server.dialog = d /\ server.at = "notifying"
                   THEN AnswerReady(d)
                   ELSE UpToDate(d) \/ Prepared(d) \/ Busy(d)
<1> SUFFICES Goal'
  OBVIOUS
<1>0. TypeOK /\ Alone /\ Counted /\ NotifiesTaken /\ NotifiesNew
  BY DEF ServerInv, NotifyInv
<1>i. Live(d) => Goal
  BY DEF NotifyInv, NoneLost
<1>t. /\ dialogs[d].made \in Nat /\ dialogs[d].cseq \in Nat
      /\ newest[d].notify \in Notifies /\ newest[d].content \in Nat
      /\ content \in Nat /\ event.announced \in Nat
      /\ subs[d] \in Int /\ now \in Int
      /\ \A n \in Notifies : n.made \in Nat /\ n.cseq \in Nat /\ n.active \in BOOLEAN
      /\ server.notify \in Notifies /\ server.dialog \in Dialogs
      /\ \A p \in Publishers : publisher[p].notifies[d] \in Notifies
  BY <1>0, ConstantsAssumption DEF TypeOK, Notifies, Made, CSeqs, Dates, NoSub
\* Steps that leave what d is told, and how, alone.
<1>1. ASSUME /\ dialogs'[d].made = dialogs[d].made
             /\ newest'[d] = newest[d] /\ subs'[d] = subs[d]
             /\ event'.announced = event.announced
             /\ now' \in Int /\ now' >= now
             /\ server' = server \/ (~Busy(d) /\ ~Busy(d)')
             /\ \A p \in Publishers : publisher[p].at = "notifying" => publisher'[p] = publisher[p]
      PROVE  Goal'
  <2>1. Live(d)
    BY <1>1, <1>t DEF Live
  <2>2. UpToDate(d) => UpToDate(d)'
    BY <1>1, <1>t DEF UpToDate
  <2>3. Prepared(d) => Prepared(d)'
    BY <1>1 DEF Prepared
  <2>4. AnswerReady(d) /\ server' = server => AnswerReady(d)'
    BY <2>2, <2>3, <1>1, <1>t DEF AnswerReady, Newer
  <2> QED
    BY <2>1, <2>2, <2>3, <2>4, <1>1, <1>i DEF Busy
<1>2. ASSUME NEW c \in Dialogs, NEW e \in {0, Duration}, HandleSubscribe(c, e) PROVE Goal'
  <2>1. CASE c = d
    BY <2>1, <1>2 DEF HandleSubscribe, Busy
  <2>2. CASE c # d
    BY <2>2, <1>2, <1>1, <1>0, <1>t DEF HandleSubscribe, updateDialogInfo, TypeOK, Busy
  <2> QED
    BY <2>1, <2>2
<1>3. ASSUME NEW c \in Dialogs, EndSubscription(c) PROVE Goal'
  <2>1. c # d
    BY <1>3, <1>0 DEF EndSubscription, TypeOK, Live
  <2> QED
    BY <2>1, <1>3, <1>1, <1>t DEF EndSubscription, Busy
<1>4. ASSUME NEW p \in Publishers, Publish(p) PROVE Goal'
  BY <1>4, <1>1, <1>0, <1>t DEF Publish, TypeOK
<1>5. ASSUME NEW p \in Publishers, NotifySubscribers(p) PROVE Goal'
  <2>1. dialogs'[d].made = dialogs[d].made
    BY <1>5, <1>0 DEF NotifySubscribers, TakeCSeq, TypeOK
  <2>2. CASE event.enabled
    <3>1. publisher'[p].at = "notifying" /\ publisher'[p].notifies[d] = NextNotify(d, TRUE)
      BY <1>5, <2>2, <1>0 DEF NotifySubscribers, TypeOK, Live
    <3>2. NextNotify(d, TRUE).made = dialogs[d].made /\ NextNotify(d, TRUE) # NoNotify
      BY DEF NextNotify, NoNotify
    <3>3. Prepared(d)'
      BY <3>1, <3>2, <2>1 DEF Prepared
    <3>4. UNCHANGED <<now, subs, newest, server>>
      BY <1>5 DEF NotifySubscribers
    <3>5. AnswerReady(d) => AnswerReady(d)'
      BY <2>1, <3>3, <3>4 DEF AnswerReady
    <3> QED
      BY <3>3, <3>4, <3>5, <1>i DEF Live
  <2>3. CASE ~event.enabled
    BY <1>5, <2>1, <2>3, <1>1, <1>0, <1>t DEF NotifySubscribers, TypeOK
  <2> QED
    BY <2>2, <2>3
<1>6. ASSUME NEW p \in Publishers, SendNotifies(p) PROVE Goal'
  <2>1. /\ UNCHANGED <<now, content, event, subs, dialogs, server>>
        /\ publisher[p].at = "notifying"
        /\ newest'[d] = IF /\ publisher[p].notifies[d] # NoNotify
                           /\ Newer(publisher[p].notifies[d], newest[d].notify)
                        THEN [notify |-> publisher[p].notifies[d], content |-> content]
                        ELSE newest[d]
    BY <1>6, <1>0 DEF SendNotifies, Known, TypeOK
  <2>2. CASE publisher[p].notifies[d] # NoNotify
    <3>1. newest'[d] = [notify |-> publisher[p].notifies[d], content |-> content]
      BY <2>1, <2>2, <1>0, <1>t DEF NotifiesNew, After, Newer
    <3>2. publisher[p].notifies[d].active
      BY <2>1, <2>2, <1>0 DEF NotifiesNew
    <3>3. CASE publisher[p].notifies[d].made = dialogs[d].made
      <4>1. UpToDate(d)'
        BY <2>1, <3>1, <3>2, <3>3, <1>0, <1>t DEF UpToDate, Counted
      <4>2. AnswerReady(d) => AnswerReady(d)'
        BY <2>1, <4>1 DEF AnswerReady
      <4> QED
        BY <2>1, <4>1, <4>2, <1>i DEF Live
    <3>4. CASE publisher[p].notifies[d].made # dialogs[d].made
      <4>1. ~Prepared(d)
        BY <2>1, <3>4, <1>0 DEF Prepared, Alone
      <4>2. publisher[p].notifies[d].made < dialogs[d].made
        BY <2>1, <2>2, <3>4, <1>0, <1>t DEF NotifiesTaken, TakenFrom
      <4>3. newest[d].notify.made <= publisher[p].notifies[d].made
        BY <2>1, <2>2, <1>0, <1>t DEF NotifiesNew, After
      <4>4. ~UpToDate(d)
        BY <4>2, <4>3, <1>t DEF UpToDate
      <4>5. AnswerReady(d) => AnswerReady(d)'
        BY <2>1, <3>1, <4>2, <1>t DEF AnswerReady, Newer
      <4> QED
        BY <4>1, <4>4, <4>5, <2>1, <1>i DEF Busy, Live
    <3> QED
      BY <3>3, <3>4
  <2>3. CASE publisher[p].notifies[d] = NoNotify
    <3>1. ~Prepared(d)
      BY <2>1, <2>3, <1>0 DEF Prepared, Alone
    <3>2. newest'[d] = newest[d]
      BY <2>1, <2>3
    <3>3. UpToDate(d) => UpToDate(d)'
      BY <2>1, <3>2 DEF UpToDate
    <3>4. AnswerReady(d) => AnswerReady(d)'
      BY <2>1, <3>1, <3>2, <3>3 DEF AnswerReady, Newer
    <3> QED
      BY <3>1, <3>3, <3>4, <1>i, <2>1 DEF Live, Busy
  <2> QED
    BY <2>2, <2>3
<1>7. ASSUME GetNotifyDialogInfo PROVE Goal'
  <2>1. /\ UNCHANGED <<now, content, event, subs, newest, publisher>>
        /\ dialogs'[d].made = dialogs[d].made
        /\ server.at = "subscribed"
    BY <1>7, <1>0 DEF GetNotifyDialogInfo, TakeCSeq, TypeOK
  <2>2. CASE server.dialog = d
    <3>1. /\ server'.dialog = d /\ server'.at = "notifying"
          /\ server'.notify = NextNotify(d, subs[d] > now)
      BY <1>7, <1>0, <2>1, <2>2 DEF GetNotifyDialogInfo, TypeOK, Live
    <3>2. dialogs[d].made > 0
      BY <2>1 DEF ServerInv, SubscriptionHasDialog, DialogsMade, Live
    <3>3. Newer(NextNotify(d, subs[d] > now), newest[d].notify)
      <4>1. TakenFrom(newest[d].notify, d)
        BY <1>0 DEF NotifiesTaken
      <4> QED
        BY <3>2, <4>1, <1>t DEF TakenFrom, NextNotify, Newer, NoNotify
    <3>4. NextNotify(d, subs[d] > now) # NoNotify
      BY <3>2 DEF NextNotify, NoNotify
    <3>5. /\ NextNotify(d, subs[d] > now).made = dialogs[d].made
          /\ NextNotify(d, subs[d] > now).active = (subs[d] > now)
      BY DEF NextNotify
    <3>6. Newer(server.notify, newest[d].notify)'
      BY <2>1, <3>1, <3>3 DEF Newer
    <3>7. AnswerReady(d)'
      BY <2>1, <3>1, <3>4, <3>5, <3>6 DEF AnswerReady
    <3> QED
      BY <3>1, <3>7
  <2>3. CASE server.dialog # d
    <3>1. server'.dialog = server.dialog
      BY <1>7, <1>0 DEF GetNotifyDialogInfo, TypeOK
    <3> QED
      BY <2>1, <2>3, <3>1, <1>1, <1>t DEF Busy
  <2> QED
    BY <2>2, <2>3
<1>8. ASSUME SendSubscribed PROVE Goal'
  <2>1. /\ UNCHANGED <<now, content, event, subs, dialogs, publisher>>
        /\ server.at = "notifying"
        /\ \A p \in Publishers : publisher[p].at = "idle"
    BY <1>8 DEF SendSubscribed, ContentUnlocked
  <2>2. ~Prepared(d)
    BY <2>1 DEF Prepared
  <2>3. CASE server.dialog = d
    <3>1. newest'[d] = IF server.notify # NoNotify /\ Newer(server.notify, newest[d].notify)
                       THEN [notify |-> server.notify, content |-> content]
                       ELSE newest[d]
      BY <1>8, <2>3, <1>0 DEF SendSubscribed, Known, TypeOK
    <3>2. AnswerReady(d) => UpToDate(d)'
      BY <2>1, <2>2, <3>1, <1>0, <1>t DEF AnswerReady, UpToDate, Counted
    <3>3. AnswerReady(d)
      BY <2>1, <2>3, <1>i DEF Live
    <3> QED
      BY <1>8, <3>2, <3>3, <1>0 DEF SendSubscribed, TypeOK
  <2>4. CASE server.dialog # d
    <3>1. newest'[d] = newest[d]
      BY <1>8, <2>4, <1>0 DEF SendSubscribed, Known, TypeOK
    <3>2. server'.dialog = server.dialog
      BY <1>8, <1>0 DEF SendSubscribed, TypeOK
    <3> QED
      BY <2>1, <2>4, <3>1, <3>2, <1>1, <1>t DEF Busy
  <2> QED
    BY <2>3, <2>4
<1>9. ASSUME DeleteDialog PROVE Goal'
  BY <1>9, <1>1, <1>0, <1>t DEF DeleteDialog, TypeOK, Busy
<1>10. ASSUME AdminNext \/ LockForWrite PROVE Goal'
  BY <1>10, <1>1, <1>0, <1>t DEF AdminNext, EnableEventType, SetContentChangeObserver,
                                 DisableEventType, LockForWrite, TypeOK
<1>11. ASSUME Tick PROVE Goal'
  BY <1>11, <1>1, <1>t DEF Tick
<1>12. ASSUME RemoveOldSubscriptions PROVE Goal'
  <2>1. subs'[d] = subs[d]
    BY <1>12, <1>0 DEF RemoveOldSubscriptions, TypeOK, Live
  <2> QED
    BY <1>12, <2>1, <1>1, <1>0, <1>t DEF RemoveOldSubscriptions, TypeOK
<1>13. CASE UNCHANGED vars
  BY <1>13, <1>1, <1>t DEF vars
<1> HIDE DEF Goal
<1> QED
  BY <1>2, <1>3, <1>4, <1>5, <1>6, <1>7, <1>8, <1>9, <1>10, <1>11, <1>12, <1>13
     DEF Next, PublisherNext, ServerNext

LEMMA NotifyInvHolds == Spec => []NotifyInv
<1>1. ServerInv /\ NotifyInv /\ [Next]_vars => NotifyInv'
  BY TakenStep, NewStep, NoneLostStep DEF NotifyInv
<1> QED
  BY ServerInvHolds, NotifyInvInit, <1>1, PTL DEF Spec

\* No change that the observer was told of is lost: when no NOTIFY is under way,
\* every subscription that is not over knows it, for any number of publishers and
\* dialogs and any interleaving with refreshes, clean-up and changes of the event type.
THEOREM NoChangeLost == Spec => []LatestContentKnown
<1>1. NotifyInv => LatestContentKnown
  BY DEF NotifyInv, NoneLost, LatestContentKnown, Quiet, ContentUnlocked, Prepared, Busy
<1> QED
  BY NotifyInvHolds, <1>1, PTL
=============================================================================
