------------------------- MODULE SipExchange_proofs -------------------------
(***************************************************************************)
(* Proofs about SipExchange, for any number of servers, any responses and   *)
(* any number of resends, whatever the network loses, repeats or reorders.  *)
(***************************************************************************)
EXTENDS SipExchange, SipTransaction_proofs

ServerRecord == [state : {LOCALLY_INITIATED, PROCEEDING, COMPLETE},
                 final : Codes \cup {NoCode}, canceled : BOOLEAN, ack : BOOLEAN,
                 failed : BOOLEAN, sent : 0 .. RESEND_TIMES]

\* What is known of a server and of what it was sent.
ServerInv ==
  /\ server \in [Branches -> ServerRecord]
  /\ answering \subseteq Branches
  \* An answer is the last thing a server does: it answers once.
  /\ \A b \in Branches : server[b].final # NoCode <=> server[b].state = COMPLETE
  \* Only an answer is sent again, and only one that was sent is.
  /\ \A b \in answering : server[b].final # NoCode /\ server[b].sent > 0

\* What the children t and the answers h that the application was given say of
\* the servers.
Agreement(t, h) ==
  \* A final response is the answer of its server.
  /\ \A b \in Branches : t[b].final # NoCode => t[b].final = server[b].final
  \* An ACK is sent for a final response, after the application heard a success.
  /\ \A b \in Branches : t[b].ack => t[b].final # NoCode
  /\ \A b \in Branches : t[b].ack /\ t[b].final = OK => \E i \in DOMAIN h : h[i] = <<OK, b>>
  \* An ACK that was received was sent.
  /\ \A b \in Branches : server[b].ack => server[b].final # NoCode /\ t[b].ack

ExchangeInv == IInv /\ ServerInv /\ Agreement(tx, heard)

\* The application hears more and more.
HeardGrows == \A i \in DOMAIN heard : i \in DOMAIN heard' /\ heard'[i] = heard[i]

\* The children u have the answers and the ACKs of t.
SameAnswers(t, u) == \A a \in Branches : u[a].final = t[a].final /\ (u[a].ack <=> t[a].ack)

\* A step of the client that is about no answer.
QuietStep == SameAnswers(tx, tx') /\ HeardGrows

LEMMA NothingHeard ==
  ASSUME UNCHANGED heard
  PROVE  HeardGrows
BY DEF HeardGrows

LEMMA OneMoreHeard ==
  ASSUME IInv, NEW e, heard' = Append(heard, e)
  PROVE  HeardGrows /\ \E i \in DOMAIN heard' : heard'[i] = e
<1>1. heard \in Seq((Codes \cup {REQUEST_TIMEOUT, SERVER_INTERNAL_ERROR}) \X (Branches \cup {Parent}))
  BY DEF IInv, TypeOK
<1>2. Len(heard) \in Nat /\ DOMAIN heard = 1 .. Len(heard)
  BY <1>1
<1>3. /\ Len(heard') = Len(heard) + 1 /\ DOMAIN heard' = 1 .. Len(heard')
      /\ heard'[Len(heard) + 1] = e
      /\ \A i \in 1 .. Len(heard) : heard'[i] = heard[i]
  BY <1>1, <1>2
<1>4. Len(heard) + 1 \in DOMAIN heard' /\ heard'[Len(heard) + 1] = e
  BY <1>2, <1>3
<1>5. HeardGrows
  BY <1>2, <1>3 DEF HeardGrows
<1> QED
  BY <1>4, <1>5

\* A search changes the state of children and what was sent of the request.
LEMMA ResultAnswers ==
  ASSUME NEW t \in Children, NEW r, SearchResult(t, r)
  PROVE  SameAnswers(t, r.tx)
<1> SUFFICES ASSUME NEW b \in Branches
             PROVE  r.tx[b].final = t[b].final /\ (r.tx[b].ack <=> t[b].ack)
  BY DEF SameAnswers
<1>1. t[b] \in Child
  BY DEF Children
<1>2. r.tx[b] \in {t[b], Started(t[b]), GivenUp(t[b])}
  BY DEF SearchResult
<1>3. /\ Started(t[b]).final = t[b].final /\ (Started(t[b]).ack <=> t[b].ack)
      /\ GivenUp(t[b]).final = t[b].final /\ (GivenUp(t[b]).ack <=> t[b].ack)
  BY <1>1 DEF Child, Started, GivenUp
<1> QED
  BY <1>2, <1>3

LEMMA SearchAnswers ==
  ASSUME IInv, NEW t \in Children, NEW canceled \in BOOLEAN, NEW others,
         SearchOn(t, canceled, others)
  PROVE  SameAnswers(t, tx') /\ HeardGrows
<1>1. PICK r \in startSequentialSearch(t, canceled) :
        /\ tx' = r.tx
        /\ heard' = heard \/ heard' = Append(heard, <<findBestResponse(r.tx), Parent>>)
  BY DEF SearchOn
<1>2. SameAnswers(t, r.tx)
  BY StartResult, ResultAnswers
<1> QED
  BY <1>1, <1>2, NothingHeard, OneMoreHeard

\* One child changes, but for its answer and its ACK.
LEMMA ChildAnswers ==
  ASSUME IInv, NEW b \in Branches, NEW c, c.final = tx[b].final, c.ack <=> tx[b].ack,
         NEW u, u = [tx EXCEPT ![b] = c]
  PROVE  SameAnswers(tx, u)
BY ChildFacts DEF SameAnswers, Children

LEMMA CancelAnswers ==
  ASSUME NEW t \in Children, NEW b \in Branches
  PROVE  cancel(t, b).final = t[b].final /\ (cancel(t, b).ack <=> t[b].ack)
<1>1. t[b] \in Child
  BY DEF Children
<1>2. \A k : LET c == [t[b] EXCEPT !.canceled = TRUE, !.cancel = k]
             IN  c.final = t[b].final /\ (c.ack <=> t[b].ack)
  BY <1>1 DEF Child
<1> QED
  BY <1>2 DEF cancel

LEMMA CancelTreeAnswers ==
  ASSUME NEW t \in Children
  PROVE  SameAnswers(t, cancelChildren(t))
BY CancelAnswers DEF SameAnswers, cancelChildren

LEMMA CallingAnswers ==
  ASSUME IInv, NEW b \in Branches, NEW s
  PROVE  SameAnswers(tx, Calling(tx, b, s))
<1> DEFINE v == IF tx[b].state = CALLING THEN s ELSE tx[b].state
           c == [tx[b] EXCEPT !.state = v]
<1>1. Calling(tx, b, s) = [tx EXCEPT ![b] = c]
  BY ChildFacts DEF Calling, Children
<1> HIDE DEF v
<1>2. c.final = tx[b].final /\ (c.ack <=> tx[b].ack)
  BY ChildFacts DEF Child
<1> HIDE DEF c
<1> QED
  BY <1>1, <1>2, ChildAnswers

-----------------------------------------------------------------------------
(* The steps of the client that are about no answer.                       *)

LEMMA QuietChild ==
  ASSUME IInv, UNCHANGED heard, NEW b \in Branches, NEW c,
         c.final = tx[b].final, c.ack <=> tx[b].ack, tx' = [tx EXCEPT ![b] = c]
  PROVE  QuietStep
BY NothingHeard, ChildAnswers DEF QuietStep

LEMMA QuietSendRequest == ASSUME IInv, SendRequest PROVE QuietStep
<1>1. PICK r \in recurseDnsSrvChildren(tx) : tx' = r.tx
  BY DEF SendRequest
<1>2. tx \in Children
  BY DEF IInv, ChildrenInv
<1>3. SameAnswers(tx, r.tx)
  BY <1>2, RecurseResult, ResultAnswers
<1> QED
  BY <1>1, <1>3, NothingHeard DEF SendRequest, QuietStep

LEMMA QuietCancelTree == ASSUME IInv, CancelTree PROVE QuietStep
<1>1. tx \in Children
  BY DEF IInv, ChildrenInv
<1> QED
  BY <1>1, CancelTreeAnswers, NothingHeard DEF CancelTree, QuietStep

LEMMA QuietCancelChild == ASSUME IInv, NEW b \in Branches, CancelChild(b) PROVE QuietStep
<1> DEFINE c == [tx[b] EXCEPT !.cancel = 1]
<1>1. tx' = [tx EXCEPT ![b] = c] /\ UNCHANGED heard
  BY DEF CancelChild
<1>2. c.final = tx[b].final /\ (c.ack <=> tx[b].ack)
  BY ChildFacts DEF Child
<1> HIDE DEF c
<1> QED
  BY <1>1, <1>2, QuietChild

LEMMA QuietReceiveProvisional ==
  ASSUME IInv, NEW b \in Branches, ReceiveProvisional(b) PROVE QuietStep
<1> DEFINE st == AtLeast(tx[b].state, PROCEEDING)
           n == IF LateCancel(b) THEN 1 ELSE tx[b].cancel
           c == [tx[b] EXCEPT !.provisional = TRUE, !.state = st, !.cancel = n]
<1>1. tx' = [tx EXCEPT ![b] = c] /\ UNCHANGED heard
  BY ChildFacts DEF ReceiveProvisional, Children, Child
<1> HIDE DEF st, n
<1>2. c.final = tx[b].final /\ (c.ack <=> tx[b].ack)
  BY ChildFacts DEF Child
<1> HIDE DEF c
<1> QED
  BY <1>1, <1>2, QuietChild

LEMMA QuietResendRequest == ASSUME IInv, NEW b \in Branches, ResendRequest(b) PROVE QuietStep
<1> DEFINE c == [tx[b] EXCEPT !.sent = tx[b].sent + 1]
<1>1. tx' = [tx EXCEPT ![b] = c] /\ UNCHANGED heard
  BY ChildFacts DEF ResendRequest, Children
<1>2. c.final = tx[b].final /\ (c.ack <=> tx[b].ack)
  BY ChildFacts DEF Child
<1> HIDE DEF c
<1> QED
  BY <1>1, <1>2, QuietChild

LEMMA QuietResendCancel == ASSUME IInv, NEW b \in Branches, ResendCancel(b) PROVE QuietStep
<1>1. UNCHANGED heard
  BY DEF ResendCancel
<1>2. CASE tx' = Calling(tx, b, COMPLETE)
  BY <1>1, <1>2, CallingAnswers, NothingHeard DEF QuietStep
<1>3. CASE tx' = [tx EXCEPT ![b].cancel = @ + 1]
  <2> DEFINE c == [tx[b] EXCEPT !.cancel = tx[b].cancel + 1]
  <2>1. tx' = [tx EXCEPT ![b] = c]
    BY <1>3, ChildFacts DEF Children
  <2>2. c.final = tx[b].final /\ (c.ack <=> tx[b].ack)
    BY ChildFacts DEF Child
  <2> HIDE DEF c
  <2> QED
    BY <1>1, <2>1, <2>2, QuietChild
<1> QED
  BY <1>2, <1>3 DEF ResendCancel

LEMMA QuietExpireCancel == ASSUME IInv, NEW b \in Branches, ExpireCancel(b) PROVE QuietStep
<1>1. UNCHANGED heard /\ (tx' = tx \/ tx' = [tx EXCEPT ![b] = cancel(tx, b)])
  BY DEF ExpireCancel
<1>2. tx \in Children
  BY DEF IInv, ChildrenInv
<1>3. CASE tx' = tx
  BY <1>1, <1>3, NothingHeard DEF QuietStep, SameAnswers
<1>4. CASE tx' = [tx EXCEPT ![b] = cancel(tx, b)]
  BY <1>1, <1>2, <1>4, CancelAnswers, QuietChild
<1> QED
  BY <1>1, <1>3, <1>4

LEMMA QuietEndResending == ASSUME IInv, NEW b \in Branches, EndResending(b) PROVE QuietStep
<1> DEFINE t == Calling(tx, b, COMPLETE)
<1>1. SearchOn(t, parent.canceled, OtherTimers(b, "resend")) /\ parent.canceled \in BOOLEAN
  BY DEF EndResending, IInv, TypeOK
<1>2. tx[b].state # LOCALLY_INITIATED
  BY TimerOwner DEF EndResending
<1>3. t \in Children
  BY <1>2, CallingChild, ChildFacts DEF Children
<1>4. SameAnswers(tx, t)
  BY CallingAnswers
<1> HIDE DEF t
<1>5. SameAnswers(t, tx') /\ HeardGrows
  BY <1>1, <1>3, SearchAnswers
<1> QED
  BY <1>4, <1>5 DEF QuietStep, SameAnswers

LEMMA QuietExpireChild == ASSUME IInv, NEW b \in Branches, ExpireChild(b) PROVE QuietStep
<1>1. PICK t \in {tx, [tx EXCEPT ![b] = cancel(tx, b)]} :
         SearchOn(t, parent.canceled, OtherTimers(b, "expires"))
  BY DEF ExpireChild
<1>2. tx \in Children /\ parent.canceled \in BOOLEAN
  BY DEF IInv, ChildrenInv, TypeOK
<1>3. t \in Children
  <2>1. cancel(tx, b) \in Child
    BY ChildFacts DEF cancel, Child
  <2> QED
    BY <1>1, <1>2, <2>1 DEF Children
<1>4. SameAnswers(tx, t)
  <2>1. SameAnswers(tx, [tx EXCEPT ![b] = cancel(tx, b)])
    BY <1>2, CancelAnswers, ChildAnswers
  <2> QED
    BY <1>1, <2>1 DEF SameAnswers
<1>5. SameAnswers(t, tx') /\ HeardGrows
  BY <1>1, <1>2, <1>3, SearchAnswers
<1> QED
  BY <1>4, <1>5 DEF QuietStep, SameAnswers

LEMMA QuietExpireParent == ASSUME IInv, ExpireParent PROVE QuietStep
<1>1. PICK t \in {tx, cancelChildren(tx)}, canceled \in BOOLEAN :
         SearchOn(t, canceled, OtherTimers(Parent, "expires"))
  BY DEF ExpireParent, IInv, TypeOK
<1>2. ChildrenInv(tx) /\ tx \in Children
  BY DEF IInv, ChildrenInv
<1>3. cancelChildren(tx) \in Children /\ SameAnswers(tx, cancelChildren(tx))
  <2>1. ChildrenInv(cancelChildren(tx))
    BY <1>2, CanceledChildren
  <2> QED
    BY <1>2, <2>1, CancelTreeAnswers DEF ChildrenInv
<1>4. t \in Children /\ SameAnswers(tx, t)
  BY <1>1, <1>2, <1>3 DEF SameAnswers
<1>5. SameAnswers(t, tx') /\ HeardGrows
  BY <1>1, <1>4, SearchAnswers
<1> QED
  BY <1>4, <1>5 DEF QuietStep, SameAnswers

-----------------------------------------------------------------------------
(* The client keeps the agreement with the servers.                        *)

LEMMA QuietAgrees ==
  ASSUME Agreement(tx, heard), QuietStep, UNCHANGED server
  PROVE  Agreement(tx, heard)'
<1>1. \A b \in Branches : tx'[b].final = tx[b].final /\ (tx'[b].ack <=> tx[b].ack)
  BY DEF QuietStep, SameAnswers
<1>2. ASSUME NEW b \in Branches, tx'[b].ack, tx'[b].final = OK
      PROVE  \E i \in DOMAIN heard' : heard'[i] = <<OK, b>>
  BY <1>1, <1>2 DEF Agreement, QuietStep, HeardGrows
<1>3. \A b \in Branches : server[b].ack => server[b].final # NoCode /\ tx'[b].ack
  BY <1>1 DEF Agreement
<1>4. \A b \in Branches : tx'[b].final # NoCode => tx'[b].final = server[b].final
  BY <1>1 DEF Agreement
<1>5. \A b \in Branches : tx'[b].ack => tx'[b].final # NoCode
  BY <1>1 DEF Agreement
<1> QED
  BY <1>2, <1>3, <1>4, <1>5 DEF Agreement

\* The ACK of a success: the application was told of it, so it was taken.
LEMMA AckAgrees ==
  ASSUME IInv, Agreement(tx, heard), UNCHANGED server, NEW b \in Branches, SendAck(b)
  PROVE  Agreement(tx, heard)'
<1> DEFINE c == [tx[b] EXCEPT !.ack = TRUE]
<1>1. tx' = [tx EXCEPT ![b] = c] /\ UNCHANGED heard
  BY DEF SendAck
<1>2. c.final = tx[b].final /\ c.ack
  BY ChildFacts DEF Child
<1> HIDE DEF c
<1>3. \A a \in Branches : /\ tx'[a].final = tx[a].final
                          /\ tx'[a].ack <=> (a = b \/ tx[a].ack)
  BY <1>1, <1>2, ChildFacts DEF Children
<1>4. PICK i \in DOMAIN heard : heard[i] = <<OK, b>>
  BY DEF SendAck
<1>5. tx[b].final = OK
  BY <1>4 DEF IInv, Heard
<1>6. ASSUME NEW a \in Branches, tx'[a].ack, tx'[a].final = OK
      PROVE  \E j \in DOMAIN heard : heard[j] = <<OK, a>>
  BY <1>3, <1>4, <1>6 DEF Agreement
<1>7. \A a \in Branches : tx'[a].ack => tx'[a].final # NoCode
  BY <1>3, <1>5, CodeValues DEF Agreement
<1>8. \A a \in Branches : tx'[a].final # NoCode => tx'[a].final = server[a].final
  BY <1>3 DEF Agreement
<1>9. \A a \in Branches : server[a].ack => server[a].final # NoCode /\ tx'[a].ack
  BY <1>3 DEF Agreement
<1> QED
  BY <1>1, <1>6, <1>7, <1>8, <1>9 DEF Agreement

\* What WithFinal() changes: a failure of an INVITE is acknowledged with it.
LEMMA FinalAnswers ==
  ASSUME IInv, NEW b \in Branches, NEW c \in Codes
  PROVE  \A a \in Branches :
           /\ WithFinal(c, b)[a].final = IF a = b THEN c ELSE tx[a].final
           /\ WithFinal(c, b)[a].ack <=> IF a = b THEN INVITE /\ c # OK ELSE tx[a].ack
<1> DEFINE st == AtLeast(tx[b].state, COMPLETE)
           k == INVITE /\ c # OK
           d == [tx[b] EXCEPT !.final = c, !.state = st, !.ack = k]
<1>1. WithFinal(c, b) = [tx EXCEPT ![b] = d]
  BY ChildFacts DEF WithFinal, Children, Child
<1> HIDE DEF st, k
<1>2. d.final = c /\ (d.ack <=> k)
  BY ChildFacts DEF Child
<1> HIDE DEF d
<1> QED
  BY <1>1, <1>2, ChildFacts DEF Children, k

\* An answer that is taken is the one its server gave; it was not taken before,
\* so nothing was acknowledged.
LEMMA AnswerAgrees ==
  ASSUME Agreement(tx, heard), UNCHANGED server, HeardGrows,
         NEW b \in Branches, NEW c \in Codes, server[b].final = c, tx[b].final = NoCode,
         c = OK => ~tx'[b].ack,
         \A a \in Branches :
           /\ tx'[a].final = IF a = b THEN c ELSE tx[a].final
           /\ a # b => (tx'[a].ack <=> tx[a].ack)
  PROVE  Agreement(tx, heard)'
<1>1. ~tx[b].ack /\ ~server[b].ack
  BY DEF Agreement
<1>2. ASSUME NEW a \in Branches, tx'[a].ack, tx'[a].final = OK
      PROVE  \E j \in DOMAIN heard' : heard'[j] = <<OK, a>>
  <2>1. a # b /\ tx[a].ack /\ tx[a].final = OK
    BY <1>2
  <2> QED
    BY <2>1 DEF Agreement, HeardGrows
<1>3. \A a \in Branches : tx'[a].ack => tx'[a].final # NoCode
  BY CodeValues DEF Agreement
<1>4. \A a \in Branches : tx'[a].final # NoCode => tx'[a].final = server[a].final
  BY DEF Agreement
<1>5. \A a \in Branches : server[a].ack => server[a].final # NoCode /\ tx'[a].ack
  BY <1>1 DEF Agreement
<1> QED
  BY <1>2, <1>3, <1>4, <1>5 DEF Agreement

LEMMA SuccessAgrees ==
  ASSUME IInv, Agreement(tx, heard), UNCHANGED server,
         NEW b \in Branches, ClientReceivesSuccess(b)
  PROVE  Agreement(tx, heard)'
<1> DEFINE t == WithFinal(OK, b)
<1>1. /\ server[b].final = OK /\ tx[b].final = NoCode /\ Sent(b)
      /\ tx' = cancelChildren(t) /\ heard' = Append(heard, <<OK, b>>)
  BY DEF ClientReceivesSuccess, ReceiveSuccess
<1>2. OK \in Codes
  BY ConstantsAssumption
<1>3. t \in Children
  BY <1>1, <1>2, FinalChildren DEF ChildrenInv
<1>4. \A a \in Branches : /\ t[a].final = IF a = b THEN OK ELSE tx[a].final
                          /\ t[a].ack <=> (a # b /\ tx[a].ack)
  BY <1>2, FinalAnswers
<1> HIDE DEF t
<1>5. SameAnswers(t, tx')
  BY <1>1, <1>3, CancelTreeAnswers
<1>6. HeardGrows
  BY <1>1, OneMoreHeard
<1> QED
  BY <1>1, <1>2, <1>4, <1>5, <1>6, AnswerAgrees DEF SameAnswers

LEMMA FailureAgrees ==
  ASSUME IInv, Agreement(tx, heard), UNCHANGED server,
         NEW b \in Branches, NEW c \in Codes, ClientReceivesFailure(c, b)
  PROVE  Agreement(tx, heard)'
<1> DEFINE t == WithFinal(c, b)
<1>1. /\ server[b].final = c /\ c # OK /\ tx[b].final = NoCode /\ Sent(b)
      /\ \/ tx' = t /\ UNCHANGED heard
         \/ SearchOn(t, parent.canceled, timers)
  BY DEF ClientReceivesFailure, ReceiveFailure
<1>2. t \in Children /\ parent.canceled \in BOOLEAN
  BY <1>1, FinalChildren DEF ChildrenInv, IInv, TypeOK
<1>3. \A a \in Branches : /\ t[a].final = IF a = b THEN c ELSE tx[a].final
                          /\ a # b => (t[a].ack <=> tx[a].ack)
  BY FinalAnswers
<1> HIDE DEF t
<1>4. SameAnswers(t, tx') /\ HeardGrows
  BY <1>1, <1>2, SearchAnswers, NothingHeard DEF SameAnswers
<1> QED
  BY <1>1, <1>3, <1>4, AnswerAgrees DEF SameAnswers

LEMMA ClientAgrees ==
  ASSUME IInv, Agreement(tx, heard), UNCHANGED server, ClientNext
  PROVE  Agreement(tx, heard)'
<1>1. CASE SendRequest \/ CancelTree \/ ExpireParent
  BY <1>1, QuietSendRequest, QuietCancelTree, QuietExpireParent, QuietAgrees
<1>2. ASSUME NEW b \in Branches,
             \/ CancelChild(b) \/ ClientReceivesProvisional(b)
             \/ ResendRequest(b) \/ EndResending(b) \/ ExpireChild(b)
             \/ ResendCancel(b) \/ ExpireCancel(b)
      PROVE  Agreement(tx, heard)'
  <2>1. QuietStep
    BY <1>2, QuietCancelChild, QuietReceiveProvisional, QuietResendRequest, QuietEndResending,
       QuietExpireChild, QuietResendCancel, QuietExpireCancel DEF ClientReceivesProvisional
  <2> QED
    BY <2>1, QuietAgrees
<1>3. ASSUME NEW b \in Branches, SendAck(b) PROVE Agreement(tx, heard)'
  BY <1>3, AckAgrees
<1>4. ASSUME NEW b \in Branches, ClientReceivesSuccess(b) PROVE Agreement(tx, heard)'
  BY <1>4, SuccessAgrees
<1>5. ASSUME NEW b \in Branches, NEW c \in Codes, ClientReceivesFailure(c, b)
      PROVE  Agreement(tx, heard)'
  BY <1>5, FailureAgrees
<1> QED
  BY <1>1, <1>2, <1>3, <1>4, <1>5 DEF ClientNext

-----------------------------------------------------------------------------
(* The steps of the servers.                                               *)

LEMMA ServerStates ==
  /\ LOCALLY_INITIATED # PROCEEDING /\ LOCALLY_INITIATED # COMPLETE /\ PROCEEDING # COMPLETE
  /\ 0 \in 0 .. RESEND_TIMES /\ 1 \in 0 .. RESEND_TIMES
BY StateValues, ConstantsAssumption

\* The server of one branch changes: what that asks of its new record s.
LEMMA ServerChanges ==
  ASSUME ServerInv, Agreement(tx, heard), UNCHANGED vars,
         NEW b \in Branches, NEW s \in ServerRecord,
         server' = [server EXCEPT ![b] = s],
         s.final # NoCode <=> s.state = COMPLETE,
         server[b].final # NoCode => s.final = server[b].final,
         answering' \subseteq answering \cup {b},
         b \in answering' => s.final # NoCode /\ s.sent > 0,
         s.ack => s.final # NoCode /\ tx[b].ack
  PROVE  ServerInv' /\ Agreement(tx, heard)'
<1>1. /\ server \in [Branches -> ServerRecord]
      /\ \A a \in Branches : server'[a] = IF a = b THEN s ELSE server[a]
  BY DEF ServerInv
<1>2. ServerInv'
  <2>1. server' \in [Branches -> ServerRecord] /\ answering' \subseteq Branches
    BY DEF ServerInv
  <2>2. \A a \in Branches : server'[a].final # NoCode <=> server'[a].state = COMPLETE
    BY <1>1 DEF ServerInv
  <2>3. \A a \in answering' : server'[a].final # NoCode /\ server'[a].sent > 0
    BY <1>1, <2>1 DEF ServerInv
  <2> QED
    BY <2>1, <2>2, <2>3 DEF ServerInv
<1>3. Agreement(tx, heard)'
  <2>1. \A a \in Branches : tx[a].final # NoCode => tx[a].final = server'[a].final
    BY <1>1 DEF Agreement
  <2>2. \A a \in Branches : server'[a].ack => server'[a].final # NoCode /\ tx[a].ack
    BY <1>1 DEF Agreement
  <2>3. tx' = tx /\ heard' = heard
    BY DEF vars
  <2> QED
    BY <2>1, <2>2, <2>3 DEF Agreement
<1> QED
  BY <1>2, <1>3

\* What is known of one server.
LEMMA ServerFacts ==
  ASSUME ServerInv, Agreement(tx, heard), NEW b \in Branches
  PROVE  /\ server \in [Branches -> ServerRecord] /\ server[b] \in ServerRecord
         /\ server[b].final # NoCode <=> server[b].state = COMPLETE
         /\ b \in answering => server[b].final # NoCode /\ server[b].sent > 0
         /\ server[b].ack => server[b].final # NoCode /\ tx[b].ack
BY DEF ServerInv, Agreement

LEMMA RequestKeeps ==
  ASSUME ServerInv, Agreement(tx, heard), NEW b \in Branches, ServerReceivesRequest(b)
  PROVE  ServerInv' /\ Agreement(tx, heard)'
<1> DEFINE s == [server[b] EXCEPT !.state = PROCEEDING]
<1>1. server' = [server EXCEPT ![b] = s] /\ UNCHANGED <<vars, answering>> /\ server[b].state # COMPLETE
  BY ServerStates DEF ServerReceivesRequest
<1>2. /\ s \in ServerRecord /\ s.state = PROCEEDING /\ s.final = server[b].final
      /\ s.ack <=> server[b].ack
  BY ServerFacts DEF ServerRecord
<1> HIDE DEF s
<1> QED
  BY <1>1, <1>2, ServerFacts, ServerStates, ServerChanges

LEMMA AnswerKeeps ==
  ASSUME ServerInv, Agreement(tx, heard), NEW b \in Branches, NEW c \in Codes, ServerAnswers(c, b)
  PROVE  ServerInv' /\ Agreement(tx, heard)'
<1>1. PICK sent \in {0, 1} :
        /\ server' = [server EXCEPT ![b].state = COMPLETE, ![b].final = c, ![b].sent = sent]
        /\ answering' = IF sent = 1 THEN answering \cup {b} ELSE answering
  BY DEF ServerAnswers
<1> DEFINE s == [server[b] EXCEPT !.state = COMPLETE, !.final = c, !.sent = sent]
<1>2. server' = [server EXCEPT ![b] = s]
  BY <1>1, ServerFacts
<1>3. /\ s \in ServerRecord /\ s.state = COMPLETE /\ s.final = c /\ s.sent = sent
      /\ s.ack <=> server[b].ack
  BY ServerFacts, ServerStates DEF ServerRecord
<1> HIDE DEF s
<1>4. UNCHANGED vars /\ server[b].state # COMPLETE /\ server[b].final = NoCode /\ c # NoCode
  BY ServerFacts, ServerStates, CodeValues DEF ServerAnswers, Unanswered
<1>5. b \notin answering /\ ~server[b].ack
  BY <1>4, ServerFacts
<1>6. answering' \subseteq answering \cup {b} /\ (b \in answering' => sent > 0)
  BY <1>1, <1>5
<1> QED
  BY <1>2, <1>3, <1>4, <1>5, <1>6, ServerChanges

LEMMA CancelKeeps ==
  ASSUME ServerInv, Agreement(tx, heard), NEW b \in Branches, ServerReceivesCancel(b)
  PROVE  ServerInv' /\ Agreement(tx, heard)'
<1> DEFINE s == [server[b] EXCEPT !.canceled = TRUE]
<1>1. server' = [server EXCEPT ![b] = s] /\ UNCHANGED <<vars, answering>>
  BY DEF ServerReceivesCancel
<1>2. /\ s \in ServerRecord /\ s.state = server[b].state /\ s.final = server[b].final
      /\ s.sent = server[b].sent /\ (s.ack <=> server[b].ack)
  BY ServerFacts DEF ServerRecord
<1> HIDE DEF s
<1> QED
  BY <1>1, <1>2, ServerFacts, ServerChanges

LEMMA AckKeeps ==
  ASSUME ServerInv, Agreement(tx, heard), NEW b \in Branches, ServerReceivesAck(b)
  PROVE  ServerInv' /\ Agreement(tx, heard)'
<1> DEFINE s == [server[b] EXCEPT !.ack = TRUE]
<1>1. /\ server' = [server EXCEPT ![b] = s] /\ UNCHANGED <<vars, answering>>
      /\ tx[b].ack /\ server[b].final # NoCode
  BY DEF ServerReceivesAck
<1>2. /\ s \in ServerRecord /\ s.state = server[b].state /\ s.final = server[b].final
      /\ s.sent = server[b].sent
  BY ServerFacts DEF ServerRecord
<1> HIDE DEF s
<1> QED
  BY <1>1, <1>2, ServerFacts, ServerChanges

LEMMA ResendKeeps ==
  ASSUME ServerInv, Agreement(tx, heard), NEW b \in Branches, ResendAnswer(b)
  PROVE  ServerInv' /\ Agreement(tx, heard)'
<1>1. UNCHANGED vars /\ b \in answering /\ server[b].final # NoCode /\ server[b].sent > 0
  BY ServerFacts DEF ResendAnswer
<1>2. CASE /\ server[b].sent < RESEND_TIMES
           /\ server' = [server EXCEPT ![b].sent = @ + 1]
           /\ UNCHANGED answering
  <2> DEFINE n == server[b].sent + 1
             s == [server[b] EXCEPT !.sent = n]
  <2>1. server' = [server EXCEPT ![b] = s]
    BY <1>2, ServerFacts
  <2>2. n \in 0 .. RESEND_TIMES /\ n > 0
    BY <1>2, ServerFacts, ConstantsAssumption DEF ServerRecord
  <2> HIDE DEF n
  <2>3. /\ s \in ServerRecord /\ s.state = server[b].state /\ s.final = server[b].final
        /\ s.sent = n /\ (s.ack <=> server[b].ack)
    BY <2>2, ServerFacts DEF ServerRecord
  <2> HIDE DEF s
  <2> QED
    BY <1>1, <1>2, <2>1, <2>2, <2>3, ServerFacts, ServerChanges
<1>3. CASE server' = [server EXCEPT ![b].failed = TRUE] /\ answering' = answering \ {b}
  <2> DEFINE s == [server[b] EXCEPT !.failed = TRUE]
  <2>1. /\ s \in ServerRecord /\ s.state = server[b].state /\ s.final = server[b].final
        /\ s.sent = server[b].sent /\ (s.ack <=> server[b].ack)
    BY ServerFacts DEF ServerRecord
  <2>2. server' = [server EXCEPT ![b] = s]
    BY <1>3
  <2> HIDE DEF s
  <2>3. answering' \subseteq answering \cup {b} /\ b \notin answering'
    BY <1>3
  <2>4. server[b].final # NoCode <=> server[b].state = COMPLETE
    BY ServerFacts
  <2>5. server[b].ack => server[b].final # NoCode /\ tx[b].ack
    BY ServerFacts
  <2> QED
    BY <1>1, <2>1, <2>2, <2>3, <2>4, <2>5, ServerChanges
<1>4. CASE answering' = answering \ {b} /\ UNCHANGED server
  <2>1. tx' = tx /\ heard' = heard /\ server' = server
    BY <1>1, <1>4 DEF vars
  <2>2. ServerInv'
    BY <1>4, <2>1 DEF ServerInv
  <2>3. Agreement(tx, heard)'
    BY <2>1 DEF Agreement
  <2> QED
    BY <2>2, <2>3
<1> QED
  BY <1>2, <1>3, <1>4 DEF ResendAnswer

LEMMA ServersKeep ==
  ASSUME ServerInv, Agreement(tx, heard), ServerNext
  PROVE  ServerInv' /\ Agreement(tx, heard)'
BY RequestKeeps, CancelKeeps, AckKeeps, ResendKeeps, AnswerKeeps DEF ServerNext

-----------------------------------------------------------------------------
(* The theorems.                                                           *)

LEMMA ExchangeInvInit == ExchangeInit => ExchangeInv
<1> SUFFICES ASSUME ExchangeInit PROVE ExchangeInv
  OBVIOUS
<1>1. IInv
  BY InvInit DEF ExchangeInit
<1>2. ServerInv
  BY ServerStates DEF ExchangeInit, ServerInv, ServerRecord
<1>3. Agreement(tx, heard)
  BY DEF ExchangeInit, Init, Agreement
<1> QED
  BY <1>1, <1>2, <1>3 DEF ExchangeInv

\* In every step the client is the one of SipTransaction, or is left alone.
LEMMA ClientIsTransaction == [ExchangeNext]_exchangeVars => [Next]_vars
<1> SUFFICES ASSUME [ExchangeNext]_exchangeVars PROVE [Next]_vars
  OBVIOUS
<1>1. ClientNext => Next
  BY DEF ClientNext, Next, ClientReceivesProvisional, ClientReceivesSuccess, ClientReceivesFailure
<1>2. ServerNext => UNCHANGED vars
  BY DEF ServerNext, ServerReceivesRequest, ServerReceivesCancel, ServerReceivesAck, ResendAnswer,
     ServerAnswers
<1>3. UNCHANGED exchangeVars => UNCHANGED vars
  BY DEF exchangeVars
<1> QED
  BY <1>1, <1>2, <1>3 DEF ExchangeNext

LEMMA ExchangeInvNext == ExchangeInv /\ [ExchangeNext]_exchangeVars => ExchangeInv'
<1> SUFFICES ASSUME ExchangeInv, [ExchangeNext]_exchangeVars PROVE ExchangeInv'
  OBVIOUS
<1>1. IInv'
  BY InvNext, ClientIsTransaction DEF ExchangeInv
<1>2. CASE ClientNext /\ UNCHANGED serverVars
  <2>1. Agreement(tx, heard)'
    BY <1>2, ClientAgrees DEF ExchangeInv, serverVars
  <2>2. ServerInv'
    BY <1>2 DEF ExchangeInv, ServerInv, serverVars
  <2> QED
    BY <1>1, <2>1, <2>2 DEF ExchangeInv
<1>3. CASE ServerNext
  BY <1>1, <1>3, ServersKeep DEF ExchangeInv
<1>4. CASE UNCHANGED exchangeVars
  <2>1. tx' = tx /\ heard' = heard /\ server' = server /\ answering' = answering
    BY <1>4 DEF exchangeVars, serverVars, vars
  <2>2. ServerInv'
    BY <2>1 DEF ExchangeInv, ServerInv
  <2>3. Agreement(tx, heard)'
    BY <2>1 DEF ExchangeInv, Agreement
  <2> QED
    BY <1>1, <2>2, <2>3 DEF ExchangeInv
<1> QED
  BY <1>2, <1>3, <1>4 DEF ExchangeNext

\* The inductive invariant of the exchange holds in every state.
THEOREM ExchangeInductive == ExchangeSpec => []ExchangeInv
BY ExchangeInvInit, ExchangeInvNext, PTL DEF ExchangeSpec

\* The data of the client and of the servers keep their types; with them, no
\* answer is sent more often than the timer of handleResendEvent() allows.
THEOREM ExchangeTypeCorrect == ExchangeSpec => []ExchangeTypeOK
<1>1. ExchangeInv => ExchangeTypeOK
  BY DEF ExchangeInv, IInv, ServerInv, ServerRecord, ExchangeTypeOK
<1> QED
  BY <1>1, ExchangeInductive, PTL

\* A server whose answer was acknowledged has a client that took the same
\* answer, and told its application of a success, whatever was lost, repeated
\* or crossed a CANCEL (handleIncoming(), handleResendEvent() and the ACK of
\* SipUserAgent::send() together): there is no half call.
THEOREM NoHalfCall == ExchangeSpec => []AckMeansHeard
<1>1. ExchangeInv => AckMeansHeard
  <2> SUFFICES ASSUME ExchangeInv, NEW b \in Branches, server[b].ack
               PROVE  IF server[b].final = OK
                      THEN \E i \in DOMAIN heard : heard[i] = <<OK, b>>
                      ELSE tx[b].final = server[b].final
    BY DEF AckMeansHeard
  <2>1. tx[b].ack /\ tx[b].final # NoCode /\ tx[b].final = server[b].final
    BY DEF ExchangeInv, Agreement
  <2> QED
    BY <2>1 DEF ExchangeInv, Agreement
<1> QED
  BY <1>1, ExchangeInductive, PTL

\* The client that talks to the servers of SipExchange is the client of
\* SipTransaction, whose servers say anything at any time: what is proved of it
\* there holds here, and its abstract servers leave out no behaviour of these.
THEOREM ExchangeImplementsTransaction == ExchangeSpec => Spec
<1>1. ExchangeInit => Init
  BY DEF ExchangeInit
<1> QED
  BY <1>1, ClientIsTransaction, PTL DEF ExchangeSpec, Spec
=============================================================================
