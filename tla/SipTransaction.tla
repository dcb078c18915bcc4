--------------------------- MODULE SipTransaction ---------------------------
(***************************************************************************)
(* The state machine of sipXtackLib/src/net/SipTransaction.cpp: a request   *)
(* of an application is sent over UDP to the servers that DNS SRV names for *)
(* its domain, by a parent transaction that sends nothing itself and one    *)
(* child transaction per server.  The servers and a network that loses,     *)
(* repeats and reorders are the choice of what is received and when; module  *)
(* SipExchange puts the code of the servers in their place.  A transaction   *)
(* tree is used by one thread at a time (module SipTransactionList), so the  *)
(* handling of one message or timer is one step.                            *)
(***************************************************************************)
EXTENDS Integers, Sequences

CONSTANTS
    MaxSrvRecords,  \* the number of servers, tried in the order of their records
    Codes,          \* the final responses a server may give
    INVITE,         \* whether the request is an INVITE
    RESEND_TIMES    \* how often a message is sent (SIP_UDP_RESEND_TIMES)

Branches == 1 .. MaxSrvRecords
Parent == 0

OK == 200
REQUEST_TIMEOUT == 408
REQUEST_TERMINATED == 487
SERVER_INTERNAL_ERROR == 500
SERVICE_UNAVAILABLE == 503
NoCode == 0

\* Redirections, challenges of authentication and 400, which findBestResponse()
\* treats apart, are left out.
ASSUME ConstantsAssumption ==
    /\ MaxSrvRecords \in Nat \ {0}
    /\ RESEND_TIMES \in Nat \ {0}
    /\ INVITE \in BOOLEAN
    /\ OK \in Codes
    /\ Codes \subseteq {OK} \cup ((402 .. 699) \ {407})

\* mTransactionState, in the order in which the code compares its values.
LOCALLY_INITIATED == 0
CALLING == 1
PROCEEDING == 2
COMPLETE == 3
CONFIRMED == 4
TERMINATED == 5
States == LOCALLY_INITIATED .. TERMINATED

VARIABLES
    tx,         \* the child transactions of the client, one per server
    parent,     \* their parent
    timers,     \* the running timers: <<transaction, kind>>
    heard       \* the final responses the application was given: <<code, branch>>

vars == <<tx, parent, timers, heard>>

TypeOK ==
    /\ tx \in [Branches -> [state : States, provisional : BOOLEAN, final : Codes \cup {NoCode},
                            ack : BOOLEAN, canceled : BOOLEAN,
                            cancel : 0 .. RESEND_TIMES, sent : 0 .. RESEND_TIMES]]
    /\ parent \in [state : {LOCALLY_INITIATED, CONFIRMED}, canceled : BOOLEAN,
                   recursing : BOOLEAN, dispatched : BOOLEAN]
    /\ timers \subseteq (Branches \cup {Parent})
                        \X {"resend", "expires", "cancelResend", "cancelExpires"}
    /\ heard \in Seq((Codes \cup {REQUEST_TIMEOUT, SERVER_INTERNAL_ERROR}) \X (Branches \cup {Parent}))
    /\ \A i \in DOMAIN heard : heard[i][1] = OK <=> heard[i][2] # Parent

\* SipTransaction(): nothing is attached to a transaction when it is made.
Init ==
    /\ tx = [b \in Branches |-> [state |-> LOCALLY_INITIATED, provisional |-> FALSE, final |-> NoCode,
                                 ack |-> FALSE, canceled |-> FALSE, cancel |-> 0, sent |-> 0]]
    /\ parent = [state |-> LOCALLY_INITIATED, canceled |-> FALSE, recursing |-> FALSE, dispatched |-> FALSE]
    /\ timers = {} /\ heard = <<>>

AtLeast(state, s) == IF state < s THEN s ELSE state
------------------------------------------------------------------------------
(***************************************************************************)
(* The search for a server that answers, on the children t.                 *)
(***************************************************************************)
\* A child that is still pursued.
Pursued(t, b) == ~t[b].canceled /\ t[b].state \in {CALLING, PROCEEDING}

\* A child behind which recurseDnsSrvChildren() starts no other.
Holds(t, b) ==
    \/ Pursued(t, b)
    \/ /\ t[b].state # LOCALLY_INITIATED
       /\ ~t[b].canceled
       /\ t[b].provisional \/ t[b].final # NoCode

Startable(t) ==
    { b \in Branches : t[b].state = LOCALLY_INITIATED /\ \A a \in 1 .. b - 1 : ~Holds(t, a) }

\* The first send of the request failed for the children in bs.
Unreachable(t, bs) == [b \in Branches |-> IF b \in bs THEN [t[b] EXCEPT !.state = TERMINATED] ELSE t[b]]

\* recurseDnsSrvChildren(): the first child that can be sent, if any, is
\* started; each outcome names it and the children as they are then.
recurseDnsSrvChildren(t) ==
    { [tx |-> [Unreachable(t, { a \in Startable(t) : a < b }) EXCEPT ![b].state = CALLING, ![b].sent = 1],
       started |-> {b}] : b \in Startable(t) }
    \cup { [tx |-> Unreachable(t, Startable(t)), started |-> {}] }

\* Mutant: the cancellation of the parent and of what is left is not looked at.
startSequentialSearch_x(t, canceled) ==
    IF \A b \in Branches : ~Pursued(t, b) THEN recurseDnsSrvChildren(t) ELSE { [tx |-> t, started |-> {}] }

\* startSequentialSearch(): no new search while a child is pursued, after the
\* parent was canceled, or when all that is left was canceled.
startSequentialSearch(t, canceled) ==
    IF /\ \A b \in Branches : ~Pursued(t, b)
       /\ ~canceled
       /\ \E b \in Branches : t[b].state = LOCALLY_INITIATED /\ ~t[b].canceled
    THEN recurseDnsSrvChildren(t)
    ELSE { [tx |-> t, started |-> {}] }

\* findBestResponse(): the first answer that is not about a CANCEL.
findBestResponse(t) ==
    LET answered == { b \in Branches : t[b].final \notin {NoCode, REQUEST_TERMINATED} }
    IN  IF answered = {}
        THEN REQUEST_TIMEOUT
        ELSE LET first == CHOOSE b \in answered : \A a \in answered : b <= a
             IN  IF t[first].final = SERVICE_UNAVAILABLE THEN SERVER_INTERNAL_ERROR ELSE t[first].final

StartedTimers(bs) == bs \X {"resend", "expires"}

\* The search goes on with the children t; when it is over, the application is
\* given the best response, once (handleChildTimeoutEvent, handleChildIncoming).
SearchOn(t, canceled, others) ==
    \E r \in startSequentialSearch(t, canceled) :
        LET recursing == r.started # {} \/ \E b \in Branches : Pursued(t, b)
            tell == ~recursing /\ ~parent.dispatched
        IN  /\ tx' = r.tx
            /\ parent' = [parent EXCEPT !.canceled = canceled, !.recursing = recursing,
                                        !.dispatched = @ \/ tell]
            /\ timers' = others \cup StartedTimers(r.started)
            /\ heard' = IF tell THEN Append(heard, <<findBestResponse(r.tx), Parent>>) ELSE heard

\* cancel() of a child: a CANCEL is sent when the server has been heard of.
SendsCancel(t, b) == INVITE /\ ~t[b].canceled /\ t[b].state = PROCEEDING /\ t[b].cancel = 0

cancel(t, b) == [t[b] EXCEPT !.canceled = TRUE, !.cancel = IF SendsCancel(t, b) THEN 1 ELSE @]

cancelChildren(t) == [b \in Branches |-> cancel(t, b)]
------------------------------------------------------------------------------
(***************************************************************************)
(* The application of the client.                                           *)
(***************************************************************************)
\* SipUserAgent::send() of the request: the parent is set up, its overall timer
\* is started, and the first server that can be reached is asked.
SendRequest ==
    /\ parent.state = LOCALLY_INITIATED
    /\ \E r \in recurseDnsSrvChildren(tx) :
        /\ tx' = r.tx
        /\ parent' = [parent EXCEPT !.state = CONFIRMED, !.recursing = r.started # {}]
        /\ timers' = timers \cup {<<Parent, "expires">>} \cup StartedTimers(r.started)
    /\ UNCHANGED heard

\* The application gives up once, and only what was not answered yet.
MayCancel ==
    /\ INVITE
    /\ parent.state = CONFIRMED /\ ~parent.canceled
    /\ heard = <<>>
    /\ \A b \in Branches : tx[b].cancel = 0

\* SipUserAgent::send() of a CANCEL that findTransactionFor() matches with the
\* parent: the whole tree is canceled.
CancelTree ==
    /\ MayCancel
    /\ tx' = cancelChildren(tx)
    /\ parent' = [parent EXCEPT !.canceled = TRUE]
    /\ UNCHANGED <<timers, heard>>

\* The same when findTransactionFor() comes to a child first, which depends on
\* the order of the hash bag: the CANCEL is just sent.  Its own timers can end a
\* child that still calls, and do nothing to any other.
CancelChild(b) ==
    /\ MayCancel
    /\ tx[b].state # LOCALLY_INITIATED
    /\ tx' = [tx EXCEPT ![b].cancel = 1]
    /\ timers' = IF tx[b].state = CALLING
                 THEN timers \cup ({b} \X {"cancelResend", "cancelExpires"})
                 ELSE timers
    /\ UNCHANGED <<parent, heard>>

\* The application acknowledges a success it was told of.
SendAck(b) ==
    /\ INVITE
    /\ \E i \in DOMAIN heard : heard[i] = <<OK, b>>
    /\ ~tx[b].ack
    /\ tx' = [tx EXCEPT ![b].ack = TRUE]
    /\ UNCHANGED <<parent, timers, heard>>
------------------------------------------------------------------------------
(***************************************************************************)
(* The client receives a response (handleIncoming) or a timer.              *)
(***************************************************************************)
\* A server answers only what it was sent; whether it exists, answers once or
\* only after a CANCEL is not the client's business.
Sent(b) == tx[b].sent > 0

\* Mutant: only a CANCEL of the whole tree is made up for.
LateCancel_x(b) == parent.canceled /\ tx[b].cancel = 0 /\ INVITE

\* A child that was canceled before its server was heard of sends its CANCEL now.
LateCancel(b) == tx[b].canceled /\ tx[b].cancel = 0 /\ INVITE

ReceiveProvisional(b) ==
    /\ Sent(b)
    /\ tx' = [tx EXCEPT ![b].provisional = TRUE,
                        ![b].state = AtLeast(@, PROCEEDING),
                        ![b].cancel = IF LateCancel(b) THEN 1 ELSE @]
    /\ UNCHANGED <<parent, timers, heard>>

WithFinal(c, b) == [tx EXCEPT ![b].final = c, ![b].state = AtLeast(@, COMPLETE),
                              ![b].ack = INVITE /\ c # OK]

\* A success is told at once and ends all other branches.
ReceiveSuccess(b) ==
    /\ Sent(b)
    /\ tx[b].final = NoCode
    /\ tx' = cancelChildren(WithFinal(OK, b))
    /\ parent' = [parent EXCEPT !.dispatched = TRUE]
    /\ heard' = Append(heard, <<OK, b>>)
    /\ UNCHANGED timers

\* A failure is acknowledged by the transaction and keeps the search going.
ReceiveFailure(c, b) ==
    /\ c # OK
    /\ Sent(b)
    /\ tx[b].final = NoCode
    /\ IF parent.dispatched
       THEN /\ tx' = WithFinal(c, b)
            /\ UNCHANGED <<parent, timers, heard>>
       ELSE SearchOn(WithFinal(c, b), parent.canceled, timers)

Fires(owner, kind) == <<owner, kind>> \in timers
OtherTimers(owner, kind) == timers \ {<<owner, kind>>}

\* Nothing has been heard of a request that is still called.
Unheard(b) == ~tx[b].canceled /\ tx[b].state = CALLING /\ ~tx[b].provisional /\ tx[b].final = NoCode

\* Mutant: the limit of resends is left out.
ResendRequest_x(b) ==
    /\ Fires(b, "resend")
    /\ Unheard(b)
    /\ tx' = [tx EXCEPT ![b].sent = @ + 1]
    /\ UNCHANGED <<parent, timers, heard>>

\* handleResendEvent() of the request: it is sent again.
ResendRequest(b) ==
    /\ Fires(b, "resend")
    /\ Unheard(b)
    /\ tx[b].sent < RESEND_TIMES
    /\ tx' = [tx EXCEPT ![b].sent = @ + 1]
    /\ UNCHANGED <<parent, timers, heard>>

Calling(t, b, state) == [t EXCEPT ![b].state = IF @ = CALLING THEN state ELSE @]

\* The same when it was sent often enough, could not be sent, or was answered or
\* canceled meanwhile: the search goes on.
EndResending(b) ==
    /\ Fires(b, "resend")
    /\ SearchOn(Calling(tx, b, COMPLETE), parent.canceled, OtherTimers(b, "resend"))

\* handleExpiresEvent() of a child: given up unless its server was heard of.
ExpireChild(b) ==
    /\ Fires(b, "expires")
    /\ LET giveUp == /\ ~tx[b].provisional /\ tx[b].final = NoCode
                     /\ tx[b].state \in {LOCALLY_INITIATED, CALLING, PROCEEDING}
       IN  SearchOn(IF giveUp THEN [tx EXCEPT ![b] = cancel(tx, b)] ELSE tx, parent.canceled,
                    OtherTimers(b, "expires"))

\* Mutant: the parent, like a DNS SRV child, is not canceled when any server was heard of.
ExpireParent_x ==
    /\ Fires(Parent, "expires")
    /\ LET giveUp == /\ parent.recursing /\ ~parent.canceled
                     /\ \A b \in Branches : ~tx[b].provisional
       IN  SearchOn(IF giveUp THEN cancelChildren(tx) ELSE tx, parent.canceled \/ giveUp,
                    OtherTimers(Parent, "expires"))

\* handleExpiresEvent() of the parent: the time for the whole tree is over.
ExpireParent ==
    /\ Fires(Parent, "expires")
    /\ LET giveUp == parent.recursing /\ ~parent.canceled
       IN  SearchOn(IF giveUp THEN cancelChildren(tx) ELSE tx, parent.canceled \/ giveUp,
                    OtherTimers(Parent, "expires"))

\* handleResendEvent() and handleExpiresEvent() of a CANCEL that the application
\* sent to a child directly; they do not go on with the search.
ResendCancel(b) ==
    /\ Fires(b, "cancelResend")
    /\ IF Unheard(b) /\ tx[b].cancel < RESEND_TIMES
       THEN /\ tx' = [tx EXCEPT ![b].cancel = @ + 1]
            /\ UNCHANGED timers
       ELSE /\ tx' = Calling(tx, b, COMPLETE)
            /\ timers' = OtherTimers(b, "cancelResend")
    /\ UNCHANGED <<parent, heard>>

ExpireCancel(b) ==
    /\ Fires(b, "cancelExpires")
    /\ tx' = IF Unheard(b) THEN [tx EXCEPT ![b] = cancel(tx, b)] ELSE tx
    /\ timers' = OtherTimers(b, "cancelExpires")
    /\ UNCHANGED <<parent, heard>>
------------------------------------------------------------------------------
Next ==
    \/ SendRequest \/ CancelTree \/ ExpireParent
    \/ \E b \in Branches :
        \/ CancelChild(b) \/ SendAck(b)
        \/ ReceiveProvisional(b) \/ ReceiveSuccess(b)
        \/ ResendRequest(b) \/ EndResending(b) \/ ExpireChild(b) \/ ResendCancel(b) \/ ExpireCancel(b)
        \/ \E c \in Codes : ReceiveFailure(c, b)

\* The timer task fires every timer that was started (module OsTimer).
Fairness ==
    /\ WF_vars(ExpireParent)
    /\ \A b \in Branches :
        /\ WF_vars(ResendRequest(b) \/ EndResending(b))
        /\ WF_vars(ExpireChild(b))

Spec == Init /\ [][Next]_vars
FairSpec == Spec /\ Fairness

------------------------------------------------------------------------------
(***************************************************************************)
(* Properties.                                                              *)
(***************************************************************************)
\* Once the application has an answer, or has canceled the whole tree, nobody
\* rings on: every branch whose server is known to work on the INVITE has been
\* sent a CANCEL, whatever the order of responses, timers and cancellation
\* (cancel(), handleIncoming() and handleChildTimeoutEvent() together).
RingingIsCanceled ==
    INVITE /\ (parent.dispatched \/ parent.canceled)
      => \A b \in Branches : tx[b].state = PROCEEDING => tx[b].cancel > 0

\* The hunt that the application sees: one server after the other, one failure
\* when none is left, and nothing new after an answer or a cancellation.
\* A server is named by the success it would be heard of with.
Pursuing == { b \in Branches : Pursued(tx, b) }
Asked == { b \in Branches : tx[b].state # LOCALLY_INITIATED }
Hunt == INSTANCE ServerHunt WITH
    Servers <- {OK} \X Branches,
    Failures <- ((Codes \ {OK}) \cup {REQUEST_TIMEOUT, SERVER_INTERNAL_ERROR}) \X {Parent},
    asked <- {OK} \X Asked,
    trying <- {OK} \X Pursuing,
    stopped <- parent.canceled

\* The client does to its application what ServerHunt promises, for every order
\* of the messages and timers of all branches.
ImplementsServerHunt == Hunt!HuntSpec

\* An application that sent a request is given a final response, also when all
\* messages are lost, servers ring for ever, or no server can be reached: the
\* timers alone bring the search to its end.
FinalIsHeard == (parent.state = CONFIRMED) ~> (heard # <<>>)

\* A CANCEL is sent only after a provisional response, as the comment in
\* cancel() says.
CancelAfterProvisional == \A b \in Branches : tx[b].cancel > 0 => tx[b].provisional
=============================================================================
