---------------------------- MODULE SipExchange ----------------------------
(***************************************************************************)
(* The client of module SipTransaction and the server transactions that    *)
(* answer its INVITE over UDP (SipUserAgent::dispatch() and                 *)
(* SipTransaction.cpp at the other end).  What was ever sent can be         *)
(* received at any time, again, in any order or never: it is read off the   *)
(* state of its sender.                                                     *)
(***************************************************************************)
EXTENDS SipTransaction

VARIABLES
    server,     \* the server transactions, one per branch
    answering   \* the branches whose answer has a resend timer

serverVars == <<server, answering>>
exchangeVars == <<vars, serverVars>>

\* The types.
ExchangeTypeOK ==
    /\ TypeOK
    /\ server \in [Branches -> [state : {LOCALLY_INITIATED, PROCEEDING, COMPLETE},
                                final : Codes \cup {NoCode}, canceled : BOOLEAN, ack : BOOLEAN,
                                failed : BOOLEAN, sent : 0 .. RESEND_TIMES]]
    /\ answering \subseteq Branches

ExchangeInit ==
    /\ Init
    /\ server = [b \in Branches |-> [state |-> LOCALLY_INITIATED, final |-> NoCode, canceled |-> FALSE,
                                     ack |-> FALSE, failed |-> FALSE, sent |-> 0]]
    /\ answering = {}
------------------------------------------------------------------------------
(***************************************************************************)
(* The server of a branch.                                                  *)
(***************************************************************************)
\* A request makes a transaction, and its INVITE is answered with 100 at once.
\* The request that is received again changes nothing.
ServerReceivesRequest(b) ==
    /\ tx[b].sent > 0
    /\ server[b].state = LOCALLY_INITIATED
    /\ server' = [server EXCEPT ![b].state = PROCEEDING]
    /\ UNCHANGED <<vars, answering>>

Unanswered(b) == server[b].state = PROCEEDING

\* Its application answers, with 487 only when it was canceled.  An answer
\* that could be sent is sent again until it is acknowledged.
ServerAnswers(c, b) ==
    /\ Unanswered(b)
    /\ c = REQUEST_TERMINATED => server[b].canceled
    /\ \E sent \in {0, 1} :
        /\ server' = [server EXCEPT ![b].state = COMPLETE, ![b].final = c, ![b].sent = sent]
        /\ answering' = IF sent = 1 THEN answering \cup {b} ELSE answering
    /\ UNCHANGED vars

\* A CANCEL is passed on while the request is unanswered; one that comes before
\* its request finds no transaction and is refused.
ServerReceivesCancel(b) ==
    /\ tx[b].cancel > 0
    /\ Unanswered(b)
    /\ ~server[b].canceled
    /\ server' = [server EXCEPT ![b].canceled = TRUE]
    /\ UNCHANGED <<vars, answering>>

\* Mutant: a CANCEL that comes after the answer counts as its ACK.
ServerReceivesAck_x(b) ==
    /\ tx[b].ack \/ tx[b].cancel > 0
    /\ server[b].final # NoCode
    /\ ~server[b].ack
    /\ server' = [server EXCEPT ![b].ack = TRUE]
    /\ UNCHANGED <<vars, answering>>

\* The answer of the branch is acknowledged.
ServerReceivesAck(b) ==
    /\ tx[b].ack
    /\ server[b].final # NoCode
    /\ ~server[b].ack
    /\ server' = [server EXCEPT ![b].ack = TRUE]
    /\ UNCHANGED <<vars, answering>>

\* Mutant: the application is not told that the answer was given up.
ResendAnswer_x(b) ==
    /\ b \in answering
    /\ \/ /\ ~server[b].ack /\ server[b].sent < RESEND_TIMES
          /\ server' = [server EXCEPT ![b].sent = @ + 1]
          /\ UNCHANGED answering
       \/ /\ answering' = answering \ {b}
          /\ UNCHANGED server
    /\ UNCHANGED vars

\* handleResendEvent() of an answer: it is sent again, or it was acknowledged, or
\* the application is told that it could not be delivered.
ResendAnswer(b) ==
    /\ b \in answering
    /\ \/ /\ ~server[b].ack /\ server[b].sent < RESEND_TIMES
          /\ server' = [server EXCEPT ![b].sent = @ + 1]
          /\ UNCHANGED answering
       \/ /\ ~server[b].ack
          /\ server' = [server EXCEPT ![b].failed = TRUE]
          /\ answering' = answering \ {b}
       \/ /\ server[b].ack
          /\ answering' = answering \ {b}
          /\ UNCHANGED server
    /\ UNCHANGED vars
------------------------------------------------------------------------------
\* What a server sent reaches the client.
ClientReceivesProvisional(b) == server[b].state # LOCALLY_INITIATED /\ ReceiveProvisional(b)
ClientReceivesSuccess(b) == server[b].final = OK /\ server[b].sent > 0 /\ ReceiveSuccess(b)
ClientReceivesFailure(c, b) == server[b].final = c /\ server[b].sent > 0 /\ ReceiveFailure(c, b)

ClientNext ==
    \/ SendRequest \/ CancelTree \/ ExpireParent
    \/ \E b \in Branches :
        \/ CancelChild(b) \/ SendAck(b)
        \/ ClientReceivesProvisional(b) \/ ClientReceivesSuccess(b)
        \/ \E c \in Codes : ClientReceivesFailure(c, b)
        \/ ResendRequest(b) \/ EndResending(b) \/ ExpireChild(b) \/ ResendCancel(b) \/ ExpireCancel(b)

ServerNext ==
    \E b \in Branches :
        \/ ServerReceivesRequest(b) \/ ServerReceivesCancel(b)
        \/ ServerReceivesAck(b) \/ ResendAnswer(b)
        \/ \E c \in Codes : ServerAnswers(c, b)

ExchangeNext == (ClientNext /\ UNCHANGED serverVars) \/ ServerNext

ExchangeSpec ==
    /\ ExchangeInit /\ [][ExchangeNext]_exchangeVars
    /\ \A b \in Branches : WF_exchangeVars(ResendAnswer(b))
------------------------------------------------------------------------------
\* No half call: a server whose answer was acknowledged has a client that took
\* the same answer, and told its application of it when it was a success,
\* whatever was lost, repeated or crossed a CANCEL on the way.
AckMeansHeard ==
    \A b \in Branches :
        server[b].ack =>
            IF server[b].final = OK
            THEN \E i \in DOMAIN heard : heard[i] = <<OK, b>>
            ELSE tx[b].final = server[b].final

\* An answer to an INVITE that was sent is acknowledged, or its application is
\* told that it was not: it is not sent again for ever (handleResendEvent()).
AnswerSettles ==
    \A b \in Branches : (b \in answering) ~> (server[b].ack \/ server[b].failed)
=============================================================================
