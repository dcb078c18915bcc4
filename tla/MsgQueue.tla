------------------------------ MODULE MsgQueue ------------------------------
(***************************************************************************)
(* What OsMsgQ.h promises to the threads that share a queue, without       *)
(* semaphores: a bounded queue; a send puts its message at the tail, an    *)
(* urgent one at the head, a receive takes the head, and either takes      *)
(* effect at one moment of the call.  A call that gives up had a reason:   *)
(* the sends (receives) underway could use up the room (the messages).     *)
(***************************************************************************)
EXTENDS Integers, Sequences, FiniteSets

CONSTANTS Threads, Messages, MaxMsgs

VARIABLES
  queue,      \* the messages sent and not received
  delivered,  \* the messages received, in the order they were taken
  call,       \* the call each thread is in
  status      \* what each thread's last call returned

vars == <<queue, delivered, call, status>>

None       == [op |-> "none"]
Sending(m) == [op |-> "send", msg |-> m]
Receiving  == [op |-> "receive"]

Init ==
  /\ queue = <<>>
  /\ delivered = <<>>
  /\ call = [t \in Threads |-> None]
  /\ status = [t \in Threads |-> "OS_SUCCESS"]

Return(t, s) ==
  /\ call' = [call EXCEPT ![t] = None]
  /\ status' = [status EXCEPT ![t] = s]

Others(t, op) == {u \in Threads \ {t} : call[u].op = op}

Begin(t, c) ==
  /\ call[t] = None
  /\ call' = [call EXCEPT ![t] = c]
  /\ UNCHANGED <<queue, delivered, status>>

Put(t) ==
  /\ call[t].op = "send"
  /\ Len(queue) < MaxMsgs
  /\ LET m == call[t].msg
     IN queue' = IF m.urgent THEN <<m>> \o queue ELSE Append(queue, m)
  /\ Return(t, "OS_SUCCESS")
  /\ UNCHANGED delivered

Take(t) ==
  /\ call[t] = Receiving
  /\ queue # <<>>
  /\ delivered' = Append(delivered, Head(queue))
  /\ queue' = Tail(queue)
  /\ Return(t, "OS_SUCCESS")

SendGivesUp(t) ==
  /\ call[t].op = "send"
  /\ Len(queue) + Cardinality(Others(t, "send")) >= MaxMsgs
  /\ Return(t, "OS_WAIT_TIMEOUT")
  /\ UNCHANGED <<queue, delivered>>

ReceiveGivesUp(t) ==
  /\ call[t] = Receiving
  /\ Len(queue) <= Cardinality(Others(t, "receive"))
  /\ Return(t, "OS_WAIT_TIMEOUT")
  /\ UNCHANGED <<queue, delivered>>

\* The send hook took the message.
Divert(t) ==
  /\ call[t] = None
  /\ Return(t, "OS_SUCCESS")
  /\ UNCHANGED <<queue, delivered>>

Next ==
  \E t \in Threads :
    \/ \E m \in Messages : Begin(t, Sending(m))
    \/ Begin(t, Receiving)
    \/ Put(t) \/ Take(t)
    \/ SendGivesUp(t) \/ ReceiveGivesUp(t)
    \/ Divert(t)

Spec == Init /\ [][Next]_vars
=============================================================================
