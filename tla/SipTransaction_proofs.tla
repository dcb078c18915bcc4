------------------------ MODULE SipTransaction_proofs ------------------------
(***************************************************************************)
(* Proofs about SipTransaction, for any number of servers, any responses    *)
(* and any number of resends.                                               *)
(***************************************************************************)
EXTENDS SipTransaction, WellFoundedInduction, TLAPS

Child == [state : States, provisional : BOOLEAN, final : Codes \cup {NoCode},
          ack : BOOLEAN, canceled : BOOLEAN,
          cancel : 0 .. RESEND_TIMES, sent : 0 .. RESEND_TIMES]
Children == [Branches -> Child]

LEMMA StateValues ==
  /\ LOCALLY_INITIATED = 0 /\ CALLING = 1 /\ PROCEEDING = 2 /\ COMPLETE = 3
  /\ CONFIRMED = 4 /\ TERMINATED = 5 /\ States = 0 .. 5
BY DEF LOCALLY_INITIATED, CALLING, PROCEEDING, COMPLETE, CONFIRMED, TERMINATED, States

LEMMA CodeValues ==
  /\ OK = 200 /\ REQUEST_TIMEOUT = 408 /\ SERVER_INTERNAL_ERROR = 500
  /\ SERVICE_UNAVAILABLE = 503 /\ REQUEST_TERMINATED = 487 /\ NoCode = 0
  /\ NoCode \notin Codes
BY ConstantsAssumption DEF OK, REQUEST_TIMEOUT, SERVER_INTERNAL_ERROR, SERVICE_UNAVAILABLE,
   REQUEST_TERMINATED, NoCode

\* A set of branches that is not empty has a first one.
LEMMA FirstBranch ==
  ASSUME NEW S \in SUBSET Branches, S # {}
  PROVE  \E b \in S : \A a \in S : b <= a
<1> DEFINE lessThan == OpToRel(<, Nat)
<1>1. S \subseteq Nat
  BY ConstantsAssumption DEF Branches
<1>2. \E b \in S : \A a \in S : ~(<<a, b>> \in lessThan)
  BY <1>1, NatLessThanWellFounded, WFMin
<1>3. ASSUME NEW a \in Nat, NEW b \in Nat, a < b
      PROVE  <<a, b>> \in lessThan
  <2>1. <<a, b>> \in Nat \X Nat /\ <<a, b>>[1] = a /\ <<a, b>>[2] = b
    OBVIOUS
  <2> QED
    BY <1>3, <2>1 DEF OpToRel
<1> HIDE DEF lessThan
<1>4. PICK b \in S : \A a \in S : ~(<<a, b>> \in lessThan)
  BY <1>2
<1>5. ASSUME NEW a \in S PROVE b <= a
  <2>1. a \in Nat /\ b \in Nat
    BY <1>1
  <2>2. ~(a < b)
    <3>1. ~(<<a, b>> \in lessThan)
      BY <1>4
    <3> QED
      BY <2>1, <3>1, <1>3
  <2> QED
    BY <2>1, <2>2
<1> QED
  BY <1>5

\* The best response of children without a success is a failure.
LEMMA BestIsFailure ==
  ASSUME NEW t \in Children, \A b \in Branches : t[b].final # OK
  PROVE  findBestResponse(t) \in (Codes \ {OK}) \cup {REQUEST_TIMEOUT, SERVER_INTERNAL_ERROR}
<1> DEFINE answered == { b \in Branches : t[b].final \notin {NoCode, REQUEST_TERMINATED} }
           first == CHOOSE b \in answered : \A a \in answered : b <= a
<1>1. CASE answered = {}
  BY <1>1 DEF findBestResponse
<1>2. CASE answered # {}
  <2>1. answered \in SUBSET Branches
    OBVIOUS
  <2>2. \E b \in answered : \A a \in answered : b <= a
    <3> HIDE DEF answered
    <3> QED BY <1>2, <2>1, FirstBranch
  <2>3. first \in answered
    <3> HIDE DEF answered
    <3> QED BY <2>2
  <2>4. first \in Branches /\ t[first].final \in Codes /\ t[first].final # OK
    <3>1. first \in Branches /\ t[first].final # NoCode
      BY <2>3
    <3> QED
      BY <3>1 DEF Children, Child
  <2>5. findBestResponse(t) \in {SERVER_INTERNAL_ERROR, t[first].final}
    BY <1>2 DEF findBestResponse
  <2> QED
    BY <2>4, <2>5
<1> QED
  BY <1>1, <1>2

-----------------------------------------------------------------------------
(* What a search does to the children.                                     *)

Started(c) == [c EXCEPT !.state = CALLING, !.sent = 1]
GivenUp(c) == [c EXCEPT !.state = TERMINATED]

LEMMA ChildChanges ==
  ASSUME NEW c \in Child
  PROVE  /\ Started(c) \in Child /\ GivenUp(c) \in Child
         /\ Started(c).state = CALLING /\ Started(c).sent = 1
         /\ Started(c).canceled = c.canceled /\ Started(c).final = c.final
         /\ Started(c).provisional = c.provisional /\ Started(c).cancel = c.cancel
         /\ GivenUp(c).state = TERMINATED /\ GivenUp(c).sent = c.sent
         /\ GivenUp(c).canceled = c.canceled /\ GivenUp(c).final = c.final
         /\ GivenUp(c).provisional = c.provisional /\ GivenUp(c).cancel = c.cancel
<1>1. 1 \in 0 .. RESEND_TIMES /\ CALLING \in States /\ TERMINATED \in States
  BY StateValues, ConstantsAssumption
<1> QED
  BY <1>1 DEF Child, Started, GivenUp

\* At most one child is started, the others are left alone or found unreachable.
SearchResult(t, r) ==
  /\ r.tx \in Children
  /\ r.started \subseteq Branches
  /\ \A a, b \in r.started : a = b
  /\ \A b \in Branches :
       \/ b \in r.started /\ t[b].state = LOCALLY_INITIATED /\ r.tx[b] = Started(t[b])
       \/ b \notin r.started /\ r.tx[b] = t[b]
       \/ b \notin r.started /\ t[b].state = LOCALLY_INITIATED /\ r.tx[b] = GivenUp(t[b])

LEMMA RecurseResult ==
  ASSUME NEW t \in Children, NEW r \in recurseDnsSrvChildren(t)
  PROVE  /\ SearchResult(t, r)
         /\ r.started \subseteq Startable(t)
         /\ r.started = {} => \A b \in Startable(t) : r.tx[b].state = TERMINATED
<1>1. \A c \in Child : Started(c) \in Child /\ GivenUp(c) \in Child
  BY ChildChanges
<1>2. Startable(t) \subseteq Branches /\ \A b \in Startable(t) : t[b].state = LOCALLY_INITIATED
  BY DEF Startable
<1>3. ASSUME NEW bs \in SUBSET Branches
      PROVE  Unreachable(t, bs) = [b \in Branches |-> IF b \in bs THEN GivenUp(t[b]) ELSE t[b]]
  BY DEF Unreachable, GivenUp
<1>4. CASE r = [tx |-> Unreachable(t, Startable(t)), started |-> {}]
  <2>1. r.started = {} /\ r.tx = [b \in Branches |-> IF b \in Startable(t) THEN GivenUp(t[b]) ELSE t[b]]
    BY <1>2, <1>3, <1>4
  <2> QED
    BY <2>1, <1>1, <1>2, ChildChanges DEF SearchResult, Children
<1>5. ASSUME NEW s \in Startable(t),
             r = [tx |-> [Unreachable(t, { a \in Startable(t) : a < s }) EXCEPT ![s].state = CALLING, ![s].sent = 1],
                  started |-> {s}]
      PROVE  SearchResult(t, r) /\ r.started = {s}
  <2> DEFINE before == { a \in Startable(t) : a < s }
             u == Unreachable(t, before)
  <2>1. s \notin before /\ before \in SUBSET Branches
    BY <1>2, ConstantsAssumption DEF Branches
  <2> HIDE DEF before
  <2>2. u = [b \in Branches |-> IF b \in before THEN GivenUp(t[b]) ELSE t[b]]
    BY <1>3, <2>1
  <2> HIDE DEF u
  <2>3. /\ r.tx = [u EXCEPT ![s].state = CALLING, ![s].sent = 1]
        /\ r.started = {s}
    BY <1>5 DEF u, before
  <2>4. r.tx = [u EXCEPT ![s] = Started(u[s])]
    BY <2>2, <2>3 DEF Started
  <2>5. before \subseteq Startable(t)
    BY DEF before
  <2> QED
    BY <2>1, <2>2, <2>3, <2>4, <2>5, <1>1, <1>2 DEF SearchResult, Children
<1>6. CASE \E s \in Startable(t) :
             r = [tx |-> [Unreachable(t, { a \in Startable(t) : a < s }) EXCEPT ![s].state = CALLING, ![s].sent = 1],
                  started |-> {s}]
  <2>1. PICK s \in Startable(t) : SearchResult(t, r) /\ r.started = {s}
    BY <1>5, <1>6
  <2>2. r.started # {} /\ r.started \subseteq Startable(t)
    BY <2>1
  <2> QED
    BY <2>1, <2>2
<1>7. \/ r = [tx |-> Unreachable(t, Startable(t)), started |-> {}]
      \/ \E s \in Startable(t) :
             r = [tx |-> [Unreachable(t, { a \in Startable(t) : a < s }) EXCEPT ![s].state = CALLING, ![s].sent = 1],
                  started |-> {s}]
  BY DEF recurseDnsSrvChildren
<1> QED
  BY <1>4, <1>6, <1>7

LEMMA StartResult ==
  ASSUME NEW t \in Children, NEW canceled \in BOOLEAN, NEW r \in startSequentialSearch(t, canceled)
  PROVE  /\ SearchResult(t, r)
         /\ \/ r.tx = t /\ r.started = {} /\ \E b \in Branches : Pursued(t, b)
            \/ r.tx = t /\ r.started = {} /\ canceled
            \/ /\ r.tx = t /\ r.started = {}
               /\ \A b \in Branches : t[b].state = LOCALLY_INITIATED => t[b].canceled
            \/ /\ ~canceled /\ \A b \in Branches : ~Pursued(t, b)
               /\ \E b \in Branches : t[b].state = LOCALLY_INITIATED /\ ~t[b].canceled
               /\ r.started \subseteq Startable(t)
               /\ r.started = {} => \A b \in Startable(t) : r.tx[b].state = TERMINATED
<1>1. CASE /\ \A b \in Branches : ~Pursued(t, b)
           /\ ~canceled
           /\ \E b \in Branches : t[b].state = LOCALLY_INITIATED /\ ~t[b].canceled
  BY <1>1, RecurseResult DEF startSequentialSearch
<1>2. CASE ~(/\ \A b \in Branches : ~Pursued(t, b)
             /\ ~canceled
             /\ \E b \in Branches : t[b].state = LOCALLY_INITIATED /\ ~t[b].canceled)
  <2>1. r = [tx |-> t, started |-> {}]
    BY <1>2 DEF startSequentialSearch
  <2>2. SearchResult(t, r)
    BY <2>1 DEF SearchResult
  <2> QED
    BY <1>2, <2>1, <2>2
<1> QED
  BY <1>1, <1>2

-----------------------------------------------------------------------------
(* The inductive invariant, as a predicate on the children t.              *)

ChildrenInv(t) ==
  /\ t \in Children
  /\ \A b \in Branches : t[b].sent > 0 \/ t[b].final # NoCode => t[b].state # LOCALLY_INITIATED
  \* A canceled child whose server was heard of has been sent its CANCEL.
  /\ \A b \in Branches : INVITE /\ t[b].canceled /\ t[b].state = PROCEEDING => t[b].cancel > 0
  /\ \A a, b \in Branches : Pursued(t, a) /\ Pursued(t, b) => a = b
  \* What was not asked yet is canceled as a whole.
  /\ \A a, b \in Branches :
       /\ t[a].state = LOCALLY_INITIATED /\ t[b].state = LOCALLY_INITIATED
       /\ t[a].canceled
       => t[b].canceled

Idle(t) == \A b \in Branches : ~Pursued(t, b)

\* Nothing is left that a search could start.
Held(t, a) == t[a].state # LOCALLY_INITIATED /\ ~t[a].canceled /\ (t[a].provisional \/ t[a].final # NoCode)
Settled(t) ==
  \A b \in Branches : t[b].state = LOCALLY_INITIATED =>
     t[b].canceled \/ \E a \in 1 .. b - 1 : Held(t, a)

\* An answer or a cancellation ends the search for good.
Over(t, canceled) ==
  /\ parent.dispatched \/ canceled => Idle(t)
  /\ parent.dispatched => canceled \/ Settled(t)

Heard(t) ==
  /\ \A i \in DOMAIN heard : heard[i][1] = OK => t[heard[i][2]].final = OK
  /\ \A b \in Branches : t[b].final = OK => parent.dispatched
  /\ heard # <<>> => parent.dispatched

TimersStarted(t, running) ==
  \A b \in Branches, k \in {"resend", "expires", "cancelResend", "cancelExpires"} :
     <<b, k>> \in running => t[b].state # LOCALLY_INITIATED

Fresh ==
  parent.state = LOCALLY_INITIATED =>
    /\ \A b \in Branches : tx[b].state = LOCALLY_INITIATED /\ ~tx[b].canceled
    /\ timers = {} /\ heard = <<>> /\ ~parent.canceled /\ ~parent.dispatched

IInv ==
  /\ TypeOK
  /\ ChildrenInv(tx)
  /\ Over(tx, parent.canceled)
  /\ Heard(tx)
  /\ TimersStarted(tx, timers)
  /\ Fresh

LEMMA InvInit == Init => IInv
<1> SUFFICES ASSUME Init PROVE IInv
  OBVIOUS
<1>1. 0 \in 0 .. RESEND_TIMES
  BY ConstantsAssumption
<1>2. TypeOK /\ tx \in Children
  BY <1>1, StateValues DEF Init, TypeOK, Children, Child
<1> QED
  BY <1>2, StateValues, CodeValues
     DEF Init, IInv, ChildrenInv, Over, Heard, TimersStarted, Fresh, Pursued, Idle, Settled

LEMMA FirstAppended ==
  ASSUME NEW e
  PROVE  /\ Append(<<>>, e) = <<e>>
         /\ DOMAIN <<e>> = {1} /\ <<e>>[1] = e
         /\ \A i \in DOMAIN <<e>> : <<e>>[i] = e
OBVIOUS

\* A search that goes on keeps the invariant.
LEMMA SearchKeeps ==
  ASSUME IInv, parent.state # LOCALLY_INITIATED,
         NEW t \in Children, NEW canceled \in BOOLEAN, NEW others \in SUBSET timers,
         ChildrenInv(t), Over(t, canceled), Heard(t), TimersStarted(t, others),
         parent.canceled => canceled,
         SearchOn(t, canceled, others)
  PROVE  IInv'
<1>1. PICK r \in startSequentialSearch(t, canceled) :
        LET recursing == r.started # {} \/ \E b \in Branches : Pursued(t, b)
            tell == ~recursing /\ ~parent.dispatched
        IN  /\ tx' = r.tx
            /\ parent' = [parent EXCEPT !.canceled = canceled, !.recursing = recursing,
                                        !.dispatched = @ \/ tell]
            /\ timers' = others \cup StartedTimers(r.started)
            /\ heard' = IF tell THEN Append(heard, <<findBestResponse(r.tx), Parent>>) ELSE heard
  BY DEF SearchOn
<1> DEFINE recursing == r.started # {} \/ \E b \in Branches : Pursued(t, b)
           tell == ~recursing /\ ~parent.dispatched
<1>2. /\ tx' = r.tx
      /\ parent' = [parent EXCEPT !.canceled = canceled, !.recursing = recursing,
                                  !.dispatched = @ \/ tell]
      /\ timers' = others \cup StartedTimers(r.started)
      /\ heard' = IF tell THEN Append(heard, <<findBestResponse(r.tx), Parent>>) ELSE heard
  BY <1>1
<1>3. SearchResult(t, r)
  BY StartResult
<1>4. \/ r.tx = t /\ r.started = {} /\ \E b \in Branches : Pursued(t, b)
      \/ r.tx = t /\ r.started = {} /\ canceled
      \/ /\ r.tx = t /\ r.started = {}
         /\ \A b \in Branches : t[b].state = LOCALLY_INITIATED => t[b].canceled
      \/ /\ ~canceled /\ \A b \in Branches : ~Pursued(t, b)
         /\ \E b \in Branches : t[b].state = LOCALLY_INITIATED /\ ~t[b].canceled
         /\ r.started \subseteq Startable(t)
         /\ r.started = {} => \A b \in Startable(t) : r.tx[b].state = TERMINATED
  BY StartResult
<1>t. /\ TypeOK /\ parent.dispatched \in BOOLEAN
      /\ parent'.dispatched = (parent.dispatched \/ tell)
      /\ parent'.canceled = canceled /\ parent'.state = parent.state
  BY <1>2 DEF IInv, TypeOK
<1> HIDE DEF recursing, tell
<1>c. \A b \in Branches :
        /\ t[b] \in Child /\ r.tx[b] \in Child
        /\ r.tx[b].canceled = t[b].canceled /\ r.tx[b].final = t[b].final
        /\ r.tx[b].provisional = t[b].provisional /\ r.tx[b].cancel = t[b].cancel
        /\ \/ r.tx[b].state = t[b].state /\ r.tx[b].sent = t[b].sent /\ b \notin r.started
           \/ r.tx[b].state = CALLING /\ b \in r.started /\ t[b].state = LOCALLY_INITIATED
           \/ /\ r.tx[b].state = TERMINATED /\ b \notin r.started /\ r.tx[b].sent = t[b].sent
              /\ t[b].state = LOCALLY_INITIATED
  BY <1>3, ChildChanges DEF SearchResult, Children
\* The child that is started, if any, is the only one pursued.
<1>p. \A b \in Branches : Pursued(r.tx, b) => Pursued(t, b) \/ (b \in r.started /\ Idle(t))
  BY <1>c, <1>4, StateValues DEF Pursued, Idle
<1>5. ChildrenInv(tx)'
  <2>1. r.tx \in Children
    BY <1>3 DEF SearchResult
  <2>2. \A b \in Branches : r.tx[b].sent > 0 \/ r.tx[b].final # NoCode => r.tx[b].state # LOCALLY_INITIATED
    BY <1>c, StateValues DEF ChildrenInv
  <2>3. \A b \in Branches :
          INVITE /\ r.tx[b].canceled /\ r.tx[b].state = PROCEEDING => r.tx[b].cancel > 0
    BY <1>c, StateValues DEF ChildrenInv
  <2>4. \A a, b \in Branches : Pursued(r.tx, a) /\ Pursued(r.tx, b) => a = b
    BY <1>p, <1>3 DEF ChildrenInv, SearchResult, Idle
  <2>5. \A a, b \in Branches :
          /\ r.tx[a].state = LOCALLY_INITIATED /\ r.tx[b].state = LOCALLY_INITIATED
          /\ r.tx[a].canceled
          => r.tx[b].canceled
    BY <1>c, StateValues DEF ChildrenInv
  <2> QED
    BY <1>2, <2>1, <2>2, <2>3, <2>4, <2>5 DEF ChildrenInv, Pursued
\* When the search is over, what is left is held back by a child that answered.
<1>6. parent'.dispatched => canceled \/ Settled(r.tx)
  <2> SUFFICES ASSUME parent'.dispatched, ~canceled PROVE Settled(r.tx)
    OBVIOUS
  <2>1. r.started = {}
    <3>1. CASE tell
      BY <3>1 DEF tell, recursing
    <3>2. CASE parent.dispatched
      <4>1. Settled(t)
        BY <3>2 DEF Over
      <4>2. ASSUME r.started # {} PROVE FALSE
        <5>1. PICK s \in r.started : TRUE
          BY <4>2
        <5>2. s \in Startable(t) /\ s \in Branches
          BY <1>3, <1>4, <4>2, <5>1 DEF SearchResult
        <5>3. t[s].state = LOCALLY_INITIATED /\ \A a \in 1 .. s - 1 : ~Holds(t, a)
          BY <5>2 DEF Startable
        <5>4. t[s].canceled
          BY <5>2, <5>3, <4>1 DEF Settled, Held, Holds
        <5>5. \A b \in Branches : t[b].state = LOCALLY_INITIATED => t[b].canceled
          BY <5>2, <5>3, <5>4 DEF ChildrenInv
        <5> QED
          BY <5>5, <1>4, <4>2
      <4> QED
        BY <4>2
    <3> QED
      BY <3>1, <3>2, <1>t
  <2>2. \A b \in Branches : ~Pursued(t, b)
    BY <2>1, <1>t DEF tell, recursing, Over, Idle
  <2>3. CASE \A b \in Branches : t[b].state = LOCALLY_INITIATED => t[b].canceled
    BY <2>3, <1>c, StateValues DEF Settled
  <2>4. CASE \A b \in Startable(t) : r.tx[b].state = TERMINATED
    <3> SUFFICES ASSUME NEW b \in Branches, r.tx[b].state = LOCALLY_INITIATED
                 PROVE  \E a \in 1 .. b - 1 : Held(r.tx, a)
      BY DEF Settled
    <3>1. t[b].state = LOCALLY_INITIATED /\ b \notin Startable(t)
      BY <1>c, <2>4, StateValues
    <3>2. PICK a \in 1 .. b - 1 : Holds(t, a)
      BY <3>1 DEF Startable
    <3>3. a \in Branches
      BY ConstantsAssumption DEF Branches
    <3>4. Held(t, a)
      BY <3>2, <3>3, <2>2 DEF Holds, Held
    <3> QED
      BY <3>3, <3>4, <1>c, StateValues DEF Held
  <2> QED
    BY <1>4, <2>1, <2>2, <2>3, <2>4
<1>7. Over(tx, parent.canceled)'
  <2>1. parent'.dispatched \/ canceled => Idle(r.tx)
    <3>1. CASE canceled
      BY <3>1, <1>p, <1>4, <1>3 DEF Over, Idle
    <3>2. CASE tell
      BY <3>2, <1>p DEF tell, recursing, Idle
    <3>3. CASE parent.dispatched /\ ~canceled
      <4>1. Settled(t) /\ Idle(t)
        BY <3>3 DEF Over
      <4>2. ASSUME NEW s \in r.started PROVE FALSE
        <5>1. s \in Startable(t) /\ s \in Branches
          BY <1>3, <1>4, <4>1 DEF SearchResult, Idle
        <5>2. t[s].state = LOCALLY_INITIATED /\ \A a \in 1 .. s - 1 : ~Holds(t, a)
          BY <5>1 DEF Startable
        <5>3. t[s].canceled
          BY <5>1, <5>2, <4>1 DEF Settled, Held, Holds
        <5>4. \A b \in Branches : t[b].state = LOCALLY_INITIATED => t[b].canceled
          BY <5>1, <5>2, <5>3 DEF ChildrenInv
        <5> QED
          BY <5>4, <1>4, <4>2
      <4> QED
        BY <4>1, <4>2, <1>p DEF Idle
    <3> QED
      BY <3>1, <3>2, <3>3, <1>t
  <2> QED
    BY <2>1, <1>6, <1>2, <1>t DEF Over, Idle, Settled, Held, Pursued
<1>8. tell => /\ ~parent.dispatched /\ heard = <<>>
              /\ findBestResponse(r.tx) \in (Codes \ {OK}) \cup {REQUEST_TIMEOUT, SERVER_INTERNAL_ERROR}
  <2> SUFFICES ASSUME tell
               PROVE  /\ ~parent.dispatched /\ heard = <<>>
                      /\ findBestResponse(r.tx) \in (Codes \ {OK}) \cup {REQUEST_TIMEOUT, SERVER_INTERNAL_ERROR}
    OBVIOUS
  <2>1. ~parent.dispatched
    BY DEF tell
  <2>2. \A b \in Branches : r.tx[b].final # OK
    BY <2>1, <1>c DEF Heard
  <2> QED
    BY <2>1, <2>2, <1>3, BestIsFailure DEF Heard, SearchResult
<1>h. heard' = IF tell THEN <<<<findBestResponse(r.tx), Parent>>>> ELSE heard
  <2> DEFINE e == <<findBestResponse(r.tx), Parent>>
  <2>1. Append(<<>>, e) = <<e>>
    <3> HIDE DEF e
    <3> QED BY FirstAppended
  <2> QED
    BY <2>1, <1>2, <1>8
<1>9. Heard(tx)'
  <2>1. CASE tell
    <3> DEFINE e == <<findBestResponse(r.tx), Parent>>
    <3>1. \A i \in DOMAIN <<e>> : <<e>>[i] = e
      <4> HIDE DEF e
      <4> QED BY FirstAppended
    <3>2. e[1] # OK
      BY <2>1, <1>8, CodeValues
    <3>3. heard' = <<e>> /\ \A i \in DOMAIN heard' : heard'[i][1] # OK
      BY <2>1, <1>h, <3>1, <3>2
    <3> QED
      BY <3>3, <2>1, <1>2, <1>t, <1>c DEF Heard
  <2>2. CASE ~tell
    <3>1. \A i \in DOMAIN heard : heard[i][2] \in Branches \/ heard[i][1] # OK
      BY <1>t DEF TypeOK, Parent
    <3> QED
      BY <2>2, <3>1, <1>h, <1>2, <1>t, <1>c DEF Heard
  <2> QED
    BY <2>1, <2>2
<1>10. TimersStarted(tx, timers)'
  <2> SUFFICES ASSUME NEW b \in Branches,
                      NEW k \in {"resend", "expires", "cancelResend", "cancelExpires"},
                      <<b, k>> \in timers'
               PROVE  r.tx[b].state # LOCALLY_INITIATED
    BY <1>2 DEF TimersStarted
  <2>1. CASE <<b, k>> \in others
    BY <2>1, <1>c, StateValues DEF TimersStarted
  <2>2. CASE <<b, k>> \in StartedTimers(r.started)
    BY <2>2, <1>c, StateValues DEF StartedTimers
  <2> QED
    BY <2>1, <2>2, <1>2
<1>11. TypeOK'
  <2>1. tx' \in Children
    BY <1>2, <1>3 DEF SearchResult
  <2>2. parent' \in [state : {LOCALLY_INITIATED, CONFIRMED}, canceled : BOOLEAN,
                     recursing : BOOLEAN, dispatched : BOOLEAN]
    BY <1>2, <1>t DEF TypeOK, recursing, tell
  <2>3. timers' \subseteq (Branches \cup {Parent})
                          \X {"resend", "expires", "cancelResend", "cancelExpires"}
    BY <1>2, <1>3, <1>t DEF TypeOK, StartedTimers, SearchResult
  <2>4. /\ heard' \in Seq((Codes \cup {REQUEST_TIMEOUT, SERVER_INTERNAL_ERROR}) \X (Branches \cup {Parent}))
        /\ \A i \in DOMAIN heard' : heard'[i][1] = OK <=> heard'[i][2] # Parent
    <3>1. CASE tell
      BY <3>1, <1>h, <1>8, CodeValues
    <3>2. CASE ~tell
      BY <3>2, <1>h, <1>t DEF TypeOK
    <3> QED
      BY <3>1, <3>2
  <2> QED
    BY <2>1, <2>2, <2>3, <2>4 DEF TypeOK, Children, Child
<1>12. Fresh'
  BY <1>t DEF Fresh
<1> QED
  BY <1>5, <1>7, <1>9, <1>10, <1>11, <1>12 DEF IInv

-----------------------------------------------------------------------------
(* What a step does to the hunt that the application sees.                  *)

HuntStep == [Hunt!HuntNext]_(Hunt!huntVars)

\* No branch of the children t is asked, or pursued, that was not before.
NoneNew(t) ==
  \A a \in Branches :
     /\ t[a].state = LOCALLY_INITIATED <=> tx[a].state = LOCALLY_INITIATED
     /\ Pursued(t, a) => Pursued(tx, a)

\* The branches in S take the place of those that were pursued.
LEMMA HuntTries ==
  ASSUME NEW S \in SUBSET Branches, S \cap Asked = {}, \A a, b \in S : a = b,
         S # {} => ~parent.canceled /\ heard = <<>>,
         Asked \cup S \subseteq Asked', Pursuing' = S,
         parent'.canceled = parent.canceled, heard' = heard
  PROVE  Hunt!HuntNext
<1> DEFINE next == {OK} \X S
           more == {OK} \X (Asked' \ (Asked \cup S))
<1>1. Asked' \subseteq Branches
  BY DEF Asked
<1>2. next \in SUBSET ({OK} \X Branches) /\ next \cap ({OK} \X Asked) = {}
  OBVIOUS
<1>3. \A s, t \in next : s = t
  OBVIOUS
<1>4. more \in SUBSET (({OK} \X Branches) \ ({OK} \X Asked))
  BY <1>1
<1>5. {OK} \X Asked' = (({OK} \X Asked) \cup next) \cup more
  BY <1>1
<1>6. next # {} => ~parent.canceled /\ heard = <<>>
  OBVIOUS
<1>7. {OK} \X Pursuing' = next
  OBVIOUS
<1> HIDE DEF next, more
<1>8. Hunt!Try(next)
  BY <1>2, <1>3, <1>4, <1>5, <1>6, <1>7 DEF Hunt!Try
<1> QED
  BY <1>2, <1>8 DEF Hunt!HuntNext

\* Nobody is asked or pursued anew.
LEMMA HuntGoesOn ==
  ASSUME ChildrenInv(tx), Asked' = Asked, Pursuing' \subseteq Pursuing,
         parent'.canceled = parent.canceled, heard' = heard
  PROVE  HuntStep
<1>1. CASE Pursuing' = Pursuing
  BY <1>1 DEF HuntStep, Hunt!huntVars
<1>2. CASE Pursuing' # Pursuing
  <2>1. Pursuing' = {}
    BY <1>2 DEF ChildrenInv, Pursuing
  <2>2. Hunt!HuntNext
    BY <2>1, HuntTries
  <2> QED
    BY <2>2 DEF HuntStep
<1> QED
  BY <1>1, <1>2

\* A search that goes on is a step of the hunt.
LEMMA SearchImplements ==
  ASSUME IInv, NEW t \in Children, NEW canceled \in BOOLEAN, NEW others,
         ChildrenInv(t), Over(t, canceled), Heard(t), NoneNew(t),
         parent.canceled => canceled,
         SearchOn(t, canceled, others)
  PROVE  HuntStep
<1>1. PICK r \in startSequentialSearch(t, canceled) :
        LET recursing == r.started # {} \/ \E b \in Branches : Pursued(t, b)
            tell == ~recursing /\ ~parent.dispatched
        IN  /\ tx' = r.tx
            /\ parent' = [parent EXCEPT !.canceled = canceled, !.recursing = recursing,
                                        !.dispatched = @ \/ tell]
            /\ timers' = others \cup StartedTimers(r.started)
            /\ heard' = IF tell THEN Append(heard, <<findBestResponse(r.tx), Parent>>) ELSE heard
  BY DEF SearchOn
<1> DEFINE recursing == r.started # {} \/ \E b \in Branches : Pursued(t, b)
           tell == ~recursing /\ ~parent.dispatched
<1>2. /\ tx' = r.tx /\ parent'.canceled = canceled /\ parent.canceled \in BOOLEAN
      /\ heard' = IF tell THEN Append(heard, <<findBestResponse(r.tx), Parent>>) ELSE heard
  BY <1>1 DEF IInv, TypeOK
<1>3. SearchResult(t, r)
  BY StartResult
<1>4. \/ r.tx = t /\ r.started = {} /\ \E b \in Branches : Pursued(t, b)
      \/ r.tx = t /\ r.started = {} /\ canceled
      \/ /\ r.tx = t /\ r.started = {}
         /\ \A b \in Branches : t[b].state = LOCALLY_INITIATED => t[b].canceled
      \/ /\ ~canceled /\ \A b \in Branches : ~Pursued(t, b)
         /\ \E b \in Branches : t[b].state = LOCALLY_INITIATED /\ ~t[b].canceled
         /\ r.started \subseteq Startable(t)
         /\ r.started = {} => \A b \in Startable(t) : r.tx[b].state = TERMINATED
  BY StartResult
<1>c. \A b \in Branches :
        \/ r.tx[b] = t[b] /\ b \notin r.started
        \/ /\ r.tx[b].state = CALLING /\ ~Pursued(t, b) /\ b \in r.started
           /\ t[b].state = LOCALLY_INITIATED /\ r.tx[b].canceled = t[b].canceled
        \/ /\ r.tx[b].state = TERMINATED /\ ~Pursued(t, b) /\ b \notin r.started
           /\ t[b].state = LOCALLY_INITIATED
  BY <1>3, ChildChanges, StateValues DEF SearchResult, Children, Pursued
<1>d. r.started \subseteq Branches /\ \A a, b \in r.started : a = b
  BY <1>3 DEF SearchResult
<1>a. Asked \cup r.started \subseteq Asked' /\ r.started \cap Asked = {}
  <2>1. Asked' = { b \in Branches : r.tx[b].state # LOCALLY_INITIATED }
    BY <1>2 DEF Asked
  <2> QED
    BY <2>1, <1>c, <1>d, StateValues DEF Asked, NoneNew
<1>s. ASSUME NEW s \in r.started
      PROVE  ~canceled /\ ~parent.dispatched /\ heard = <<>> /\ ~t[s].canceled
  <2>1. s \in Branches /\ s \in Startable(t) /\ ~canceled
    BY <1>4, <1>d
  <2>2. t[s].state = LOCALLY_INITIATED /\ \A a \in 1 .. s - 1 : ~Holds(t, a)
    BY <2>1 DEF Startable
  <2>3. ~t[s].canceled
    BY <1>4, <2>1, <2>2 DEF ChildrenInv
  <2>4. ~Settled(t)
    BY <2>1, <2>2, <2>3 DEF Settled, Held, Holds
  <2> QED
    BY <2>1, <2>3, <2>4 DEF Over, Heard
<1>p. Pursuing' = IF r.started # {} THEN r.started ELSE { b \in Branches : Pursued(t, b) }
  <2>1. Pursuing' = { b \in Branches : Pursued(r.tx, b) }
    BY <1>2 DEF Pursuing, Pursued
  <2>2. CASE r.started = {}
    BY <2>1, <2>2, <1>c, StateValues DEF Pursued
  <2>3. CASE r.started # {}
    <3>1. \A b \in Branches : ~Pursued(t, b)
      BY <2>3, <1>4
    <3>2. \A b \in Branches : Pursued(r.tx, b) <=> b \in r.started
      BY <3>1, <1>c, <1>s, StateValues DEF Pursued
    <3> QED
      BY <2>1, <2>3, <3>2, <1>d
  <2> QED
    BY <2>2, <2>3
<1> HIDE DEF recursing, tell
\* The next server is asked.
<1>5. CASE r.started # {}
  <2>1. ~tell
    BY <1>5 DEF tell, recursing
  <2>2. ~canceled /\ heard = <<>>
    BY <1>5, <1>s
  <2>3. Hunt!HuntNext
    BY <2>1, <2>2, <1>2, <1>5, <1>a, <1>d, <1>p, HuntTries
  <2> QED
    BY <2>3 DEF HuntStep
\* One is still pursued.
<1>6. CASE r.started = {} /\ \E b \in Branches : Pursued(t, b)
  <2>1. ~tell /\ ~canceled
    BY <1>6 DEF tell, recursing, Over, Idle
  <2>2. r.tx = t
    BY <1>6, <1>4, <2>1, <1>c
  <2>3. Asked' = Asked
    BY <1>2, <2>2 DEF Asked, NoneNew
  <2>4. Pursuing' \subseteq Pursuing
    BY <1>6, <1>p DEF Pursuing, NoneNew
  <2> QED
    BY <2>1, <2>3, <2>4, <1>2, HuntGoesOn DEF IInv
\* The application is given a failure.
<1>7. CASE tell
  <2>1. r.started = {} /\ Pursuing' = {} /\ ~parent.dispatched
    BY <1>7, <1>p DEF tell, recursing
  <2>2. heard = <<>> /\ \A b \in Branches : r.tx[b].final # OK
    <3>1. \A b \in Branches : r.tx[b].final = t[b].final
      BY <1>3, ChildChanges DEF SearchResult, Children
    <3> QED
      BY <2>1, <3>1 DEF Heard
  <2> DEFINE f == <<findBestResponse(r.tx), Parent>>
             failures == ((Codes \ {OK}) \cup {REQUEST_TIMEOUT, SERVER_INTERNAL_ERROR}) \X {Parent}
  <2>3. f \in failures
    BY <2>2, <1>3, BestIsFailure DEF SearchResult
  <2>4. heard' = Append(heard, f)
    BY <1>2, <1>7
  <2> HIDE DEF f
  <2>5. heard' = <<f>>
    BY <2>2, <2>4, FirstAppended
  <2>6. \E more \in SUBSET (({OK} \X Branches) \ ({OK} \X Asked)) :
           {OK} \X Asked' = ({OK} \X Asked) \cup more
    <3>1. Asked' \subseteq Branches
      BY DEF Asked
    <3> DEFINE more == {OK} \X (Asked' \ Asked)
    <3>2. more \in SUBSET (({OK} \X Branches) \ ({OK} \X Asked))
      BY <3>1
    <3>3. {OK} \X Asked' = ({OK} \X Asked) \cup more
      BY <1>a
    <3> QED
      BY <3>2, <3>3
  <2>7. parent'.canceled \in {parent.canceled, TRUE}
    BY <1>2
  <2>8. {OK} \X Pursuing' = {}
    BY <2>1
  <2>9. Hunt!Report(f)
    BY <2>2, <2>5, <2>6, <2>7, <2>8 DEF Hunt!Report
  <2>10. Hunt!HuntNext
    BY <2>3, <2>9 DEF Hunt!HuntNext
  <2> QED
    BY <2>10 DEF HuntStep
\* The application was given its answer before.
<1>8. CASE r.started = {} /\ (\A b \in Branches : ~Pursued(t, b)) /\ ~tell
  <2>1. Pursuing' = {} /\ heard' = heard
    BY <1>2, <1>8, <1>p
  <2>2. CASE canceled = parent.canceled
    <3>1. Hunt!HuntNext
      BY <2>1, <2>2, <1>2, <1>8, <1>a, HuntTries
    <3> QED
      BY <3>1 DEF HuntStep
  <2>3. CASE canceled # parent.canceled
    <3>1. canceled /\ r.tx = t
      BY <2>3, <1>2, <1>4
    <3>2. Asked' = Asked
      BY <1>2, <3>1 DEF Asked, NoneNew
    <3>3. Hunt!Stop
      BY <3>1, <3>2, <2>1, <1>2 DEF Hunt!Stop
    <3> QED
      BY <3>3 DEF HuntStep, Hunt!HuntNext
  <2> QED
    BY <2>2, <2>3
<1> QED
  BY <1>5, <1>6, <1>7, <1>8

-----------------------------------------------------------------------------
(* What responses, timers and cancellations do to the children.            *)

LEMMA TimerOwner ==
  ASSUME IInv, NEW b \in Branches, NEW k, Fires(b, k)
  PROVE  tx[b].state # LOCALLY_INITIATED /\ parent.state # LOCALLY_INITIATED
<1>1. k \in {"resend", "expires", "cancelResend", "cancelExpires"}
  BY DEF IInv, TypeOK, Fires
<1> QED
  BY <1>1 DEF IInv, TimersStarted, Fresh, Fires

LEMMA SentOwner ==
  ASSUME IInv, NEW b \in Branches, Sent(b)
  PROVE  tx[b].state # LOCALLY_INITIATED /\ parent.state # LOCALLY_INITIATED
BY DEF IInv, ChildrenInv, Sent, Fresh

\* A change that pursues nobody anew and forgets no answer keeps the invariant
\* of the children, and so does one that cancels them all.
LEMMA ChangeKeeps ==
  ASSUME NEW t, NEW u \in Children, NEW canceled \in BOOLEAN,
         ChildrenInv(t), Over(t, canceled),
         \A b \in Branches :
            /\ u[b].state = LOCALLY_INITIATED <=> t[b].state = LOCALLY_INITIATED
            /\ u[b].sent > 0 \/ u[b].final # NoCode => u[b].state # LOCALLY_INITIATED
            /\ Pursued(u, b) => Pursued(t, b)
            /\ INVITE /\ u[b].canceled /\ u[b].state = PROCEEDING => u[b].cancel > 0,
         \/ \A b \in Branches : u[b].canceled
         \/ \A b \in Branches :
               /\ u[b].state = LOCALLY_INITIATED => u[b].canceled = t[b].canceled
               /\ Held(t, b) => Held(u, b)
  PROVE  ChildrenInv(u) /\ Over(u, canceled)
<1>1. ChildrenInv(u)
  <2>1. \A a, b \in Branches : Pursued(u, a) /\ Pursued(u, b) => a = b
    BY DEF ChildrenInv
  <2>2. \A a, b \in Branches :
          /\ u[a].state = LOCALLY_INITIATED /\ u[b].state = LOCALLY_INITIATED
          /\ u[a].canceled
          => u[b].canceled
    BY DEF ChildrenInv
  <2> QED
    BY <2>1, <2>2 DEF ChildrenInv
<1>2. Idle(t) => Idle(u)
  BY DEF Idle
<1>3. Settled(t) => Settled(u)
  <2>1. CASE \A b \in Branches : u[b].canceled
    BY <2>1 DEF Settled
  <2>2. CASE \A b \in Branches :
               /\ u[b].state = LOCALLY_INITIATED => u[b].canceled = t[b].canceled
               /\ Held(t, b) => Held(u, b)
    <3> SUFFICES ASSUME Settled(t), NEW b \in Branches, u[b].state = LOCALLY_INITIATED, ~u[b].canceled
                 PROVE  \E a \in 1 .. b - 1 : Held(u, a)
      BY DEF Settled
    <3>1. PICK a \in 1 .. b - 1 : Held(t, a)
      BY <2>2 DEF Settled
    <3>2. a \in Branches
      BY ConstantsAssumption DEF Branches
    <3> QED
      BY <2>2, <3>1, <3>2
  <2> QED
    BY <2>1, <2>2
<1> QED
  BY <1>1, <1>2, <1>3 DEF Over

\* With all children canceled, an answer or a cancellation is no surprise.
LEMMA CanceledAreOver ==
  ASSUME NEW t, \A b \in Branches : t[b].canceled
  PROVE  Idle(t) /\ Settled(t)
BY DEF Idle, Pursued, Settled

LEMMA HeardSame ==
  ASSUME IInv, NEW u, \A b \in Branches : u[b].final = tx[b].final
  PROVE  Heard(u)
<1>1. \A i \in DOMAIN heard : heard[i][1] = OK => heard[i][2] \in Branches
  BY DEF IInv, TypeOK, Parent
<1> QED
  BY <1>1 DEF IInv, Heard

LEMMA TimersSame ==
  ASSUME IInv, NEW u, NEW running \in SUBSET timers,
         \A b \in Branches : u[b].state = LOCALLY_INITIATED => tx[b].state = LOCALLY_INITIATED
  PROVE  TimersStarted(u, running)
BY DEF IInv, TimersStarted

\* A step that changes only children and timers.
LEMMA QuietStepKeeps ==
  ASSUME IInv, parent.state # LOCALLY_INITIATED, UNCHANGED <<parent, heard>>,
         ChildrenInv(tx'), Over(tx', parent.canceled), Heard(tx'), TimersStarted(tx', timers'), NoneNew(tx'),
         timers' \subseteq (Branches \cup {Parent})
                           \X {"resend", "expires", "cancelResend", "cancelExpires"}
  PROVE  IInv' /\ HuntStep
<1>1. TypeOK'
  BY DEF IInv, TypeOK, ChildrenInv, Children, Child
<1>2. Asked' = Asked /\ Pursuing' \subseteq Pursuing
  BY DEF Asked, Pursuing, Pursued, NoneNew
<1>3. HuntStep
  BY <1>2, HuntGoesOn DEF IInv
<1> QED
  BY <1>1, <1>3 DEF IInv, ChildrenInv, Over, Heard, TimersStarted, Fresh, Idle, Settled, Held, Pursued

\* The children after a final response to branch b.
LEMMA FinalChildren ==
  ASSUME IInv, NEW b \in Branches, NEW c \in Codes, Sent(b), tx[b].final = NoCode
  PROVE  /\ ChildrenInv(WithFinal(c, b)) /\ Over(WithFinal(c, b), parent.canceled)
         /\ TimersStarted(WithFinal(c, b), timers)
         /\ \A a \in Branches : WithFinal(c, b)[a].final = IF a = b THEN c ELSE tx[a].final
         /\ NoneNew(WithFinal(c, b))
<1> DEFINE u == WithFinal(c, b)
<1>0. tx \in Children /\ ChildrenInv(tx) /\ Over(tx, parent.canceled) /\ parent.canceled \in BOOLEAN
  BY DEF IInv, ChildrenInv, TypeOK
<1>1. tx[b].state # LOCALLY_INITIATED /\ tx[b].state \in States
  BY <1>0, SentOwner DEF Children, Child
<1>2. /\ AtLeast(tx[b].state, COMPLETE) \in States
      /\ AtLeast(tx[b].state, COMPLETE) \notin {LOCALLY_INITIATED, CALLING, PROCEEDING}
  BY <1>1, StateValues DEF AtLeast
<1>3. u = [tx EXCEPT ![b] = [tx[b] EXCEPT !.final = c, !.state = AtLeast(tx[b].state, COMPLETE),
                                          !.ack = INVITE /\ c # OK]]
  BY <1>0 DEF WithFinal, Children
<1>4. u \in Children
  <2>1. (INVITE /\ c # OK) \in BOOLEAN
    OBVIOUS
  <2>2. \A ch \in Child, s \in States, a \in BOOLEAN :
          [ch EXCEPT !.final = c, !.state = s, !.ack = a] \in Child
    BY DEF Child
  <2> DEFINE rec == [tx[b] EXCEPT !.final = c, !.state = AtLeast(tx[b].state, COMPLETE),
                                  !.ack = INVITE /\ c # OK]
  <2>3. rec \in Child
    BY <1>0, <1>2, <2>1, <2>2 DEF Children
  <2> HIDE DEF rec
  <2>4. u = [tx EXCEPT ![b] = rec]
    BY <1>3 DEF rec
  <2> QED
    BY <1>0, <2>3, <2>4 DEF Children
<1>5. \A a \in Branches \ {b} : u[a] = tx[a]
  BY <1>0, <1>3 DEF Children
<1>6. /\ u[b].final = c /\ u[b].state = AtLeast(tx[b].state, COMPLETE)
      /\ u[b].canceled = tx[b].canceled /\ u[b].sent = tx[b].sent /\ u[b].cancel = tx[b].cancel
      /\ u[b].provisional = tx[b].provisional
  BY <1>0, <1>3 DEF Children, Child
<1> HIDE DEF u
<1>7. c # NoCode
  BY CodeValues
<1>8. \A a \in Branches :
        /\ u[a].state = LOCALLY_INITIATED <=> tx[a].state = LOCALLY_INITIATED
        /\ u[a].sent > 0 \/ u[a].final # NoCode => u[a].state # LOCALLY_INITIATED
        /\ Pursued(u, a) => Pursued(tx, a)
        /\ INVITE /\ u[a].canceled /\ u[a].state = PROCEEDING => u[a].cancel > 0
        /\ u[a].state = LOCALLY_INITIATED => u[a].canceled = tx[a].canceled
        /\ Held(tx, a) => Held(u, a)
  <2>1. ASSUME NEW a \in Branches, a # b
        PROVE  /\ u[a].state = LOCALLY_INITIATED <=> tx[a].state = LOCALLY_INITIATED
               /\ u[a].sent > 0 \/ u[a].final # NoCode => u[a].state # LOCALLY_INITIATED
               /\ Pursued(u, a) => Pursued(tx, a)
               /\ INVITE /\ u[a].canceled /\ u[a].state = PROCEEDING => u[a].cancel > 0
               /\ u[a].state = LOCALLY_INITIATED => u[a].canceled = tx[a].canceled
               /\ Held(tx, a) => Held(u, a)
    BY <2>1, <1>0, <1>5 DEF ChildrenInv, Pursued, Held
  <2>2. /\ u[b].state # LOCALLY_INITIATED /\ ~Pursued(u, b)
        /\ u[b].state # PROCEEDING /\ (Held(tx, b) => Held(u, b))
    BY <1>2, <1>6, <1>7 DEF Pursued, Held
  <2> QED
    BY <2>1, <2>2, <1>1
<1>9. ChildrenInv(u) /\ Over(u, parent.canceled)
  BY <1>0, <1>4, <1>8, ChangeKeeps
<1>10. TimersStarted(u, timers)
  BY <1>8, TimersSame
<1>11. \A a \in Branches : u[a].final = IF a = b THEN c ELSE tx[a].final
  BY <1>5, <1>6
<1>12. NoneNew(u)
  BY <1>8 DEF NoneNew
<1> QED
  BY <1>9, <1>10, <1>11, <1>12 DEF u

\* The children after all of t were canceled.
LEMMA CanceledChildren ==
  ASSUME NEW t, ChildrenInv(t)
  PROVE  /\ ChildrenInv(cancelChildren(t))
         /\ Idle(cancelChildren(t)) /\ Settled(cancelChildren(t))
         /\ \A b \in Branches : /\ cancelChildren(t)[b].final = t[b].final
                                /\ cancelChildren(t)[b].state = t[b].state
<1> DEFINE u == cancelChildren(t)
<1>1. 1 \in 0 .. RESEND_TIMES /\ t \in Children
  BY ConstantsAssumption DEF ChildrenInv
<1>2. ASSUME NEW b \in Branches
      PROVE  /\ u[b] \in Child /\ u[b].canceled /\ u[b].state = t[b].state
             /\ u[b].final = t[b].final /\ u[b].sent = t[b].sent
             /\ INVITE /\ u[b].state = PROCEEDING => u[b].cancel > 0
  <2>1. t[b] \in Child /\ (INVITE /\ t[b].canceled /\ t[b].state = PROCEEDING => t[b].cancel > 0)
    BY <1>1 DEF Children, ChildrenInv
  <2>2. u[b] = [t[b] EXCEPT !.canceled = TRUE, !.cancel = IF SendsCancel(t, b) THEN 1 ELSE t[b].cancel]
    BY <2>1 DEF cancelChildren, cancel, Child
  <2>3. INVITE /\ t[b].state = PROCEEDING /\ ~SendsCancel(t, b) => t[b].cancel > 0
    BY <2>1 DEF SendsCancel, Child
  <2> DEFINE n == IF SendsCancel(t, b) THEN 1 ELSE t[b].cancel
  <2>4. n \in 0 .. RESEND_TIMES /\ (INVITE /\ t[b].state = PROCEEDING => n > 0)
    BY <1>1, <2>1, <2>3 DEF Child
  <2>5. u[b] = [t[b] EXCEPT !.canceled = TRUE, !.cancel = n]
    BY <2>2
  <2> HIDE DEF n, u
  <2> QED
    BY <2>1, <2>4, <2>5 DEF Child
<1>3. u \in Children
  BY <1>2 DEF Children, cancelChildren
<1>4. ChildrenInv(u)
  BY <1>2, <1>3 DEF ChildrenInv, Pursued
<1>5. Idle(u) /\ Settled(u)
  BY <1>2, CanceledAreOver
<1> QED
  BY <1>2, <1>4, <1>5

\* The children after the client canceled branch b, when nothing was heard of it.
LEMMA CanceledChild ==
  ASSUME IInv, NEW b \in Branches, tx[b].state # LOCALLY_INITIATED,
         ~tx[b].provisional, tx[b].final = NoCode,
         NEW u, u = [tx EXCEPT ![b] = cancel(tx, b)]
  PROVE  ChildrenInv(u) /\ Over(u, parent.canceled) /\ Heard(u) /\ NoneNew(u)
<1>0. /\ tx \in Children /\ ChildrenInv(tx) /\ Over(tx, parent.canceled) /\ parent.canceled \in BOOLEAN
      /\ tx[b] \in Child /\ 1 \in 0 .. RESEND_TIMES
  BY ConstantsAssumption DEF IInv, ChildrenInv, TypeOK, Children
<1> DEFINE n == IF SendsCancel(tx, b) THEN 1 ELSE tx[b].cancel
<1>1. n \in 0 .. RESEND_TIMES
  BY <1>0 DEF Child
<1>2. INVITE /\ tx[b].state = PROCEEDING => n > 0
  BY <1>0 DEF SendsCancel, ChildrenInv, Child
<1>3. cancel(tx, b) = [tx[b] EXCEPT !.canceled = TRUE, !.cancel = n]
  BY <1>0 DEF cancel, Child
<1> HIDE DEF n
<1>4. /\ cancel(tx, b) \in Child /\ cancel(tx, b).canceled /\ cancel(tx, b).state = tx[b].state
      /\ cancel(tx, b).final = tx[b].final /\ cancel(tx, b).sent = tx[b].sent
      /\ cancel(tx, b).cancel = n
  BY <1>0, <1>1, <1>3 DEF Child
<1>5. /\ u \in Children /\ u[b] = cancel(tx, b)
      /\ \A a \in Branches \ {b} : u[a] = tx[a]
  BY <1>0, <1>4 DEF Children
<1>6. \A a \in Branches :
        /\ u[a].state = tx[a].state /\ u[a].final = tx[a].final
        /\ u[a].sent > 0 \/ u[a].final # NoCode => u[a].state # LOCALLY_INITIATED
        /\ Pursued(u, a) => Pursued(tx, a)
        /\ INVITE /\ u[a].canceled /\ u[a].state = PROCEEDING => u[a].cancel > 0
        /\ u[a].state = LOCALLY_INITIATED => u[a].canceled = tx[a].canceled
        /\ Held(tx, a) => Held(u, a)
  <2>1. ASSUME NEW a \in Branches, a # b
        PROVE  /\ u[a].state = tx[a].state /\ u[a].final = tx[a].final
               /\ u[a].sent > 0 \/ u[a].final # NoCode => u[a].state # LOCALLY_INITIATED
               /\ Pursued(u, a) => Pursued(tx, a)
               /\ INVITE /\ u[a].canceled /\ u[a].state = PROCEEDING => u[a].cancel > 0
               /\ u[a].state = LOCALLY_INITIATED => u[a].canceled = tx[a].canceled
               /\ Held(tx, a) => Held(u, a)
    BY <2>1, <1>0, <1>5 DEF ChildrenInv, Pursued, Held
  <2>2. /\ u[b].state # LOCALLY_INITIATED /\ ~Pursued(u, b) /\ ~Held(tx, b)
        /\ INVITE /\ u[b].state = PROCEEDING => u[b].cancel > 0
        /\ u[b].state = tx[b].state /\ u[b].final = tx[b].final
    BY <1>2, <1>4, <1>5 DEF Pursued, Held
  <2> QED
    BY <2>1, <2>2
<1>7. ChildrenInv(u) /\ Over(u, parent.canceled)
  <2>1. \A a \in Branches :
          /\ u[a].state = LOCALLY_INITIATED <=> tx[a].state = LOCALLY_INITIATED
          /\ u[a].sent > 0 \/ u[a].final # NoCode => u[a].state # LOCALLY_INITIATED
          /\ Pursued(u, a) => Pursued(tx, a)
          /\ INVITE /\ u[a].canceled /\ u[a].state = PROCEEDING => u[a].cancel > 0
    BY <1>6
  <2>2. \A a \in Branches :
          /\ u[a].state = LOCALLY_INITIATED => u[a].canceled = tx[a].canceled
          /\ Held(tx, a) => Held(u, a)
    BY <1>6
  <2>3. u \in Children /\ ChildrenInv(tx) /\ Over(tx, parent.canceled) /\ parent.canceled \in BOOLEAN
    BY <1>0, <1>5
  <2> QED
    BY ONLY <2>1, <2>2, <2>3, ChangeKeeps
<1>8. Heard(u)
  BY <1>6, HeardSame
<1> QED
  BY <1>6, <1>7, <1>8 DEF NoneNew

\* The children after a step of branch b that changes only how far it is, what
\* it was sent and whether something was heard of it.
LEMMA ChangedChild ==
  ASSUME IInv, NEW b \in Branches, tx[b].state # LOCALLY_INITIATED,
         NEW c \in Child, c.state # LOCALLY_INITIATED,
         c.canceled = tx[b].canceled, c.final = tx[b].final,
         c.state \in {CALLING, PROCEEDING} => tx[b].state \in {CALLING, PROCEEDING},
         INVITE /\ c.canceled /\ c.state = PROCEEDING => c.cancel > 0,
         tx[b].provisional => c.provisional,
         NEW u, u = [tx EXCEPT ![b] = c]
  PROVE  ChildrenInv(u) /\ Over(u, parent.canceled) /\ Heard(u) /\ NoneNew(u)
<1>0. /\ tx \in Children /\ ChildrenInv(tx) /\ Over(tx, parent.canceled) /\ parent.canceled \in BOOLEAN
  BY DEF IInv, ChildrenInv, TypeOK
<1>1. /\ u \in Children /\ u[b] = c
      /\ \A a \in Branches \ {b} : u[a] = tx[a]
  BY <1>0 DEF Children
<1>2. \A a \in Branches :
        /\ u[a].state = LOCALLY_INITIATED <=> tx[a].state = LOCALLY_INITIATED
        /\ u[a].final = tx[a].final
        /\ u[a].sent > 0 \/ u[a].final # NoCode => u[a].state # LOCALLY_INITIATED
        /\ Pursued(u, a) => Pursued(tx, a)
        /\ INVITE /\ u[a].canceled /\ u[a].state = PROCEEDING => u[a].cancel > 0
        /\ u[a].state = LOCALLY_INITIATED => u[a].canceled = tx[a].canceled
        /\ Held(tx, a) => Held(u, a)
  <2>1. ASSUME NEW a \in Branches, a # b
        PROVE  /\ u[a].state = LOCALLY_INITIATED <=> tx[a].state = LOCALLY_INITIATED
               /\ u[a].final = tx[a].final
               /\ u[a].sent > 0 \/ u[a].final # NoCode => u[a].state # LOCALLY_INITIATED
               /\ Pursued(u, a) => Pursued(tx, a)
               /\ INVITE /\ u[a].canceled /\ u[a].state = PROCEEDING => u[a].cancel > 0
               /\ u[a].state = LOCALLY_INITIATED => u[a].canceled = tx[a].canceled
               /\ Held(tx, a) => Held(u, a)
    BY <2>1, <1>0, <1>1 DEF ChildrenInv, Pursued, Held
  <2>2. /\ u[b].state # LOCALLY_INITIATED /\ (Pursued(u, b) => Pursued(tx, b))
        /\ Held(tx, b) => Held(u, b)
        /\ INVITE /\ u[b].canceled /\ u[b].state = PROCEEDING => u[b].cancel > 0
        /\ u[b].final = tx[b].final
    BY <1>1 DEF Pursued, Held
  <2> QED
    BY <2>1, <2>2
<1>3. ChildrenInv(u) /\ Over(u, parent.canceled)
  <2>1. \A a \in Branches :
          /\ u[a].state = LOCALLY_INITIATED <=> tx[a].state = LOCALLY_INITIATED
          /\ u[a].sent > 0 \/ u[a].final # NoCode => u[a].state # LOCALLY_INITIATED
          /\ Pursued(u, a) => Pursued(tx, a)
          /\ INVITE /\ u[a].canceled /\ u[a].state = PROCEEDING => u[a].cancel > 0
    BY <1>2
  <2>2. \A a \in Branches :
          /\ u[a].state = LOCALLY_INITIATED => u[a].canceled = tx[a].canceled
          /\ Held(tx, a) => Held(u, a)
    BY <1>2
  <2>3. u \in Children /\ ChildrenInv(tx) /\ Over(tx, parent.canceled) /\ parent.canceled \in BOOLEAN
    BY <1>0, <1>1
  <2> QED
    BY ONLY <2>1, <2>2, <2>3, ChangeKeeps
<1>4. Heard(u)
  BY <1>2, HeardSame
<1> QED
  BY <1>2, <1>3, <1>4 DEF NoneNew

-----------------------------------------------------------------------------
(* One lemma per action.                                                    *)

LEMMA KeepSendRequest == ASSUME IInv, SendRequest PROVE IInv' /\ HuntStep
<1>1. PICK r \in recurseDnsSrvChildren(tx) :
        /\ tx' = r.tx
        /\ parent' = [parent EXCEPT !.state = CONFIRMED, !.recursing = r.started # {}]
        /\ timers' = timers \cup {<<Parent, "expires">>} \cup StartedTimers(r.started)
        /\ heard' = heard
  BY DEF SendRequest
<1>2. /\ tx \in Children /\ TypeOK /\ ChildrenInv(tx) /\ Heard(tx)
      /\ \A b \in Branches : tx[b].state = LOCALLY_INITIATED /\ ~tx[b].canceled
      /\ timers = {} /\ heard = <<>> /\ ~parent.canceled /\ ~parent.dispatched
  BY DEF SendRequest, IInv, Fresh, ChildrenInv
<1>3. SearchResult(tx, r)
  BY <1>2, RecurseResult
<1>4. /\ parent'.state = CONFIRMED /\ ~parent'.canceled /\ ~parent'.dispatched
      /\ parent' \in [state : {LOCALLY_INITIATED, CONFIRMED}, canceled : BOOLEAN,
                      recursing : BOOLEAN, dispatched : BOOLEAN]
  <2>1. (r.started # {}) \in BOOLEAN
    OBVIOUS
  <2> QED
    BY <1>1, <1>2, <2>1 DEF TypeOK
<1>5. r.tx \in Children /\ r.started \subseteq Branches /\ \A a, b \in r.started : a = b
  BY <1>3 DEF SearchResult
<1>6. \A b \in Branches :
        /\ ~r.tx[b].canceled /\ r.tx[b].final = tx[b].final
        /\ r.tx[b].state = CALLING => b \in r.started
        /\ b \in r.started => r.tx[b].state = CALLING
        /\ r.tx[b].state \in {LOCALLY_INITIATED, CALLING, TERMINATED}
        /\ r.tx[b].sent > 0 \/ r.tx[b].final # NoCode => r.tx[b].state # LOCALLY_INITIATED
  <2> SUFFICES ASSUME NEW b \in Branches
               PROVE  /\ ~r.tx[b].canceled /\ r.tx[b].final = tx[b].final
                      /\ r.tx[b].state = CALLING => b \in r.started
                      /\ b \in r.started => r.tx[b].state = CALLING
                      /\ r.tx[b].state \in {LOCALLY_INITIATED, CALLING, TERMINATED}
                      /\ r.tx[b].sent > 0 \/ r.tx[b].final # NoCode => r.tx[b].state # LOCALLY_INITIATED
    OBVIOUS
  <2>1. \/ b \in r.started /\ r.tx[b] = Started(tx[b])
        \/ b \notin r.started /\ r.tx[b] = tx[b]
        \/ b \notin r.started /\ r.tx[b] = GivenUp(tx[b])
    BY <1>3 DEF SearchResult
  <2>2. tx[b] \in Child /\ (tx[b].sent > 0 \/ tx[b].final # NoCode => tx[b].state # LOCALLY_INITIATED)
    BY <1>2 DEF Children, ChildrenInv
  <2> QED
    BY <2>1, <2>2, <1>2, ChildChanges, StateValues
<1>7. ChildrenInv(r.tx)
  <2>1. \A b \in Branches : Pursued(r.tx, b) => b \in r.started
    BY <1>6, StateValues DEF Pursued
  <2> QED
    BY <1>5, <1>6, <2>1, StateValues DEF ChildrenInv
<1>8. ChildrenInv(tx)'
  BY <1>1, <1>7 DEF ChildrenInv, Pursued
<1>9. Over(tx, parent.canceled)' /\ Fresh'
  BY <1>4, StateValues DEF Over, Fresh
<1>10. Heard(tx)'
  BY <1>1, <1>2, <1>6 DEF Heard
<1>11. TimersStarted(tx, timers)'
  <2> SUFFICES ASSUME NEW b \in Branches,
                      NEW k \in {"resend", "expires", "cancelResend", "cancelExpires"},
                      <<b, k>> \in timers'
               PROVE  r.tx[b].state # LOCALLY_INITIATED
    BY <1>1 DEF TimersStarted
  <2>1. b # Parent
    BY ConstantsAssumption DEF Branches, Parent
  <2>2. b \in r.started
    BY <2>1, <1>1, <1>2 DEF StartedTimers
  <2> QED
    BY <2>2, <1>6, StateValues
<1>12. timers' \subseteq (Branches \cup {Parent}) \X {"resend", "expires", "cancelResend", "cancelExpires"}
  BY <1>1, <1>2, <1>5 DEF StartedTimers
<1>13. TypeOK'
  BY <1>1, <1>2, <1>4, <1>5, <1>12 DEF TypeOK, Children, Child
<1>14. Asked = {} /\ Pursuing' = r.started
  BY <1>1, <1>2, <1>5, <1>6, StateValues DEF Asked, Pursuing, Pursued
<1>15. r.started \subseteq Asked'
  BY <1>1, <1>5, <1>6, StateValues DEF Asked
<1>16. parent'.canceled = parent.canceled
  BY <1>1, <1>2 DEF TypeOK
<1>17. Hunt!HuntNext
  BY <1>1, <1>2, <1>5, <1>14, <1>15, <1>16, HuntTries
<1> QED
  BY <1>8, <1>9, <1>10, <1>11, <1>13, <1>17 DEF IInv, HuntStep

\* Nothing was answered before it was asked for.
LEMMA HeardOwner ==
  ASSUME IInv, heard # <<>>
  PROVE  parent.state # LOCALLY_INITIATED
BY DEF IInv, Fresh

\* What a step of branch b may do to timers and children, and nothing else.
LEMMA ChildStepKeeps ==
  ASSUME IInv, NEW b \in Branches, parent.state # LOCALLY_INITIATED, UNCHANGED <<parent, heard>>,
         tx[b].state # LOCALLY_INITIATED,
         timers' \subseteq timers \cup ({b} \X {"cancelResend", "cancelExpires"}),
         \/ tx' = tx
         \/ /\ ~tx[b].provisional /\ tx[b].final = NoCode
            /\ tx' = [tx EXCEPT ![b] = cancel(tx, b)]
         \/ \E c \in Child :
               /\ c.state # LOCALLY_INITIATED
               /\ c.canceled = tx[b].canceled /\ c.final = tx[b].final
               /\ c.state \in {CALLING, PROCEEDING} => tx[b].state \in {CALLING, PROCEEDING}
               /\ INVITE /\ c.canceled /\ c.state = PROCEEDING => c.cancel > 0
               /\ tx[b].provisional => c.provisional
               /\ tx' = [tx EXCEPT ![b] = c]
  PROVE  IInv' /\ HuntStep
<1>1. ChildrenInv(tx') /\ Over(tx', parent.canceled) /\ Heard(tx') /\ NoneNew(tx')
  <2>1. CASE tx' = tx
    BY <2>1 DEF IInv, NoneNew
  <2>2. CASE /\ ~tx[b].provisional /\ tx[b].final = NoCode
             /\ tx' = [tx EXCEPT ![b] = cancel(tx, b)]
    BY <2>2, CanceledChild
  <2>3. ASSUME NEW c \in Child,
               /\ c.state # LOCALLY_INITIATED
               /\ c.canceled = tx[b].canceled /\ c.final = tx[b].final
               /\ c.state \in {CALLING, PROCEEDING} => tx[b].state \in {CALLING, PROCEEDING}
               /\ INVITE /\ c.canceled /\ c.state = PROCEEDING => c.cancel > 0
               /\ tx[b].provisional => c.provisional
               /\ tx' = [tx EXCEPT ![b] = c]
        PROVE  ChildrenInv(tx') /\ Over(tx', parent.canceled) /\ Heard(tx') /\ NoneNew(tx')
    <3>1. c.canceled = tx[b].canceled /\ c.final = tx[b].final
      BY <2>3
    <3>2. c.state \in {CALLING, PROCEEDING} => tx[b].state \in {CALLING, PROCEEDING}
      BY <2>3
    <3>3. INVITE /\ c.canceled /\ c.state = PROCEEDING => c.cancel > 0
      BY <2>3
    <3>4. (tx[b].provisional => c.provisional) /\ c.state # LOCALLY_INITIATED
      BY <2>3
    <3>5. tx' = [tx EXCEPT ![b] = c]
      BY <2>3
    <3>6. IInv /\ b \in Branches /\ c \in Child /\ tx[b].state # LOCALLY_INITIATED
      OBVIOUS
    <3> QED
      BY ONLY <3>1, <3>2, <3>3, <3>4, <3>5, <3>6, ChangedChild
  <2> QED
    BY <2>1, <2>2, <2>3
<1>2. TimersStarted(tx', timers')
  <2>1. tx'[b].state # LOCALLY_INITIATED
    BY <1>1 DEF NoneNew
  <2>2. \A a \in Branches, k \in {"resend", "expires", "cancelResend", "cancelExpires"} :
          <<a, k>> \in timers' => <<a, k>> \in timers \/ a = b
    OBVIOUS
  <2> QED
    BY <1>1, <2>1, <2>2 DEF IInv, TimersStarted, NoneNew
<1>3. timers' \subseteq (Branches \cup {Parent})
                        \X {"resend", "expires", "cancelResend", "cancelExpires"}
  BY DEF IInv, TypeOK
<1> QED
  BY <1>1, <1>2, <1>3, QuietStepKeeps

LEMMA ChildFacts ==
  ASSUME IInv, NEW b \in Branches
  PROVE  /\ tx \in Children /\ tx[b] \in Child
         /\ INVITE /\ tx[b].canceled /\ tx[b].state = PROCEEDING => tx[b].cancel > 0
         /\ 1 \in 0 .. RESEND_TIMES
BY ConstantsAssumption DEF IInv, ChildrenInv, Children

LEMMA KeepCancelTree == ASSUME IInv, CancelTree PROVE IInv' /\ HuntStep
<1>1. /\ tx' = cancelChildren(tx) /\ parent' = [parent EXCEPT !.canceled = TRUE]
      /\ timers' = timers /\ heard' = heard /\ parent.state = CONFIRMED
  BY DEF CancelTree, MayCancel
<1> DEFINE u == cancelChildren(tx)
<1>2. /\ ChildrenInv(u) /\ Idle(u) /\ Settled(u)
      /\ \A b \in Branches : u[b].final = tx[b].final /\ u[b].state = tx[b].state
  BY CanceledChildren DEF IInv
<1> HIDE DEF u
<1>3. tx' = u
  BY <1>1 DEF u
<1>4. /\ parent'.canceled /\ parent'.state = CONFIRMED /\ parent'.dispatched = parent.dispatched
      /\ parent' \in [state : {LOCALLY_INITIATED, CONFIRMED}, canceled : BOOLEAN,
                      recursing : BOOLEAN, dispatched : BOOLEAN]
  BY <1>1 DEF IInv, TypeOK
<1>5. Heard(u) /\ TimersStarted(u, timers)
  BY <1>2, HeardSame, TimersSame
<1>6. TypeOK'
  BY <1>1, <1>2, <1>3, <1>4 DEF IInv, TypeOK, ChildrenInv, Children, Child
<1>7. Over(tx, parent.canceled)'
  BY <1>2, <1>3, <1>4 DEF Over, Idle, Pursued
<1>8. Heard(tx)' /\ TimersStarted(tx, timers)' /\ ChildrenInv(tx)'
  BY <1>1, <1>2, <1>3, <1>4, <1>5 DEF Heard, TimersStarted, ChildrenInv, Pursued
<1>9. Fresh'
  BY <1>4, StateValues DEF Fresh
<1>10. Asked' = Asked /\ Pursuing' = {}
  BY <1>2, <1>3 DEF Asked, Pursuing, Pursued, Idle
<1>11. Hunt!Stop
  BY <1>1, <1>4, <1>10 DEF Hunt!Stop
<1> QED
  BY <1>6, <1>7, <1>8, <1>9, <1>11 DEF IInv, HuntStep, Hunt!HuntNext

LEMMA KeepCancelChild == ASSUME IInv, NEW b \in Branches, CancelChild(b) PROVE IInv' /\ HuntStep
<1> DEFINE c == [tx[b] EXCEPT !.cancel = 1]
<1>1. tx' = [tx EXCEPT ![b] = c]
  BY ChildFacts DEF CancelChild, Children
<1>2. /\ c \in Child /\ c.state = tx[b].state /\ c.canceled = tx[b].canceled
      /\ c.final = tx[b].final /\ c.provisional = tx[b].provisional /\ c.cancel = 1
  BY ChildFacts DEF Child
<1> HIDE DEF c
<1>3. /\ parent.state # LOCALLY_INITIATED /\ tx[b].state # LOCALLY_INITIATED
      /\ UNCHANGED <<parent, heard>>
      /\ timers' \subseteq timers \cup ({b} \X {"cancelResend", "cancelExpires"})
  BY StateValues DEF CancelChild, MayCancel
<1>4. INVITE /\ c.canceled /\ c.state = PROCEEDING => c.cancel > 0
  BY <1>2
<1> QED
  BY <1>1, <1>2, <1>3, <1>4, ChildStepKeeps

LEMMA KeepSendAck == ASSUME IInv, NEW b \in Branches, SendAck(b) PROVE IInv' /\ HuntStep
<1> DEFINE c == [tx[b] EXCEPT !.ack = TRUE]
<1>1. tx' = [tx EXCEPT ![b] = c]
  BY ChildFacts DEF SendAck, Children
<1>2. /\ c \in Child /\ c.state = tx[b].state /\ c.canceled = tx[b].canceled
      /\ c.final = tx[b].final /\ c.provisional = tx[b].provisional /\ c.cancel = tx[b].cancel
  BY ChildFacts DEF Child
<1> HIDE DEF c
<1>3. tx[b].final = OK
  BY DEF SendAck, IInv, Heard
<1>4. parent.state # LOCALLY_INITIATED
  <2>1. heard # <<>>
    BY DEF SendAck
  <2> QED
    BY <2>1, HeardOwner
<1>5. UNCHANGED <<parent, heard, timers>>
  BY DEF SendAck
<1>6. CASE tx[b].state # LOCALLY_INITIATED
  BY <1>1, <1>2, <1>4, <1>5, <1>6, ChildFacts, ChildStepKeeps
<1>7. tx[b].state # LOCALLY_INITIATED
  BY <1>3, CodeValues DEF IInv, ChildrenInv
<1> QED
  BY <1>6, <1>7

LEMMA KeepReceiveProvisional == ASSUME IInv, NEW b \in Branches, ReceiveProvisional(b) PROVE IInv' /\ HuntStep
<1>1. tx[b].state # LOCALLY_INITIATED /\ parent.state # LOCALLY_INITIATED
  BY SentOwner DEF ReceiveProvisional
<1> DEFINE n == IF LateCancel(b) THEN 1 ELSE tx[b].cancel
           st == AtLeast(tx[b].state, PROCEEDING)
           c == [tx[b] EXCEPT !.provisional = TRUE, !.state = st, !.cancel = n]
<1>2. tx' = [tx EXCEPT ![b] = c]
  BY ChildFacts DEF ReceiveProvisional, Children
<1>3. n \in 0 .. RESEND_TIMES /\ (INVITE /\ tx[b].canceled => n > 0)
  BY ChildFacts DEF LateCancel, Child
<1>4. /\ st \in States /\ st # LOCALLY_INITIATED
      /\ st \in {CALLING, PROCEEDING} => tx[b].state \in {CALLING, PROCEEDING}
  <2>1. tx[b].state \in States
    BY ChildFacts DEF Child
  <2> QED
    BY <1>1, <2>1, StateValues DEF AtLeast
<1> HIDE DEF n, st
<1>5. /\ c \in Child /\ c.state = st /\ c.canceled = tx[b].canceled
      /\ c.final = tx[b].final /\ c.provisional /\ c.cancel = n
  BY <1>3, <1>4, ChildFacts DEF Child
<1> HIDE DEF c
<1>6. UNCHANGED <<parent, heard, timers>>
  BY DEF ReceiveProvisional
<1> QED
  BY <1>1, <1>2, <1>3, <1>4, <1>5, <1>6, ChildStepKeeps

LEMMA KeepResendRequest == ASSUME IInv, NEW b \in Branches, ResendRequest(b) PROVE IInv' /\ HuntStep
<1>1. tx[b].state # LOCALLY_INITIATED /\ parent.state # LOCALLY_INITIATED
  BY TimerOwner DEF ResendRequest
<1> DEFINE c == [tx[b] EXCEPT !.sent = tx[b].sent + 1]
<1>2. tx' = [tx EXCEPT ![b] = c]
  BY ChildFacts DEF ResendRequest, Children
<1>3. tx[b].sent + 1 \in 0 .. RESEND_TIMES
  BY ChildFacts, ConstantsAssumption DEF ResendRequest, Child
<1>4. /\ c \in Child /\ c.state = tx[b].state /\ c.canceled = tx[b].canceled
      /\ c.final = tx[b].final /\ c.provisional = tx[b].provisional /\ c.cancel = tx[b].cancel
  BY <1>3, ChildFacts DEF Child
<1> HIDE DEF c
<1>5. UNCHANGED <<parent, heard, timers>>
  BY DEF ResendRequest
<1> QED
  BY <1>1, <1>2, <1>4, <1>5, ChildFacts, ChildStepKeeps

LEMMA CallingChild ==
  ASSUME IInv, NEW b \in Branches, tx[b].state # LOCALLY_INITIATED
  PROVE  \E c \in Child :
               /\ c.state # LOCALLY_INITIATED
               /\ c.canceled = tx[b].canceled /\ c.final = tx[b].final
               /\ c.state \in {CALLING, PROCEEDING} => tx[b].state \in {CALLING, PROCEEDING}
               /\ INVITE /\ c.canceled /\ c.state = PROCEEDING => c.cancel > 0
               /\ tx[b].provisional => c.provisional
               /\ Calling(tx, b, COMPLETE) = [tx EXCEPT ![b] = c]
<1> DEFINE st == IF tx[b].state = CALLING THEN COMPLETE ELSE tx[b].state
           c == [tx[b] EXCEPT !.state = st]
<1>1. Calling(tx, b, COMPLETE) = [tx EXCEPT ![b] = c]
  BY ChildFacts DEF Calling, Children
<1>2. /\ st \in States /\ st # LOCALLY_INITIATED
      /\ st \in {CALLING, PROCEEDING} => st = tx[b].state
  BY ChildFacts, StateValues DEF Child
<1> HIDE DEF st
<1>3. /\ c \in Child /\ c.state = st /\ c.canceled = tx[b].canceled
      /\ c.final = tx[b].final /\ c.provisional = tx[b].provisional /\ c.cancel = tx[b].cancel
  BY <1>2, ChildFacts DEF Child
<1> HIDE DEF c
<1>4. INVITE /\ c.canceled /\ c.state = PROCEEDING => c.cancel > 0
  BY <1>2, <1>3, ChildFacts
<1> QED
  BY <1>1, <1>2, <1>3, <1>4

LEMMA KeepResendCancel == ASSUME IInv, NEW b \in Branches, ResendCancel(b) PROVE IInv' /\ HuntStep
<1>1. tx[b].state # LOCALLY_INITIATED /\ parent.state # LOCALLY_INITIATED
  BY TimerOwner DEF ResendCancel
<1>2. UNCHANGED <<parent, heard>> /\ timers' \subseteq timers
  BY DEF ResendCancel, OtherTimers
<1>3. CASE tx' = Calling(tx, b, COMPLETE)
  BY <1>1, <1>2, <1>3, CallingChild, ChildStepKeeps
<1>4. CASE tx[b].cancel < RESEND_TIMES /\ tx' = [tx EXCEPT ![b].cancel = @ + 1]
  <2> DEFINE c == [tx[b] EXCEPT !.cancel = tx[b].cancel + 1]
  <2>1. tx' = [tx EXCEPT ![b] = c]
    BY <1>4, ChildFacts DEF Children
  <2>2. tx[b].cancel + 1 \in 0 .. RESEND_TIMES /\ tx[b].cancel + 1 > 0
    BY <1>4, ChildFacts, ConstantsAssumption DEF Child
  <2>3. /\ c \in Child /\ c.state = tx[b].state /\ c.canceled = tx[b].canceled
        /\ c.final = tx[b].final /\ c.provisional = tx[b].provisional /\ c.cancel = tx[b].cancel + 1
    BY <2>2, ChildFacts DEF Child
  <2> HIDE DEF c
  <2> QED
    BY <1>1, <1>2, <2>1, <2>2, <2>3, ChildStepKeeps
<1> QED
  BY <1>3, <1>4 DEF ResendCancel

LEMMA KeepExpireCancel == ASSUME IInv, NEW b \in Branches, ExpireCancel(b) PROVE IInv' /\ HuntStep
<1>1. tx[b].state # LOCALLY_INITIATED /\ parent.state # LOCALLY_INITIATED
  BY TimerOwner DEF ExpireCancel
<1>2. UNCHANGED <<parent, heard>> /\ timers' \subseteq timers
  BY DEF ExpireCancel, OtherTimers
<1>3. \/ tx' = tx
      \/ /\ ~tx[b].provisional /\ tx[b].final = NoCode
         /\ tx' = [tx EXCEPT ![b] = cancel(tx, b)]
  BY DEF ExpireCancel, Unheard
<1> QED
  BY <1>1, <1>2, <1>3, ChildStepKeeps

LEMMA KeepReceiveSuccess == ASSUME IInv, NEW b \in Branches, ReceiveSuccess(b) PROVE IInv' /\ HuntStep
<1> DEFINE t == WithFinal(OK, b)
           u == cancelChildren(t)
           e == <<OK, b>>
<1>1. /\ Sent(b) /\ tx[b].final = NoCode /\ tx' = u
      /\ parent' = [parent EXCEPT !.dispatched = TRUE]
      /\ heard' = Append(heard, e) /\ timers' = timers
  BY DEF ReceiveSuccess
<1>2. parent.state # LOCALLY_INITIATED
  BY <1>1, SentOwner
<1>3. OK \in Codes
  BY ConstantsAssumption
<1>4. /\ ChildrenInv(t)
      /\ \A a \in Branches : t[a].final = IF a = b THEN OK ELSE tx[a].final
      /\ NoneNew(t)
  BY <1>1, <1>3, FinalChildren
<1>5. /\ ChildrenInv(u) /\ Idle(u) /\ Settled(u)
      /\ \A a \in Branches : u[a].final = t[a].final /\ u[a].state = t[a].state
  BY <1>4, CanceledChildren
<1>6. /\ \A a \in Branches : u[a].final = IF a = b THEN OK ELSE tx[a].final
      /\ \A a \in Branches : u[a].state = LOCALLY_INITIATED => tx[a].state = LOCALLY_INITIATED
  BY <1>4, <1>5 DEF NoneNew
<1> HIDE DEF t, u
<1>7. /\ parent'.dispatched /\ parent'.state = parent.state /\ parent'.canceled = parent.canceled
      /\ parent' \in [state : {LOCALLY_INITIATED, CONFIRMED}, canceled : BOOLEAN,
                      recursing : BOOLEAN, dispatched : BOOLEAN]
  BY <1>1 DEF IInv, TypeOK
<1>8. TimersStarted(u, timers)
  BY <1>6, TimersSame
<1>9. e \in (Codes \cup {REQUEST_TIMEOUT, SERVER_INTERNAL_ERROR}) \X (Branches \cup {Parent})
      /\ e[1] = OK /\ e[2] = b /\ b # Parent
  BY <1>3, ConstantsAssumption DEF Branches, Parent
<1>10. heard \in Seq((Codes \cup {REQUEST_TIMEOUT, SERVER_INTERNAL_ERROR}) \X (Branches \cup {Parent}))
  BY DEF IInv, TypeOK
<1> HIDE DEF e
<1>11. /\ heard' \in Seq((Codes \cup {REQUEST_TIMEOUT, SERVER_INTERNAL_ERROR}) \X (Branches \cup {Parent}))
      /\ \A i \in DOMAIN heard' : heard'[i] = e \/ (i \in DOMAIN heard /\ heard'[i] = heard[i])
  BY <1>1, <1>9, <1>10
<1>12. TypeOK'
  BY <1>1, <1>5, <1>7, <1>9, <1>11 DEF IInv, TypeOK, ChildrenInv, Children, Child
<1>13. Heard(tx)'
  <2>1. ASSUME NEW i \in DOMAIN heard', heard'[i][1] = OK
        PROVE  u[heard'[i][2]].final = OK
    <3>1. CASE heard'[i] = e
      BY <3>1, <1>6, <1>9
    <3>2. CASE i \in DOMAIN heard /\ heard'[i] = heard[i]
      <4>1. heard[i][2] \in Branches /\ tx[heard[i][2]].final = OK
        BY <3>2, <2>1, <1>10 DEF IInv, TypeOK, Heard
      <4> QED
        BY <3>2, <4>1, <1>6
    <3> QED
      BY <3>1, <3>2, <1>11
  <2> QED
    BY <2>1, <1>1, <1>7 DEF Heard
<1>14. Over(tx, parent.canceled)' /\ ChildrenInv(tx)' /\ TimersStarted(tx, timers)'
  BY <1>1, <1>5, <1>7, <1>8 DEF Over, Idle, Settled, Held, Pursued, ChildrenInv, TimersStarted, u
<1>15. Fresh'
  BY <1>2, <1>7 DEF Fresh
<1>16. Asked' = Asked /\ Pursuing' = {}
  BY <1>1, <1>4, <1>5 DEF Asked, Pursuing, Pursued, Idle, NoneNew
<1>17. b \in Asked
  BY <1>1, SentOwner DEF Asked
<1>18. \A i \in DOMAIN heard : heard[i] # e
  BY <1>1, <1>9, CodeValues DEF IInv, Heard
<1>19. e = <<OK, b>>
  BY DEF e
<1>20. e \in {OK} \X Asked /\ e \in {OK} \X Branches
  BY <1>17, <1>19
<1>21. Hunt!Succeed(e)
  BY <1>1, <1>7, <1>16, <1>18, <1>20 DEF Hunt!Succeed, Hunt!Successes
<1> QED
  BY <1>12, <1>13, <1>14, <1>15, <1>20, <1>21 DEF IInv, HuntStep, Hunt!HuntNext

LEMMA KeepReceiveFailure ==
  ASSUME IInv, NEW b \in Branches, NEW c \in Codes, ReceiveFailure(c, b) PROVE IInv' /\ HuntStep
<1> DEFINE t == WithFinal(c, b)
<1>1. c # OK /\ Sent(b) /\ tx[b].final = NoCode /\ parent.canceled \in BOOLEAN
  BY DEF ReceiveFailure, IInv, TypeOK
<1>2. parent.state # LOCALLY_INITIATED
  BY <1>1, SentOwner
<1>3. /\ ChildrenInv(t) /\ Over(t, parent.canceled) /\ TimersStarted(t, timers) /\ NoneNew(t)
      /\ \A a \in Branches : t[a].final = IF a = b THEN c ELSE tx[a].final
  BY <1>1, FinalChildren
<1>4. IF parent.dispatched
      THEN tx' = t /\ UNCHANGED <<parent, timers, heard>>
      ELSE SearchOn(t, parent.canceled, timers)
  BY DEF ReceiveFailure
<1> HIDE DEF t
<1>5. Heard(t)
  <2>1. ASSUME NEW i \in DOMAIN heard, heard[i][1] = OK PROVE t[heard[i][2]].final = OK
    <3>1. heard[i][2] \in Branches /\ tx[heard[i][2]].final = OK
      BY <2>1 DEF IInv, TypeOK, Heard, Parent
    <3>2. heard[i][2] # b
      BY <1>1, <3>1, CodeValues
    <3> QED
      BY <3>1, <3>2, <1>3
  <2>2. \A a \in Branches : t[a].final = OK => parent.dispatched
    BY <1>1, <1>3 DEF IInv, Heard
  <2> QED
    BY <2>1, <2>2 DEF IInv, Heard
<1>6. CASE parent.dispatched
  <2>1. tx' = t /\ UNCHANGED <<parent, timers, heard>>
    BY <1>4, <1>6
  <2>2. timers \subseteq (Branches \cup {Parent})
                         \X {"resend", "expires", "cancelResend", "cancelExpires"}
    BY DEF IInv, TypeOK
  <2> QED
    BY <1>2, <1>3, <1>5, <2>1, <2>2, QuietStepKeeps
<1>7. CASE ~parent.dispatched
  <2>1. t \in Children
    BY <1>3 DEF ChildrenInv
  <2> QED
    BY <1>1, <1>2, <1>3, <1>4, <1>5, <1>7, <2>1, SearchKeeps, SearchImplements, SMTT(30)
<1> QED
  BY <1>6, <1>7

LEMMA KeepEndResending == ASSUME IInv, NEW b \in Branches, EndResending(b) PROVE IInv' /\ HuntStep
<1> DEFINE t == Calling(tx, b, COMPLETE)
<1>1. tx[b].state # LOCALLY_INITIATED /\ parent.state # LOCALLY_INITIATED /\ parent.canceled \in BOOLEAN
  BY TimerOwner DEF EndResending, IInv, TypeOK
<1>2. SearchOn(t, parent.canceled, OtherTimers(b, "resend")) /\ OtherTimers(b, "resend") \subseteq timers
  BY DEF EndResending, OtherTimers
<1>3. ChildrenInv(t) /\ Over(t, parent.canceled) /\ Heard(t) /\ NoneNew(t)
  BY <1>1, CallingChild, ChangedChild
<1> HIDE DEF t
<1>4. TimersStarted(t, OtherTimers(b, "resend")) /\ t \in Children
  BY <1>2, <1>3, TimersSame DEF ChildrenInv, NoneNew
<1> QED
  BY <1>1, <1>2, <1>3, <1>4, SearchKeeps, SearchImplements

LEMMA KeepExpireChild == ASSUME IInv, NEW b \in Branches, ExpireChild(b) PROVE IInv' /\ HuntStep
<1> DEFINE giveUp == /\ ~tx[b].provisional /\ tx[b].final = NoCode
                     /\ tx[b].state \in {LOCALLY_INITIATED, CALLING, PROCEEDING}
           v == [tx EXCEPT ![b] = cancel(tx, b)]
           t == IF giveUp THEN v ELSE tx
           others == OtherTimers(b, "expires")
<1>1. tx[b].state # LOCALLY_INITIATED /\ parent.state # LOCALLY_INITIATED /\ parent.canceled \in BOOLEAN
  BY TimerOwner DEF ExpireChild, IInv, TypeOK
<1>2. SearchOn(t, parent.canceled, others) /\ others \subseteq timers
  BY DEF ExpireChild, OtherTimers
<1>3. giveUp => ChildrenInv(v) /\ Over(v, parent.canceled) /\ Heard(v) /\ NoneNew(v)
  <2> SUFFICES ASSUME giveUp, NEW w, w = v
               PROVE  ChildrenInv(w) /\ Over(w, parent.canceled) /\ Heard(w) /\ NoneNew(w)
    OBVIOUS
  <2> QED
    BY <1>1, CanceledChild
<1>4. ChildrenInv(tx) /\ Over(tx, parent.canceled) /\ Heard(tx) /\ NoneNew(tx)
  BY DEF IInv, NoneNew
<1> HIDE DEF v, giveUp
<1>5. ChildrenInv(t) /\ Over(t, parent.canceled) /\ Heard(t) /\ NoneNew(t)
  BY <1>3, <1>4
<1> HIDE DEF t, others
<1>6. TimersStarted(t, others) /\ t \in Children
  BY <1>2, <1>5, TimersSame DEF ChildrenInv, NoneNew
<1> QED
  BY <1>1, <1>2, <1>5, <1>6, SearchKeeps, SearchImplements

LEMMA KeepExpireParent == ASSUME IInv, ExpireParent PROVE IInv' /\ HuntStep
<1> DEFINE giveUp == parent.recursing /\ ~parent.canceled
           v == cancelChildren(tx)
           t == IF giveUp THEN v ELSE tx
           canceled == parent.canceled \/ giveUp
           others == OtherTimers(Parent, "expires")
<1>1. parent.state # LOCALLY_INITIATED
  BY DEF ExpireParent, Fires, IInv, Fresh
<1>2. SearchOn(t, canceled, others) /\ others \subseteq timers
  BY DEF ExpireParent, OtherTimers
<1>3. canceled \in BOOLEAN /\ (parent.canceled => canceled) /\ (~giveUp => canceled = parent.canceled)
  BY DEF IInv, TypeOK
<1>4. /\ ChildrenInv(v) /\ Idle(v) /\ Settled(v)
      /\ \A a \in Branches : v[a].final = tx[a].final /\ v[a].state = tx[a].state
  BY CanceledChildren DEF IInv
<1> HIDE DEF v
<1>5. Heard(v)
  BY <1>4, HeardSame
<1>6. ChildrenInv(tx) /\ Over(tx, parent.canceled) /\ Heard(tx) /\ NoneNew(tx)
  BY DEF IInv, NoneNew
<1>7. Over(v, canceled) /\ NoneNew(v)
  BY <1>4 DEF Over, Idle, NoneNew
<1> HIDE DEF giveUp, canceled
<1>8. ChildrenInv(t) /\ Over(t, canceled) /\ Heard(t) /\ NoneNew(t)
  BY <1>3, <1>4, <1>5, <1>6, <1>7
<1> HIDE DEF t, others
<1>9. TimersStarted(t, others) /\ t \in Children
  BY <1>2, <1>8, TimersSame DEF ChildrenInv, NoneNew
<1> QED
  BY <1>1, <1>2, <1>3, <1>8, <1>9, SearchKeeps, SearchImplements

LEMMA InvNext == IInv /\ [Next]_vars => IInv' /\ HuntStep
<1> SUFFICES ASSUME IInv, [Next]_vars PROVE IInv' /\ HuntStep
  OBVIOUS
<1>1. CASE SendRequest
  BY <1>1, KeepSendRequest
<1>2. CASE CancelTree
  BY <1>2, KeepCancelTree
<1>3. CASE ExpireParent
  BY <1>3, KeepExpireParent
<1>4. ASSUME NEW b \in Branches,
             CancelChild(b) \/ SendAck(b) \/ ReceiveProvisional(b) \/ ReceiveSuccess(b)
      PROVE  IInv' /\ HuntStep
  BY <1>4, KeepCancelChild, KeepSendAck, KeepReceiveProvisional, KeepReceiveSuccess
<1>5. ASSUME NEW b \in Branches,
             \/ ResendRequest(b) \/ EndResending(b) \/ ExpireChild(b)
             \/ ResendCancel(b) \/ ExpireCancel(b)
      PROVE  IInv' /\ HuntStep
  BY <1>5, KeepResendRequest, KeepEndResending, KeepExpireChild, KeepResendCancel, KeepExpireCancel
<1>6. ASSUME NEW b \in Branches, NEW c \in Codes, ReceiveFailure(c, b)
      PROVE  IInv' /\ HuntStep
  BY <1>6, KeepReceiveFailure
<1>7. CASE UNCHANGED vars
  BY <1>7 DEF vars, IInv, TypeOK, ChildrenInv, Over, Heard, TimersStarted, Fresh,
     Idle, Settled, Held, Pursued, HuntStep, Hunt!huntVars, Asked, Pursuing
<1> QED
  BY <1>1, <1>2, <1>3, <1>4, <1>5, <1>6, <1>7 DEF Next

\* The inductive invariant holds in every state.
THEOREM Inductive == Spec => []IInv
BY InvInit, InvNext, PTL DEF Spec

\* The data of the client keeps its types, and with them two facts about counts:
\* no request and no CANCEL is sent more often than the timers allow
\* (handleResendEvent()), whatever order responses and timers have.
THEOREM TypeCorrect == Spec => []TypeOK
<1>1. IInv => TypeOK
  BY DEF IInv
<1> QED
  BY <1>1, Inductive, PTL

\* Once the application has its answer, or has canceled the request, every
\* server known to work on the INVITE has been sent a CANCEL, for any number of
\* servers (cancel(), handleIncoming(), handleChildTimeoutEvent()).
THEOREM NobodyRingsOn == Spec => []RingingIsCanceled
<1>1. IInv => RingingIsCanceled
  <2> SUFFICES ASSUME IInv, INVITE, parent.dispatched \/ parent.canceled,
                      NEW b \in Branches, tx[b].state = PROCEEDING
               PROVE  tx[b].cancel > 0
    BY DEF RingingIsCanceled
  <2>1. ~Pursued(tx, b)
    BY DEF IInv, Over, Idle
  <2>2. tx[b].canceled
    BY <2>1 DEF Pursued
  <2> QED
    BY <2>2 DEF IInv, ChildrenInv
<1> QED
  BY <1>1, Inductive, PTL

\* Whatever order the messages and timers of all branches have, the client does
\* to its application what ServerHunt promises: one server after the other, one
\* failure when none is left, and nothing new after an answer or a cancellation
\* (startSequentialSearch(), handleChildIncoming(), handleChildTimeoutEvent()).
THEOREM ImplementsHunt == Spec => ImplementsServerHunt
<1>1. Init => Hunt!HuntInit
  <2> SUFFICES ASSUME Init PROVE Hunt!HuntInit
    OBVIOUS
  <2>1. Asked = {} /\ Pursuing = {}
    BY StateValues DEF Init, Asked, Pursuing, Pursued
  <2>2. ~parent.canceled /\ parent.canceled \in BOOLEAN /\ heard = <<>>
    BY DEF Init
  <2> QED
    BY <2>1, <2>2 DEF Hunt!HuntInit
<1>2. IInv /\ [Next]_vars => [Hunt!HuntNext]_(Hunt!huntVars)
  BY InvNext DEF HuntStep
<1> QED
  BY <1>1, <1>2, Inductive, PTL DEF Spec, ImplementsServerHunt, Hunt!HuntSpec
=============================================================================
