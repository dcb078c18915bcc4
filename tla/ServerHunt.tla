----------------------------- MODULE ServerHunt -----------------------------
(***************************************************************************)
(* What a SIP client promises to an application whose request may be sent  *)
(* to several servers (the DNS SRV records of a domain): the servers are   *)
(* tried one at a time, each at most once; a failure is reported once, when *)
(* no server is pursued any more, and then no other is tried; a success    *)
(* ends the hunt.  A server that was given up may still succeed later.     *)
(***************************************************************************)
EXTENDS Integers, Sequences

CONSTANTS
    Servers,    \* the addresses the request may be sent to
    Failures    \* the answers that are no success

VARIABLES
    asked,      \* the servers the request was sent to, or could not be sent to
    trying,     \* the server that is pursued, a set of at most one
    stopped,    \* the application or the overall time has ended the hunt
    heard       \* what the application was told: failures and succeeding servers

huntVars == <<asked, trying, stopped, heard>>

\* A server never is a failure, so what was heard tells them apart.
Successes == { heard[i] : i \in DOMAIN heard } \cap Servers

HuntInit == asked = {} /\ trying = {} /\ stopped = FALSE /\ heard = <<>>

\* The server that was pursued, if any, is given up, and at most one other is
\* asked in its place; those that could not be reached are passed over.
Try(next) ==
    /\ next \cap asked = {}
    /\ \A s, t \in next : s = t
    /\ next # {} => ~stopped /\ heard = <<>>
    /\ \E more \in SUBSET (Servers \ asked) : asked' = asked \cup next \cup more
    /\ trying' = next
    /\ UNCHANGED <<stopped, heard>>

\* All servers gave up, now or before, or the overall time is over.
Report(f) ==
    /\ heard = <<>>
    /\ heard' = <<f>>
    /\ trying' = {}
    /\ \E more \in SUBSET (Servers \ asked) : asked' = asked \cup more
    /\ stopped' \in {stopped, TRUE}

Succeed(s) ==
    /\ s \in asked
    /\ s \notin Successes
    /\ heard' = Append(heard, s)
    /\ trying' = {}
    /\ UNCHANGED <<asked, stopped>>

Stop ==
    /\ stopped' = TRUE
    /\ trying' = {}
    /\ UNCHANGED <<asked, heard>>

HuntNext ==
    \/ \E next \in SUBSET Servers : Try(next)
    \/ \E f \in Failures : Report(f)
    \/ \E s \in Servers : Succeed(s)
    \/ Stop

HuntSpec == HuntInit /\ [][HuntNext]_huntVars
=============================================================================
