---------------------------- MODULE TimerService ----------------------------
(***************************************************************************)
(* What OsTimer.h promises to an application, without the timer task: a    *)
(* timer that is started fires when it is due, never earlier, never after  *)
(* a successful stop(), and one timer at a time.  A one-shot timer is      *)
(* stopped when its event routine is entered, a periodic one still runs.   *)
(***************************************************************************)
EXTENDS Integers

CONSTANTS Timers, Period, MaxClock, NoTimer

VARIABLES
  state,    \* "none" while the timer does not exist for the application
  due,      \* when a started timer fires (0 when it is not started)
  running,  \* the timer whose event routine executes, or NoTimer
  clock

vars == <<state, due, running, clock>>

States == {"none", "stopped", "oneshot", "periodic"}

Init ==
  /\ state = [t \in Timers |-> "none"]
  /\ due = [t \in Timers |-> 0]
  /\ running = NoTimer
  /\ clock = 0

Become(t, s, d) ==
  /\ state' = [state EXCEPT ![t] = s]
  /\ due' = [due EXCEPT ![t] = d]

\* Methods of the application wait while the timer's event routine executes.
Create(t) ==
  /\ state[t] = "none" /\ running # t
  /\ Become(t, "stopped", 0)
  /\ UNCHANGED <<running, clock>>

Start(t) ==
  /\ state[t] = "stopped" /\ running # t
  /\ \E kind \in {"oneshot", "periodic"}, when \in 0..MaxClock :
       Become(t, kind, when)
  /\ UNCHANGED <<running, clock>>

Stop(t) ==
  /\ state[t] \in {"oneshot", "periodic"} /\ running # t
  /\ Become(t, "stopped", 0)
  /\ UNCHANGED <<running, clock>>

Delete(t) ==
  /\ state[t] # "none" /\ running # t
  /\ Become(t, "none", 0)
  /\ UNCHANGED <<running, clock>>

Fire(t) ==
  /\ state[t] \in {"oneshot", "periodic"} /\ running = NoTimer
  /\ clock >= due[t]
  /\ \/ state[t] = "oneshot"  /\ Become(t, "stopped", 0)
     \/ state[t] = "periodic" /\ Become(t, "periodic", due[t] + Period)
  /\ running' = t
  /\ UNCHANGED clock

Return ==
  /\ running # NoTimer
  /\ running' = NoTimer
  /\ UNCHANGED <<state, due, clock>>

Tick ==
  /\ clock < MaxClock
  /\ clock' = clock + 1
  /\ UNCHANGED <<state, due, running>>

Next ==
  \/ \E t \in Timers : Create(t) \/ Start(t) \/ Stop(t) \/ Delete(t) \/ Fire(t)
  \/ Return
  \/ Tick

Spec == Init /\ [][Next]_vars
=============================================================================
