------------------------------- MODULE TimerSet -------------------------------
(***************************************************************************)
(* What the timers of the event loop promise (include/evloop.h): a timer   *)
(* is armed with a time from now, moved by arming it again, and cancelled; *)
(* it goes off once, not before its time and not before a timer that is    *)
(* due earlier, and its action has returned before the next goes off.      *)
(* There is no queue.                                                      *)
(***************************************************************************)
EXTENDS Integers

CONSTANTS
  Timers,  \* the timers
  Delays,  \* timeouts they are set to
  Width    \* times are counted modulo Width (2^32 for acn_time_t)

VARIABLES
  now,       \* the time
  deadline,  \* deadline[t]: when t goes off, or ACN_NO_TIME
  running    \* the timer whose action is being called, or None

ACN_NO_TIME == -1
None == "none"
Time == 0 .. Width - 1

\* B is later than A: their signed difference is positive.
inTimeOrder(A, B) == (B - A) % Width \in 1 .. (Width \div 2) - 1

Armed  == {t \in Timers : deadline[t] # ACN_NO_TIME}
Due(t) == /\ t \in Armed
          /\ ~inTimeOrder(now, deadline[t])
          /\ \A u \in Armed : ~inTimeOrder(deadline[u], deadline[t])

Init == now \in Time /\ deadline = [t \in Timers |-> ACN_NO_TIME] /\ running = None

Set(t) == /\ \E d \in Delays : deadline' = [deadline EXCEPT ![t] = (now + d) % Width]
          /\ UNCHANGED <<now, running>>

Cancel(t) == deadline' = [deadline EXCEPT ![t] = ACN_NO_TIME] /\ UNCHANGED <<now, running>>

GoOff(t) == /\ running = None /\ Due(t)
            /\ running' = t
            /\ deadline' = [deadline EXCEPT ![t] = ACN_NO_TIME]
            /\ UNCHANGED now

Return == running # None /\ running' = None /\ UNCHANGED <<now, deadline>>

Passes == now' = (now + 1) % Width /\ UNCHANGED <<deadline, running>>

Next == Passes \/ Return \/ \E t \in Timers : Set(t) \/ Cancel(t) \/ GoOff(t)

Spec == Init /\ [][Next]_<<now, deadline, running>>
===============================================================================
