------------------------------- MODULE EvlTimers -------------------------------
(***************************************************************************)
(* The timers of the event loop (csrc/evloop.c): a queue sorted by the     *)
(* time of expiry, the pass over it that calls the actions of timers that  *)
(* expired, and the wait for events until the next is due.                 *)
(*                                                                         *)
(* An action, or the callback of an event, sets and cancels any timers     *)
(* while the pass is under way; the clock runs on meanwhile, and counts    *)
(* modulo Width.                                                           *)
(***************************************************************************)
EXTENDS Integers, Sequences, SequencesExt, FiniteSetsExt

CONSTANTS
  Timers,   \* the timers
  Delays,   \* timeouts they are set to
  Width,    \* 2^32 for acn_time_t
  MaxLate   \* bound: calls take no longer, so that times stay comparable

None == "none"

ASSUME TimersAssumption ==
  /\ Delays \subseteq Nat /\ Width \in Nat /\ MaxLate \in Nat \ {0}
  /\ \A d \in Delays \cup {0} : MaxLate + d < Width \div 2
  /\ None \notin Timers

VARIABLES
  timerqueue,  \* the timers that are linked, first to expire first
  exptime,     \* exptime[t], 0 when t is not linked: it is set before it is read
  now,         \* get_acn_time()
  pc,          \* where evl_wait is: "top", "pass", "action", "wait", "event", "quit"
  asof,        \* the time processtimers began, 0 outside
  running,     \* the timer whose action is being called, or None
  wake,        \* what is left of the timeout of epoll_wait
  runstate

timervars == <<timerqueue, exptime, now, pc, asof, running, wake, runstate>>

ACN_NO_TIME == -1
Time == 0 .. Width - 1

timediff(a, b)    == (a - b) % Width
inTimeOrder(A, B) == timediff(B, A) \in 1 .. (Width \div 2) - 1

TimersInit ==
  /\ timerqueue = <<>> /\ exptime = [t \in Timers |-> 0]
  /\ now = 0 /\ asof = 0 /\ wake = ACN_NO_TIME
  /\ pc = "top" /\ running = None /\ runstate = "rs_loop"

-----------------------------------------------------------------------------
(***************************************************************************)
(* Calls of actions and of callbacks.                                      *)
(***************************************************************************)
Called == pc \in {"action", "event"}

\* dlUnlink, when t is linked.
Unlink(q, t) ==
  IF t \in Range(q) THEN RemoveAt(q, CHOOSE i \in DOMAIN q : q[i] = t) ELSE q

\* Mutant: a timer always goes to the tail.
After_tail(q, exp, e) == Len(q)

\* Where a timer that expires at e goes in q: the walk from the tail ends at the
\* last that is not later.
After(q, exp, e) ==
  IF q = <<>> \/ ~inTimeOrder(exp[q[1]], e) THEN 0
  ELSE Max({i \in DOMAIN q : ~inTimeOrder(e, exp[q[i]])})

_set_timer(t) ==
  /\ Called
  /\ \E d \in Delays :
       LET q == Unlink(timerqueue, t)
           e == (now + d) % Width
       IN  /\ timerqueue' = InsertAt(q, After(q, exptime, e) + 1, t)
           /\ exptime' = [exptime EXCEPT ![t] = e]
  /\ UNCHANGED <<now, pc, asof, running, wake, runstate>>

cancel_timer(t) ==
  /\ Called /\ t \in Range(timerqueue)
  /\ timerqueue' = Unlink(timerqueue, t) /\ exptime' = [exptime EXCEPT ![t] = 0]
  /\ UNCHANGED <<now, pc, asof, running, wake, runstate>>

stopPoll ==
  /\ Called /\ runstate' = "rs_quit"
  /\ UNCHANGED <<timerqueue, exptime, now, pc, asof, running, wake>>

-----------------------------------------------------------------------------
(***************************************************************************)
(* processtimers and evl_wait.                                             *)
(***************************************************************************)
processtimers ==
  /\ pc = "top" /\ pc' = "pass" /\ asof' = now
  /\ UNCHANGED <<timerqueue, exptime, now, running, wake, runstate>>

Expired == timerqueue # <<>> /\ ~inTimeOrder(asof, exptime[timerqueue[1]])

Expire ==
  /\ pc = "pass" /\ Expired
  /\ running' = timerqueue[1] /\ timerqueue' = Tail(timerqueue)
  /\ exptime' = [exptime EXCEPT ![timerqueue[1]] = 0]
  /\ pc' = "action"
  /\ UNCHANGED <<now, asof, wake, runstate>>

Returned ==
  /\ pc = "action" /\ pc' = "pass" /\ running' = None
  /\ UNCHANGED <<timerqueue, exptime, now, asof, wake, runstate>>

\* Mutant: the next timer is not looked up.
Sleep_noTimeout ==
  /\ pc = "pass" /\ ~Expired
  /\ pc' = "wait" /\ asof' = 0 /\ wake' = ACN_NO_TIME
  /\ UNCHANGED <<timerqueue, exptime, now, running, runstate>>

Sleep ==
  /\ pc = "pass" /\ ~Expired
  /\ pc' = "wait" /\ asof' = 0
  /\ wake' = IF timerqueue = <<>> THEN ACN_NO_TIME ELSE timediff(exptime[timerqueue[1]], asof)
  /\ UNCHANGED <<timerqueue, exptime, now, running, runstate>>

\* epoll_wait returns: with events, at any time, or when the timeout is over.
EventsCome ==
  /\ pc = "wait" /\ pc' = "event" /\ wake' = ACN_NO_TIME
  /\ UNCHANGED <<timerqueue, exptime, now, asof, running, runstate>>

TimeIsUp ==
  /\ pc = "wait" /\ wake = 0 /\ wake' = ACN_NO_TIME
  /\ pc' = IF runstate = "rs_loop" THEN "top" ELSE "quit"
  /\ UNCHANGED <<timerqueue, exptime, now, asof, running, runstate>>

EventsDone ==
  /\ pc = "event"
  /\ pc' = IF runstate = "rs_loop" THEN "top" ELSE "quit"
  /\ UNCHANGED <<timerqueue, exptime, now, asof, running, wake, runstate>>

\* The clock.  What is late is soon dealt with (MaxLate).
Tick ==
  /\ pc # "quit" /\ wake # 0
  /\ \A t \in Range(timerqueue) : (now - exptime[t]) % Width # MaxLate
  /\ pc \in {"pass", "action"} => (now - asof) % Width < MaxLate
  /\ now' = (now + 1) % Width
  /\ wake' = IF wake = ACN_NO_TIME THEN ACN_NO_TIME ELSE wake - 1
  /\ UNCHANGED <<timerqueue, exptime, pc, asof, running, runstate>>

Loop == processtimers \/ Expire \/ Returned \/ Sleep \/ TimeIsUp \/ EventsDone

TimersNext ==
  \/ \E t \in Timers : _set_timer(t) \/ cancel_timer(t)
  \/ stopPoll \/ Loop \/ EventsCome \/ Tick

TimersSpec == TimersInit /\ [][TimersNext]_timervars

\* Calls return, the loop goes round, and time passes.
TimersFairness == WF_timervars(Loop) /\ WF_timervars(Tick)

FairTimersSpec == TimersSpec /\ TimersFairness

-----------------------------------------------------------------------------
deadline == [t \in Timers |-> IF t \in Range(timerqueue) THEN exptime[t] ELSE ACN_NO_TIME]

Promise == INSTANCE TimerSet WITH deadline <- deadline, now <- now, running <- running

\* The queue, its order of equal times and its walk from the tail are a way to keep
\* a set of deadlines: whatever actions set and cancel during a pass, no timer is
\* lost, called early, called after cancel_timer, or called before an earlier one.
KeepsDeadlines == Promise!Spec

\* A timer that is armed goes off, unless it is set again or cancelled, or the loop
\* is stopped: also one that ties with timers that rearm themselves at once
\* (_set_timer puts a timer that ties with the head before it).
EachGoesOff ==
  \A t \in Timers :
    \/ []<>(t \notin Range(timerqueue))
    \/ []<><<_set_timer(t)>>_timervars
    \/ <>(runstate = "rs_quit")
===============================================================================
