------------------------------ MODULE Deadline ------------------------------
(***************************************************************************)
(* The time limit of an END: BrokerImpl::communicate() seen from the clock *)
(* alone.  The deadline is an instant of system_clock, a signed integer of *)
(* limited width, and the clock may be set while END waits.  The broker    *)
(* looks at the clock when epoll_wait() returned without an event, at the  *)
(* latest after Poll, and when it has handled the events, but not in the   *)
(* middle of a read loop.                                                  *)
(***************************************************************************)
EXTENDS Integers

CONSTANTS
    Top,      \* largest value of Duration::rep; the smallest is -Top - 1
    Scale,    \* units of the clock in one unit of a limit
    Limits,   \* limits the judge gives; they are signed integers as well
    Poll,     \* timeout of epoll_wait()
    Start,    \* bound: instants at which an END begins
    MaxStep   \* bound: units the clock is set by during one END

Rep == -Top - 1 .. Top

ASSUME DeadlineAssumption ==
    /\ Top \in Nat /\ Scale \in Nat \ {0} /\ Poll \in Nat \ {0}
    /\ Limits \subseteq Int
    /\ Start \subseteq Rep
    /\ MaxStep \in Nat

VARIABLES
    pc,        \* "idle", "check" (the clock), "poll" (epoll_wait), "events"
    wall,      \* Clock::now()
    limit,     \* sol.resourceLimits.realTimeLimit
    until,     \* untilPoint
    status,    \* the status of the last END
    elapsed,   \* time since the END began
    waited,    \* time since epoll_wait() was called
    forward, backward,  \* by how much the clock was set since the END began
    chunk      \* alternates with every chunk of output that is read

vars == <<pc, wall, limit, until, status, elapsed, waited, forward, backward, chunk>>
clockVars == <<wall, elapsed, forward, backward>>

TypeOK ==
    /\ pc \in {"idle", "check", "poll", "events"}
    /\ {wall, until} \subseteq Rep
    /\ limit \in Limits
    /\ status \in {"NONE", "OK", "REAL_TIME_LIMIT_EXCEEDED"}
    /\ elapsed \in Nat /\ waited \in 0 .. Poll
    /\ forward \in 0 .. MaxStep /\ backward \in 0 .. MaxStep
    /\ chunk \in BOOLEAN

Init ==
    /\ pc = "idle" /\ status = "NONE"
    /\ wall \in Start /\ until = wall /\ limit \in Limits
    /\ elapsed = 0 /\ waited = 0 /\ forward = 0 /\ backward = 0
    /\ chunk = FALSE

-----------------------------------------------------------------------------

\* Signed overflow; the compilers in use let the value wrap.
Wrap(x) == IF x \in Rep THEN x ELSE ((x + Top + 1) % (2 * (Top + 1))) - Top - 1

\* now + realTimeLimit, in units of the clock.
Until(now, l) == Wrap(now + Wrap(l * Scale))

\* An END begins; its solution has the limit of the last BEGIN.
End ==
    /\ pc = "idle"
    /\ wall' \in Start /\ limit' \in Limits
    /\ until' = Until(wall', limit')
    /\ pc' = "check" /\ status' = "NONE"
    /\ elapsed' = 0 /\ forward' = 0 /\ backward' = 0
    /\ UNCHANGED <<waited, chunk>>

\* Is it too late?
PassedBeforePoll == wall + Poll >= until  \* mutant: if it will be after the wait
Passed == wall >= until

CallEpoll ==
    /\ pc = "check" /\ ~Passed
    /\ pc' = "poll" /\ waited' = 0
    /\ UNCHANGED <<clockVars, limit, until, status, chunk>>

TimeLimit ==
    /\ pc = "check" /\ Passed
    /\ pc' = "idle" /\ status' = "REAL_TIME_LIMIT_EXCEEDED"
    /\ UNCHANGED <<clockVars, limit, until, waited, chunk>>

\* When epoll_wait() returns without an event.
TimeoutNever(t) == FALSE  \* mutant: no timeout
Timeout(t) == t = Poll

EpollTimeout ==
    /\ pc = "poll" /\ Timeout(waited)
    /\ pc' = "check"
    /\ UNCHANGED <<clockVars, limit, until, status, waited, chunk>>

\* Input can be written, or output read, or a stream has ended.
Event ==
    /\ pc = "poll"
    /\ pc' = "events" /\ waited' = 0
    /\ UNCHANGED <<clockVars, limit, until, status, chunk>>

\* One more chunk without a token; the solution writes as fast as it is read.
Read ==
    /\ pc = "events"
    /\ chunk' = ~chunk
    /\ UNCHANGED <<clockVars, pc, limit, until, status, waited>>

\* EAGAIN.  The clock is looked at before epoll_wait() is called again.
AfterEventsWait == "poll"  \* mutant: epoll_wait() is called first
AfterEvents == "check"

ReadDone ==
    /\ pc = "events"
    /\ pc' = AfterEvents
    /\ UNCHANGED <<clockVars, limit, until, status, waited, chunk>>

\* A token, a rejected character, or the end of the stream.
Decided ==
    /\ pc = "events"
    /\ pc' = "idle" /\ status' = "OK"
    /\ UNCHANGED <<clockVars, limit, until, waited, chunk>>

\* Time passes, and epoll_wait() returns in time.  (Bound: the clock, and with
\* it the measured time, stand still at Top.)
Tick ==
    /\ pc # "idle" /\ (wall < Top \/ pc = "poll")
    /\ pc = "poll" => ~Timeout(waited)
    /\ IF wall < Top THEN wall' = wall + 1 /\ elapsed' = elapsed + 1
       ELSE UNCHANGED <<wall, elapsed>>
    /\ waited' = IF pc = "poll" THEN waited + 1 ELSE waited
    /\ UNCHANGED <<pc, limit, until, status, forward, backward, chunk>>

\* Somebody sets the clock.
SetForward ==
    /\ pc # "idle" /\ forward < MaxStep /\ wall < Top
    /\ wall' = wall + 1 /\ forward' = forward + 1
    /\ UNCHANGED <<pc, limit, until, status, elapsed, waited, backward, chunk>>
SetBack ==
    /\ pc # "idle" /\ backward < MaxStep /\ wall > -Top - 1
    /\ wall' = wall - 1 /\ backward' = backward + 1
    /\ UNCHANGED <<pc, limit, until, status, elapsed, waited, forward, chunk>>

BrokerStep == CallEpoll \/ TimeLimit \/ EpollTimeout \/ Read \/ ReadDone \/ Decided

Next == End \/ BrokerStep \/ Event \/ Tick \/ SetForward \/ SetBack

Spec == Init /\ [][Next]_vars

\* The broker is scheduled, and time passes.
FairSpec == Spec /\ WF_vars(BrokerStep) /\ WF_vars(Tick)

-----------------------------------------------------------------------------
\* The sum of clock and limit is representable.  (Broker.hpp:42 warns of
\* limits for which it is not: they may have passed when the END begins.)
Fits(now, l) == {l * Scale, now + l * Scale} \subseteq Rep
StartedAt == wall - elapsed - forward + backward
Sane == Fits(StartedAt, limit)

\* No solution is said to have exceeded its limit before it has, unless the
\* clock was set forward (BrokerImplCommunicate.cpp:19), by no more than that,
\* or the limit does not fit (line 28).
NotTooEarly ==
    status = "REAL_TIME_LIMIT_EXCEEDED" /\ Sane => elapsed + forward >= limit * Scale

\* The broker does not wait for a solution longer than limit and timeout of
\* epoll_wait(), unless the clock was set back, by no more than that.
NotTooLate ==
    pc = "poll" /\ Sane => elapsed < limit * Scale + backward + Poll

\* Every END is answered, whatever the limit and whatever is done to the
\* clock, unless the broker stays in one read loop for ever
\* (BrokerImplCommunicate.cpp:128): events alone do not keep the deadline from
\* being seen.
EndsOrFloods == <>[](pc = "events") \/ (pc # "idle" ~> pc = "idle")

=============================================================================
