--------------------------- MODULE DeadlineProofs ---------------------------
(***************************************************************************)
(* The time limit holds for every width of the clock, every limit and      *)
(* every way to set the clock.                                             *)
(***************************************************************************)
EXTENDS Deadline, TLAPS

\* A value that is representable is not changed.
LEMMA WrapSmall ==
    ASSUME NEW x \in Rep
    PROVE  Wrap(x) = x
BY DEF Wrap

\* The deadline of a limit that fits is start plus limit.
LEMMA UntilFits ==
    ASSUME NEW now, NEW l, Fits(now, l)
    PROVE  Until(now, l) = now + l * Scale
<1>1. l * Scale \in Rep /\ now + l * Scale \in Rep
  BY DEF Fits
<1>2. Wrap(l * Scale) = l * Scale
  BY <1>1, WrapSmall
<1>3. Wrap(now + l * Scale) = now + l * Scale
  BY <1>1, WrapSmall
<1>4. QED  BY <1>2, <1>3 DEF Until

\* Whatever an integer wraps to is representable.
LEMMA WrapType ==
    ASSUME NEW x \in Int
    PROVE  Wrap(x) \in Rep
<1>1. CASE x \in Rep
  BY <1>1 DEF Wrap
<1>2. CASE x \notin Rep
  <2>1. Top \in Nat
    BY DeadlineAssumption
  <2> DEFINE m == 2 * (Top + 1)
             y == x + Top + 1
  <2>2. m \in Nat /\ m > 0 /\ y \in Int
    BY <2>1
  <2>3. y % m \in 0 .. m - 1
    <3> HIDE DEF m, y
    <3>1. QED  BY <2>2
  <2>4. Wrap(x) = (y % m) - Top - 1
    BY <1>2 DEF Wrap
  <2>5. m = 2 * (Top + 1)
    OBVIOUS
  <2> HIDE DEF m, y
  <2>6. QED  BY <2>1, <2>3, <2>4, <2>5 DEF Rep
<1>3. QED  BY <1>1, <1>2

-----------------------------------------------------------------------------

LEMMA LimitType == \A l \in Limits : l \in Int /\ l * Scale \in Int
<1>1. Limits \subseteq Int /\ Scale \in Nat
  BY DeadlineAssumption
<1>2. QED  BY <1>1

\* All values are of their types; in particular the deadline is representable,
\* and epoll_wait() never waits longer than its timeout.
THEOREM DeadlineTypeCorrect == Spec => []TypeOK
<1>1. Init => TypeOK
  <2> SUFFICES ASSUME Init PROVE TypeOK
    OBVIOUS
  <2>1. Start \subseteq Rep /\ Poll \in Nat /\ MaxStep \in Nat
    BY DeadlineAssumption
  <2>2. {wall, until} \subseteq Rep
    BY <2>1 DEF Init
  <2>3. 0 \in 0 .. Poll /\ 0 \in 0 .. MaxStep
    BY <2>1
  <2>4. QED  BY <2>2, <2>3 DEF Init, TypeOK
<1>2. TypeOK /\ [Next]_vars => TypeOK'
  <2> SUFFICES ASSUME TypeOK, [Next]_vars PROVE TypeOK'
    OBVIOUS
  <2> USE DeadlineAssumption
  <2>0. Start \subseteq Rep /\ Rep \subseteq Int /\ Top \in Nat /\ Poll \in Nat /\ MaxStep \in Nat
    BY DEF Rep
  <2>1. CASE End
    <3>1. until' \in Rep
      <4>1. wall' \in Int /\ limit' \in Limits
        BY <2>0, <2>1 DEF End
      <4>2. limit' * Scale \in Int
        BY <4>1, LimitType
      <4>3. Wrap(limit' * Scale) \in Int
        BY <4>2, <2>0, WrapType
      <4>4. wall' + Wrap(limit' * Scale) \in Int
        BY <4>1, <4>3
      <4>5. QED  BY <2>1, <4>4, WrapType DEF End, Until
    <3>2. QED  BY <2>0, <2>1, <3>1 DEF TypeOK, End
  <2>2. CASE CallEpoll
    BY <2>2 DEF TypeOK, CallEpoll, clockVars
  <2>3. CASE TimeLimit
    BY <2>3 DEF TypeOK, TimeLimit, clockVars
  <2>4. CASE EpollTimeout
    BY <2>4 DEF TypeOK, EpollTimeout, clockVars
  <2>5. CASE Read
    BY <2>5 DEF TypeOK, Read, clockVars
  <2>6. CASE ReadDone
    BY <2>6 DEF TypeOK, ReadDone, AfterEvents, clockVars
  <2>7. CASE Decided
    BY <2>7 DEF TypeOK, Decided, clockVars
  <2>8. CASE Event
    BY <2>8 DEF TypeOK, Event, clockVars
  <2>9. CASE Tick
    BY <2>0, <2>9 DEF TypeOK, Tick, Timeout, Rep
  <2>10. CASE SetForward
    BY <2>0, <2>10 DEF TypeOK, SetForward, Rep
  <2>11. CASE SetBack
    BY <2>0, <2>11 DEF TypeOK, SetBack, Rep
  <2>12. CASE UNCHANGED vars
    BY <2>12 DEF TypeOK, vars
  <2>13. QED
    BY <2>1, <2>2, <2>3, <2>4, <2>5, <2>6, <2>7, <2>8, <2>9, <2>10, <2>11, <2>12
       DEF Next, BrokerStep
<1>3. QED  BY <1>1, <1>2, PTL DEF Spec

-----------------------------------------------------------------------------
(***************************************************************************)
(* While an END waits, the deadline is the one that was computed at its    *)
(* start; once the limit is said to be exceeded the clock has passed it;   *)
(* and epoll_wait() was called before the deadline.                        *)
(***************************************************************************)
DeadlineIsOfThisEnd ==
    pc # "idle" \/ status # "NONE" => until = Until(StartedAt, limit)

PassedWhenSaid ==
    status = "REAL_TIME_LIMIT_EXCEEDED" => pc = "idle" /\ Passed

CalledInTime ==
    pc = "poll" /\ Sane => elapsed - waited < limit * Scale + backward

DeadlineInv == TypeOK /\ DeadlineIsOfThisEnd /\ PassedWhenSaid /\ CalledInTime

LEMMA StartIsFixed ==
    ASSUME TypeOK, CallEpoll \/ TimeLimit \/ EpollTimeout \/ Read \/ ReadDone \/ Decided
                   \/ Event \/ Tick \/ SetForward \/ SetBack \/ UNCHANGED vars
    PROVE  StartedAt' = StartedAt /\ limit' = limit /\ until' = until
<1>1. wall \in Int /\ elapsed \in Int /\ forward \in Int /\ backward \in Int
  BY DeadlineAssumption DEF TypeOK, Rep
<1>2. CASE Tick
  BY <1>1, <1>2 DEF Tick, StartedAt
<1>3. CASE SetForward
  BY <1>1, <1>3 DEF SetForward, StartedAt
<1>4. CASE SetBack
  BY <1>1, <1>4 DEF SetBack, StartedAt
<1>5. CASE /\ UNCHANGED <<clockVars, limit, until>>
  BY <1>5 DEF clockVars, StartedAt
<1>6. CASE CallEpoll \/ TimeLimit \/ EpollTimeout \/ Read \/ ReadDone \/ Decided
           \/ Event \/ UNCHANGED vars
  BY <1>5, <1>6 DEF CallEpoll, TimeLimit, EpollTimeout, Read, ReadDone, Decided, Event, vars,
     clockVars
<1>7. QED  BY <1>2, <1>3, <1>4, <1>6

LEMMA DeadlineInvariant == Spec => []DeadlineInv
<1>1. Init => DeadlineIsOfThisEnd /\ PassedWhenSaid /\ CalledInTime
  BY DEF Init, DeadlineIsOfThisEnd, PassedWhenSaid, CalledInTime
<1>2. TypeOK /\ DeadlineInv /\ [Next]_vars
      => DeadlineIsOfThisEnd' /\ PassedWhenSaid' /\ CalledInTime'
  <2> SUFFICES ASSUME TypeOK, DeadlineInv, [Next]_vars
               PROVE  DeadlineIsOfThisEnd' /\ PassedWhenSaid' /\ CalledInTime'
    OBVIOUS
  <2> DEFINE Later == CallEpoll \/ TimeLimit \/ EpollTimeout \/ Read \/ ReadDone \/ Decided
                      \/ Event \/ Tick \/ SetForward \/ SetBack \/ UNCHANGED vars
  <2>0. /\ wall \in Int /\ elapsed \in Int /\ forward \in Nat /\ backward \in Nat
        /\ waited \in Nat /\ until \in Int /\ limit * Scale \in Int
    BY DeadlineAssumption, LimitType DEF TypeOK, Rep
  <2>1. CASE End
    <3>1. wall' \in Int
      BY <2>1, DeadlineAssumption DEF End, Rep
    <3>2. StartedAt' = wall'
      <4>1. StartedAt' = wall' - elapsed' - forward' + backward'
        BY DEF StartedAt
      <4>2. elapsed' = 0 /\ forward' = 0 /\ backward' = 0
        BY <2>1 DEF End
      <4>3. \A w \in Int : w - 0 - 0 + 0 = w
        OBVIOUS
      <4>4. StartedAt' = wall' - 0 - 0 + 0
        BY <4>1, <4>2, Zenon
      <4>5. QED  BY <3>1, <4>3, <4>4, Zenon
    <3>3. DeadlineIsOfThisEnd'
      BY <2>1, <3>2 DEF End, DeadlineIsOfThisEnd
    <3>4. QED  BY <2>1, <3>3 DEF End, PassedWhenSaid, CalledInTime
  <2>2. CASE Later
    <3>1. StartedAt' = StartedAt /\ limit' = limit /\ until' = until
      BY <2>2, StartIsFixed
    <3>2. Sane' <=> Sane
      BY <3>1 DEF Sane, Fits
    <3>3. DeadlineIsOfThisEnd'
      <4>1. pc' # "idle" \/ status' # "NONE" => pc # "idle" \/ status # "NONE"
        BY <2>2 DEF CallEpoll, TimeLimit, EpollTimeout, Read, ReadDone, Decided, Event,
           Tick, SetForward, SetBack, vars
      <4>2. DeadlineIsOfThisEnd
        BY DEF DeadlineInv
      <4>3. Until(StartedAt, limit)' = Until(StartedAt', limit')
        BY DEF Until, Wrap
      <4>4. QED  BY <4>1, <4>2, <4>3, <3>1 DEF DeadlineIsOfThisEnd
    <3>4. PassedWhenSaid'
      BY <2>2 DEF DeadlineInv, PassedWhenSaid, Passed, CallEpoll, TimeLimit, EpollTimeout, Read,
         ReadDone, Decided, Event, Tick, SetForward, SetBack, vars, clockVars
    <3>5. CalledInTime'
      <4>0. CalledInTime
        BY DEF DeadlineInv
      <4>1. CASE CallEpoll
        <5>1. Sane => until = StartedAt + limit * Scale
          BY <4>1, UntilFits DEF CallEpoll, DeadlineInv, DeadlineIsOfThisEnd, Sane
        <5>2. wall < until
          BY <2>0, <4>1 DEF CallEpoll, Passed
        <5>3. Sane => elapsed < limit * Scale + backward
          BY <2>0, <5>1, <5>2 DEF StartedAt
        <5>4. QED
          BY <2>0, <3>1, <3>2, <4>1, <5>3 DEF CallEpoll, CalledInTime, clockVars
      <4>2. CASE Tick
        BY <2>0, <3>1, <3>2, <4>0, <4>2 DEF Tick, CalledInTime
      <4>3. CASE SetForward
        BY <2>0, <3>1, <3>2, <4>0, <4>3 DEF SetForward, CalledInTime
      <4>4. CASE SetBack
        BY <2>0, <3>1, <3>2, <4>0, <4>4 DEF SetBack, CalledInTime
      <4>5. CASE UNCHANGED vars
        BY <3>1, <3>2, <4>0, <4>5 DEF vars, CalledInTime
      <4>6. CASE TimeLimit \/ EpollTimeout \/ Read \/ ReadDone \/ Decided \/ Event
        <5>1. pc' # "poll"
          BY <4>6 DEF TimeLimit, EpollTimeout, Read, ReadDone, Decided, Event, AfterEvents
        <5>2. QED  BY <5>1 DEF CalledInTime
      <4>7. QED  BY <2>2, <4>1, <4>2, <4>3, <4>4, <4>5, <4>6
    <3>6. QED  BY <3>3, <3>4, <3>5
  <2>3. QED  BY <2>1, <2>2 DEF Next, BrokerStep
<1>3. QED  BY <1>1, <1>2, DeadlineTypeCorrect, PTL DEF Spec, DeadlineInv

-----------------------------------------------------------------------------

\* No solution is said to have exceeded its limit before it has, whatever the
\* width of the clock, if the sum fits and up to what the clock was set forward.
THEOREM LimitIsNotEarly == Spec => []NotTooEarly
<1>1. DeadlineInv => NotTooEarly
  <2> SUFFICES ASSUME DeadlineInv, status = "REAL_TIME_LIMIT_EXCEEDED", Sane
               PROVE  elapsed + forward >= limit * Scale
    BY DEF NotTooEarly
  <2>1. /\ wall \in Int /\ elapsed \in Int /\ forward \in Nat /\ backward \in Nat
        /\ limit * Scale \in Int
    BY DeadlineAssumption, LimitType DEF DeadlineInv, TypeOK, Rep
  <2>2. wall >= StartedAt + limit * Scale
    BY UntilFits DEF DeadlineInv, DeadlineIsOfThisEnd, PassedWhenSaid, Passed, Sane
  <2>3. QED  BY <2>1, <2>2 DEF StartedAt
<1>2. QED  BY <1>1, DeadlineInvariant, PTL

\* The broker never waits longer than limit and timeout of epoll_wait(), up to
\* what the clock was set back, whatever events keep it busy.
THEOREM LimitIsNotLate == Spec => []NotTooLate
<1>1. DeadlineInv => NotTooLate
  <2> SUFFICES ASSUME DeadlineInv, pc = "poll", Sane
               PROVE  elapsed < limit * Scale + backward + Poll
    BY DEF NotTooLate
  <2>1. /\ elapsed \in Int /\ backward \in Nat /\ waited \in 0 .. Poll
        /\ limit * Scale \in Int /\ Poll \in Nat
    BY DeadlineAssumption, LimitType DEF DeadlineInv, TypeOK
  <2>2. elapsed - waited < limit * Scale + backward
    BY DEF DeadlineInv, CalledInTime
  <2>3. QED  BY <2>1, <2>2
<1>2. QED  BY <1>1, DeadlineInvariant, PTL

=============================================================================
