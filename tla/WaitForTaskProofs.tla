------------------------- MODULE WaitForTaskProofs -------------------------
(***************************************************************************)
(* The safety properties of WaitForTask hold for every timeout and poll    *)
(* interval a caller may ask for, negative ones included, every upper      *)
(* limit, and polls and sleeps of any duration.                            *)
(***************************************************************************)
EXTENDS WaitForTask, TLAPS

\* The polls whose sleep has been slept: all of them, or all but the last.
Slept == IF pc \in { "reply", "sleep", "success" } THEN polls - 1 ELSE polls

\* The call counts the intervals of those polls.
Counted == pc # "called" => elapsed = Slept * interval

\* The call's two clocks: the sleeps counted fit into the time that has passed, and
\* a poll follows a whole sleep.
Clocks ==
    /\ pc = "called" => polls = 0 /\ elapsed = 0
    /\ lastPoll <= now
    /\ pc # "called" => start <= now /\ elapsed <= now - start
    /\ pc \in { "poll", "reply", "sleep", "success" } => elapsed < timeout
    /\ pc \in { "reply", "sleep", "success" } => polls > 0 /\ elapsed <= lastPoll - start
    /\ pc = "sleep" => wake >= lastPoll + interval
    /\ pc = "poll" /\ polls > 0 => now >= lastPoll + interval
    /\ pc = "timed_out" => elapsed >= timeout \/ now - start >= timeout

\* What the last poll found is what it could have found at its time.
Sightings ==
    /\ seen = "running" => ended = Running \/ polls = 0 \/ ended >= lastPoll
    /\ seen = "stopped" => ended # Running /\ ended <= lastPoll
    /\ ended <= now
    /\ pc \in { "called", "poll", "sleep", "timed_out" } => seen = "running"
    /\ pc = "timed_out" => polls > 0
    /\ pc = "success" => seen = "stopped"

\* The inductive invariant.
IInv == TypeOK /\ Counted /\ Clocks /\ Sightings /\ PollsBounded

----------------------------------------------------------------------------

LEMMA OneMore == \A a, b \in Int : (a - 1) * b + b = a * b /\ ((a + 1) - 1) * b = a * b
OBVIOUS

\* Begin's clamping.
LEMMA Clamped == TypeOK => ClampedTimeout \in 1..MaxTimeout /\ ClampedInterval \in Nat \ {0}
BY TimeAssumption DEF TypeOK, ClampedTimeout, ClampedInterval, AtMost, AtLeast

LEMMA InitHolds == Init => IInv
<1> SUFFICES ASSUME Init PROVE IInv
  OBVIOUS
<1>1. TypeOK
  BY TimeAssumption DEF Init, TypeOK
<1>2. Counted /\ Clocks /\ Sightings /\ PollsBounded
  BY DEF Init, Counted, Clocks, Sightings, PollsBounded, Running
<1>3. QED
  BY <1>1, <1>2 DEF IInv

LEMMA BeginKeeps == IInv /\ Begin => IInv'
<1> SUFFICES ASSUME IInv, Begin PROVE IInv'
  OBVIOUS
<1>1. ClampedTimeout \in 1..MaxTimeout /\ ClampedInterval \in Nat \ {0}
  BY Clamped DEF IInv
<1>2. /\ timeout' = ClampedTimeout /\ interval' = ClampedInterval /\ start' = now
      /\ UNCHANGED <<now, ended, elapsed, wake, seen, polls, lastPoll>>
  BY DEF Begin
<1>3. now \in Nat /\ polls = 0 /\ elapsed = 0 /\ pc = "called"
  BY DEF IInv, TypeOK, Clocks, Begin
<1>4. pc' = "poll"
  BY <1>1, <1>3, TimeAssumption DEF Begin, LoopHead, WithinTime
<1> HIDE DEF ClampedTimeout, ClampedInterval
<1>5. TypeOK'
  BY <1>1, <1>2, <1>4, TimeAssumption DEF IInv, TypeOK, Answers
<1>6. Clocks' /\ Counted'
  BY <1>1, <1>2, <1>3, <1>4, TimeAssumption DEF IInv, TypeOK, Clocks, Counted, Slept
<1>7. Sightings'
  BY <1>2, <1>3, <1>4 DEF IInv, Sightings
<1>8. PollsBounded'
  BY <1>1, <1>2, <1>3, TimeAssumption DEF PollsBounded
<1>9. QED
  BY <1>5, <1>6, <1>7, <1>8 DEF IInv

LEMMA PollKeeps == IInv /\ Poll => IInv'
<1> SUFFICES ASSUME IInv, Poll PROVE IInv'
  OBVIOUS
<1>1. TypeOK'
  BY DEF IInv, TypeOK, Poll, timing
<1>2. /\ Slept = polls /\ Slept' = polls' - 1 /\ polls' = polls + 1 /\ interval' = interval
      /\ polls \in Nat /\ interval \in Int /\ elapsed = polls * interval
      /\ elapsed' = elapsed /\ timeout' = timeout
  BY DEF IInv, TypeOK, Counted, Slept, Poll, timing
<1>3. Counted'
  BY <1>2 DEF Counted
<1>4. Clocks'
  BY DEF IInv, TypeOK, Clocks, Poll, timing
<1>5. Sightings'
  BY DEF IInv, TypeOK, Sightings, Poll, timing, Running
<1>6. elapsed < timeout
  BY DEF IInv, Clocks, Poll
<1>7. PollsBounded'
  BY <1>2, <1>6 DEF PollsBounded
<1>8. QED
  BY <1>1, <1>3, <1>4, <1>5, <1>7 DEF IInv

\* A step that only moves the call on: the clocks and the sighting stay as they were.
LEMMA MoveKeeps == IInv /\ (PollFails \/ ReplyStopped \/ ReplyRunning) => IInv'
<1> SUFFICES ASSUME IInv, PollFails \/ ReplyStopped \/ ReplyRunning PROVE IInv'
  OBVIOUS
<1>1. UNCHANGED <<now, ended, timeout, interval, start, elapsed, seen, polls, lastPoll>>
  BY DEF PollFails, ReplyStopped, ReplyRunning, timing
<1>2. \/ pc = "poll" /\ pc' = "error" /\ wake' = wake
      \/ pc = "reply" /\ seen # "running" /\ pc' = "success" /\ wake' = wake
      \/ pc = "reply" /\ seen = "running" /\ pc' = "sleep" /\ wake' = now + interval
  BY DEF PollFails, ReplyStopped, ReplyRunning, timing
<1>3. TypeOK'
  BY <1>1, <1>2 DEF IInv, TypeOK, Answers
<1>4. Slept' = Slept
  BY <1>1, <1>2 DEF Slept
<1>5. Counted'
  BY <1>1, <1>2, <1>4 DEF IInv, Counted
<1>6. Clocks'
  BY <1>1, <1>2 DEF IInv, TypeOK, Clocks
<1>7. Sightings'
  BY <1>1, <1>2 DEF IInv, TypeOK, Sightings
<1>8. PollsBounded'
  BY <1>1, <1>2 DEF IInv, PollsBounded
<1>9. QED
  BY <1>3, <1>5, <1>6, <1>7, <1>8 DEF IInv

LEMMA WakeKeeps == IInv /\ Wake => IInv'
<1> SUFFICES ASSUME IInv, Wake PROVE IInv'
  OBVIOUS
<1>1. /\ pc = "sleep" /\ now >= wake /\ elapsed' = elapsed + interval
      /\ UNCHANGED <<now, ended, timeout, interval, start, wake, seen, polls, lastPoll>>
  BY DEF Wake, timing
<1>2. \/ pc' = "poll" /\ elapsed' < timeout
      \/ pc' = "timed_out" /\ (elapsed' >= timeout \/ now - start >= timeout)
  BY <1>1 DEF Wake, LoopHead, WithinTime, IInv, TypeOK
<1>3. TypeOK'
  BY <1>1, <1>2 DEF IInv, TypeOK, Answers
<1>4. Slept' = polls /\ elapsed = (polls - 1) * interval
  BY <1>1, <1>2 DEF IInv, Counted, Slept
<1>5. Counted'
  BY <1>1, <1>4, OneMore DEF IInv, TypeOK, Counted
<1>6. Clocks'
  BY <1>1, <1>2 DEF IInv, TypeOK, Clocks
<1>7. Sightings'
  BY <1>1, <1>2 DEF IInv, TypeOK, Sightings, Clocks
<1>8. PollsBounded'
  BY <1>1, <1>2 DEF IInv, PollsBounded
<1>9. QED
  BY <1>3, <1>5, <1>6, <1>7, <1>8 DEF IInv

LEMMA WorldKeeps == IInv /\ (End \/ Tick) => IInv'
<1> SUFFICES ASSUME IInv, End \/ Tick PROVE IInv'
  OBVIOUS
<1>1. /\ UNCHANGED <<pc, timeout, interval, start, elapsed, wake, seen, polls, lastPoll>>
      /\ now' = now \/ now' = now + 1
      /\ ended' = ended \/ (ended = Running /\ ended' = now)
  <2>1. CASE End
    BY <2>1 DEF End, timing, IInv, TypeOK
  <2>2. CASE Tick
    BY <2>2 DEF Tick, timing, IInv, TypeOK
  <2>3. QED
    BY <2>1, <2>2
<1>2. TypeOK'
  BY <1>1 DEF IInv, TypeOK
<1>3. Counted'
  BY <1>1 DEF IInv, Counted, Slept
<1>4. Clocks'
  <2>1. CASE now' = now
    BY <2>1, <1>1 DEF IInv, Clocks
  <2>2. CASE now' = now + 1
    BY <2>2, <1>1 DEF IInv, TypeOK, Clocks
  <2>3. QED
    BY <2>1, <2>2, <1>1
<1>5. Sightings'
  BY <1>1 DEF IInv, TypeOK, Clocks, Sightings, Running
<1>6. PollsBounded'
  BY <1>1 DEF IInv, PollsBounded
<1>7. QED
  BY <1>2, <1>3, <1>4, <1>5, <1>6 DEF IInv

LEMMA StutterKeeps == IInv /\ UNCHANGED vars => IInv'
BY DEF IInv, TypeOK, Counted, Slept, Clocks, Sightings, PollsBounded, vars, timing

LEMMA NextKeeps == IInv /\ [Next]_vars => IInv'
BY BeginKeeps, PollKeeps, MoveKeeps, WakeKeeps, WorldKeeps, StutterKeeps DEF Next, CallStep

----------------------------------------------------------------------------

\* The inductive invariant holds in every reachable state.
THEOREM Invariance == Spec => []IInv
BY InitHolds, NextKeeps, PTL DEF Spec

\* Every variable keeps its type, and both limits are in force once the call began.
THEOREM TypeCorrect == Spec => []TypeOK
<1>1. IInv => TypeOK
  BY DEF IInv
<1>2. QED
  BY <1>1, Invariance, PTL

\* Whichever of the two counts ends the loop, the whole timeout has passed.
THEOREM NoEarlyTimeout == Spec => []TimeoutNotEarly
<1>1. IInv => TimeoutNotEarly
  BY DEF IInv, TypeOK, Clocks, TimeoutNotEarly
<1>2. QED
  BY <1>1, Invariance, PTL

\* A call that times out has looked, and then the task was still running.
THEOREM TimeoutAfterLook == Spec => []TimeoutSawRunning
<1>1. IInv => TimeoutSawRunning
  BY DEF IInv, TypeOK, Sightings, TimeoutSawRunning
<1>2. QED
  BY <1>1, Invariance, PTL

\* A success is told of a task that had ended, with no more time than was taken.
THEOREM SuccessIsSound == Spec => []SuccessSound
<1>1. IInv => SuccessSound
  BY DEF IInv, TypeOK, Clocks, Sightings, SuccessSound
<1>2. QED
  BY <1>1, Invariance, PTL

\* The timeout bounds the requests of a call.
THEOREM PollsAreBounded == Spec => []PollsBounded
<1>1. IInv => PollsBounded
  BY DEF IInv
<1>2. QED
  BY <1>1, Invariance, PTL

\* Only Poll counts a poll, and it follows the sleep after the last one.
LEMMA StepSpaced ==
    IInv /\ [Next]_vars =>
        (polls' # polls /\ polls > 0 => now - lastPoll >= AtLeast(interval, 1))
<1> SUFFICES ASSUME IInv, [Next]_vars, polls' # polls, polls > 0
             PROVE  now - lastPoll >= AtLeast(interval, 1)
  OBVIOUS
<1>1. Poll
  BY DEF Next, CallStep, Begin, PollFails, ReplyStopped, ReplyRunning, Wake, End, Tick, vars
<1>2. now >= lastPoll + interval /\ interval >= 1
  BY <1>1 DEF Poll, IInv, TypeOK, Clocks
<1>3. QED
  BY <1>2 DEF AtLeast, IInv, TypeOK

\* Two polls are an interval apart, and at least a second.
THEOREM PollsAreSpaced == Spec => PollsSpaced
<1>1. IInv /\ [Next]_vars
      => [polls' # polls /\ polls > 0 => now - lastPoll >= AtLeast(interval, 1)]_vars
  BY StepSpaced
<1>2. QED
  BY <1>1, Invariance, PTL DEF Spec, PollsSpaced
=============================================================================
