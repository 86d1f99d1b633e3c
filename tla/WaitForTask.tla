---------------------------- MODULE WaitForTask ----------------------------
(***************************************************************************)
(* wait_for_task (src/proxmox_mcp/tools/task.py): one call that polls one  *)
(* Proxmox task until it has ended or the time is up.                      *)
(*                                                                         *)
(* The call keeps time twice: elapsed adds up the intervals it meant to    *)
(* sleep, and the event loop's clock runs on.  A poll takes any time, and  *)
(* so may a sleep beyond its interval (the loop is busy with other calls). *)
(* The task may end at any moment, also between the evaluation of a poll   *)
(* and the resumption of the call with its reply.                          *)
(***************************************************************************)
EXTENDS Integers

CONSTANTS
    MaxTimeout,    \* the longest timeout, 3600 seconds in the code
    Timeouts,      \* the timeouts a caller asks for
    Intervals,     \* the poll intervals a caller asks for
    MaxTime        \* bound: from here on the clock runs only in the call's sleeps

ASSUME TimeAssumption ==
    /\ MaxTimeout \in Nat \ {0}
    /\ MaxTime \in Nat
    /\ Timeouts \subseteq Int
    /\ Intervals \subseteq Int

VARIABLES
    now,        \* the event loop's clock, in seconds
    ended,      \* the time the task ended, or Running
    pc,         \* where the call is
    timeout,    \* the timeout, clamped by Begin
    interval,   \* poll_interval, clamped by Begin
    start,      \* the clock when the call began to poll
    elapsed,    \* the intervals slept so far
    wake,       \* the earliest end of the sleep
    seen,       \* what the last poll found: "running" or "stopped"
    polls,      \* history: how many polls were evaluated
    lastPoll    \* history: the clock at the last of them

timing == <<timeout, interval, start>>
vars == <<now, ended, pc, timing, elapsed, wake, seen, polls, lastPoll>>

Running == -1

\* The answers: the final status, TaskTimeoutError, or another error.
Answers == {"success", "timed_out", "error"}

TypeOK ==
    /\ now \in Nat
    /\ ended \in Nat \union {Running}
    /\ pc \in {"called", "poll", "reply", "sleep"} \union Answers
    /\ timeout \in Int
    /\ interval \in Int
    /\ start \in Nat
    /\ elapsed \in Int
    /\ wake \in Int
    /\ seen \in {"running", "stopped"}
    /\ polls \in Nat
    /\ lastPoll \in Nat
    /\ pc # "called" => timeout \in 1..MaxTimeout /\ interval >= 1

Init ==
    /\ now = 0
    /\ ended = Running
    /\ pc = "called"
    /\ timeout \in Timeouts
    /\ interval \in Intervals
    /\ start = 0
    /\ elapsed = 0
    /\ wake = 0
    /\ seen = "running"
    /\ polls = 0
    /\ lastPoll = 0

----------------------------------------------------------------------------

AtMost(a, b) == IF a < b THEN a ELSE b
AtLeast(a, b) == IF a > b THEN a ELSE b

\* Mutant of ClampedTimeout: only the upper end is clamped.
TimeoutClampedAbove == AtMost(timeout, MaxTimeout)

ClampedTimeout == AtMost(AtLeast(timeout, 1), MaxTimeout)

\* Mutant of ClampedInterval: the interval is taken as it comes.
IntervalUnclamped == interval

ClampedInterval == AtLeast(interval, 1)

\* Mutant of WithinTime: only the sleeps are counted, and one too many.
SleepsWithin(begun, slept, limit) == slept <= limit

\* The loop's condition: neither the sleeps nor the clock have used the time up.
WithinTime(begun, slept, limit) == slept < limit /\ now - begun < limit

\* Mutant of LoopHead: the loop is left without an answer.
LoopHeadFallsThrough(begun, slept, limit) ==
    pc' = IF WithinTime(begun, slept, limit) THEN "poll" ELSE "left"

LoopHead(begun, slept, limit) ==
    pc' = IF WithinTime(begun, slept, limit) THEN "poll" ELSE "timed_out"

Begin ==
    /\ pc = "called"
    /\ timeout' = ClampedTimeout
    /\ interval' = ClampedInterval
    /\ start' = now
    /\ LoopHead(now, 0, ClampedTimeout)
    /\ UNCHANGED <<now, ended, elapsed, wake, seen, polls, lastPoll>>

\* The request is evaluated at the node.
Poll ==
    /\ pc = "poll"
    /\ seen' = IF ended = Running THEN "running" ELSE "stopped"
    /\ polls' = polls + 1
    /\ lastPoll' = now
    /\ pc' = "reply"
    /\ UNCHANGED <<now, ended, timing, elapsed, wake>>

\* The request fails; the error is the answer.
PollFails ==
    /\ pc = "poll"
    /\ pc' = "error"
    /\ UNCHANGED <<now, ended, timing, elapsed, wake, seen, polls, lastPoll>>

\* The reply says that the task is no longer running.
ReplyStopped ==
    /\ pc = "reply"
    /\ seen # "running"
    /\ pc' = "success"
    /\ UNCHANGED <<now, ended, timing, elapsed, wake, seen, polls, lastPoll>>

\* Mutant of ReplyRunning: the call sleeps to the next full second only.
ReplyRunningShort ==
    /\ pc = "reply"
    /\ seen = "running"
    /\ wake' = now + 1
    /\ pc' = "sleep"
    /\ UNCHANGED <<now, ended, timing, elapsed, seen, polls, lastPoll>>

\* Mutant of ReplyRunning: the answer is given as soon as the time is up.
ReplyRunningGivesUp ==
    /\ pc = "reply"
    /\ seen = "running"
    /\ wake' = now + interval
    /\ pc' = IF now - start + interval > timeout THEN "success" ELSE "sleep"
    /\ UNCHANGED <<now, ended, timing, elapsed, seen, polls, lastPoll>>

\* The reply says that the task is running: sleep.
ReplyRunning ==
    /\ pc = "reply"
    /\ seen = "running"
    /\ wake' = now + interval
    /\ pc' = "sleep"
    /\ UNCHANGED <<now, ended, timing, elapsed, seen, polls, lastPoll>>

\* The sleep is over: count it and go back to the head of the loop.
Wake ==
    /\ pc = "sleep"
    /\ now >= wake
    /\ elapsed' = elapsed + interval
    /\ LoopHead(start, elapsed', timeout)
    /\ UNCHANGED <<now, ended, timing, wake, seen, polls, lastPoll>>

CallStep == Begin \/ Poll \/ PollFails \/ ReplyStopped \/ ReplyRunning \/ Wake

\* The task ends, with whatever exit status.
End ==
    /\ ended = Running
    /\ ended' = now
    /\ UNCHANGED <<now, pc, timing, elapsed, wake, seen, polls, lastPoll>>

\* Time passes while the call is suspended.
Tick ==
    /\ now < MaxTime \/ (pc = "sleep" /\ now < wake)
    /\ now' = now + 1
    /\ UNCHANGED <<ended, pc, timing, elapsed, wake, seen, polls, lastPoll>>

Next == CallStep \/ End \/ Tick

Spec == Init /\ [][Next]_vars

\* The event loop runs a resumable call, api_call replies or fails, and time
\* passes.  Nothing makes the task end.
FairSpec == Spec /\ WF_vars(CallStep) /\ WF_vars(Tick)

----------------------------------------------------------------------------

(***************************************************************************)
(* The call does not give up early: when it answers TaskTimeoutError, the  *)
(* whole timeout has passed on the clock, whichever of the loop's two      *)
(* counts ended it.                                                        *)
(***************************************************************************)
TimeoutNotEarly == pc = "timed_out" => now - start >= timeout

(***************************************************************************)
(* A call that times out has looked at least once, whatever timeout it was *)
(* given, and the task was still running when it last looked.              *)
(***************************************************************************)
TimeoutSawRunning ==
    pc = "timed_out" => polls > 0 /\ (ended # Running => ended >= lastPoll)

(***************************************************************************)
(* A success is reported of a task that had ended when the last poll was   *)
(* evaluated, and its elapsed_seconds never exceeds the time the call      *)
(* really took until that poll.                                            *)
(***************************************************************************)
SuccessSound ==
    pc = "success" =>
        /\ ended # Running
        /\ ended <= lastPoll
        /\ elapsed <= lastPoll - start

(***************************************************************************)
(* The API is polled at most once for each interval that fits into the     *)
(* timeout, so the timeout bounds the requests of a call.                  *)
(***************************************************************************)
PollsBounded == pc # "called" => (polls - 1) * interval < timeout

(***************************************************************************)
(* Two polls are at least one interval, and never less than a second,      *)
(* apart, although sleeps and replies are late.                            *)
(***************************************************************************)
PollsSpaced ==
    [][polls' # polls /\ polls > 0 => now - lastPoll >= AtLeast(interval, 1)]_vars

(***************************************************************************)
(* Every call is answered, even if its task never ends.                    *)
(***************************************************************************)
Answered == <>(pc \in Answers)
=============================================================================
