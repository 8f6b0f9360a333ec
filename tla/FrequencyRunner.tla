---------------------------- MODULE FrequencyRunner ----------------------------
(***************************************************************************)
(* from-k8s/pkg/util/async/bounded_frequency_runner.go: one goroutine, in  *)
(* Loop, runs a function when it is asked to, when a retry is due and at   *)
(* least every maxInterval, but no more often than a token bucket allows.  *)
(* Time passes in ticks; an instant is kept as the number of ticks until   *)
(* it comes, or since it went by.  Loop answers a channel before the next  *)
(* tick, unless the bucket is empty or the function is still running.      *)
(* (Definitions that no action uses are faulty variants.)                  *)
(***************************************************************************)
EXTENDS Integers

CONSTANTS MinInterval, MaxInterval, BurstRuns,
          MaxFn,            \* bound: how long a run of the function takes
          Delays,           \* the arguments of RetryAfter
          Never

ASSUME RunnerAssumption == /\ MinInterval \in Nat \ {0} /\ MaxInterval \in Nat
                           /\ MaxInterval >= MinInterval /\ BurstRuns \in Nat \ {0}
                           /\ MaxFn \in Nat /\ Delays \subseteq Nat /\ Never \notin Int

VARIABLES run, retry,       \* the channels, of one element each
          tick, armed,      \* the timer's channel; the timer is running
          next,             \* timer.next: ticks until the timer goes off, as Remaining sees it
          retryTime,        \* ticks until retryTime
          tokens,           \* MinInterval tokens for each run that may start
          since,            \* ticks since lastRun
          fn,               \* ticks the function has been running for
          asked, due,       \* history: since Run was called; until RetryAfter promised a run
          started           \* history: ticks since the last start

runnerVars == <<run, retry, tick, armed, next, retryTime, tokens, since, fn, asked, due, started>>

Cap == MaxInterval + MaxFn + 1                    \* where counting stops
Later(n) == IF n < Cap THEN n + 1 ELSE n
Sooner(n) == IF n > -Cap THEN n - 1 ELSE n
Idle == fn = Never
Ready == Idle /\ (run \/ retry \/ tick)

\* construct, and the first Reset of Loop.
RunnerInit == /\ run = FALSE /\ retry = FALSE /\ tick = FALSE /\ armed = TRUE
              /\ next = MaxInterval
              /\ retryTime = Never /\ tokens = BurstRuns * MinInterval
              /\ since = Cap /\ fn = Never /\ asked = Never /\ due = Never /\ started = Cap

Run == /\ run' = TRUE
       /\ asked' = IF asked = Never THEN 0 ELSE asked
       /\ UNCHANGED <<retry, tick, armed, next, retryTime, tokens, since, fn, due, started>>

RetryAfter(d) ==
    /\ IF retryTime # Never /\ retryTime < d THEN UNCHANGED <<retryTime, retry>>
       ELSE retryTime' = d /\ retry' = TRUE
    /\ due' = IF due # Never /\ due < d THEN due ELSE d
    /\ UNCHANGED <<run, tick, armed, next, tokens, since, fn, asked, started>>

\* timer.Stop and timer.Reset: a tick that is already in the channel stays there.
TimerReset(d, pending) == next' = d /\ armed' = (d > 0) /\ tick' = (pending \/ d <= 0)

(***************************************************************************)
(* tryRun; pending says whether a tick is still in the timer's channel.    *)
(***************************************************************************)
MayRun == tokens >= MinInterval

StartsFree == /\ fn' = 0 /\ tokens' = tokens
              /\ asked' = Never /\ due' = Never /\ started' = 0
              /\ UNCHANGED <<armed, next, since>>

Starts == /\ fn' = 0 /\ tokens' = tokens - MinInterval
          /\ asked' = Never /\ due' = Never /\ started' = 0
          /\ UNCHANGED <<armed, next, since>>

NotYetKeeps(pending) == /\ tick' = pending
                        /\ UNCHANGED <<armed, next, fn, tokens, since, asked, due, started>>

NotYet(pending) == /\ LET possible == MinInterval - since
                      IN  TimerReset(IF possible < next THEN possible ELSE next, pending)
                   /\ UNCHANGED <<fn, tokens, since, asked, due, started>>

tryRun(pending) == \/ MayRun /\ Starts /\ tick' = pending
                   \/ ~MayRun /\ NotYet(pending)

OnTimer == Idle /\ tick /\ tryRun(FALSE) /\ UNCHANGED <<run, retry, retryTime>>
OnRun == Idle /\ run /\ run' = FALSE /\ tryRun(tick) /\ UNCHANGED <<retry, retryTime>>

doRetryKeeps == /\ Idle /\ retry /\ retry' = FALSE /\ retryTime' = Never
                /\ UNCHANGED <<tick, armed, next, run, tokens, since, fn, asked, due, started>>

doRetry == /\ Idle /\ retry /\ retry' = FALSE /\ retryTime' = Never
           /\ IF retryTime # Never /\ retryTime < next THEN TimerReset(retryTime, tick)
              ELSE UNCHANGED <<tick, armed, next>>
           /\ UNCHANGED <<run, tokens, since, fn, asked, due, started>>

\* The function returns, and the timer is set for the longest interval.
Ends == /\ ~Idle /\ fn' = Never /\ since' = 0
        /\ TimerReset(MaxInterval, tick)
        /\ UNCHANGED <<run, retry, retryTime, tokens, asked, due, started>>

Tick == /\ ~Ready \/ ~MayRun
        /\ ~Idle => fn < MaxFn
        /\ fn' = IF Idle THEN fn ELSE fn + 1
        /\ next' = Sooner(next)
        /\ armed' = (armed /\ next > 1)
        /\ tick' = (tick \/ (armed /\ next <= 1))
        /\ retryTime' = IF retryTime = Never THEN Never ELSE Sooner(retryTime)
        /\ tokens' = IF tokens < BurstRuns * MinInterval THEN tokens + 1 ELSE tokens
        /\ since' = Later(since) /\ started' = Later(started)
        /\ asked' = IF asked = Never THEN Never ELSE Later(asked)
        /\ due' = IF due = Never THEN Never ELSE Sooner(due)
        /\ UNCHANGED <<run, retry>>

RunnerNext == \/ Run \/ OnTimer \/ OnRun \/ doRetry \/ Ends \/ Tick
              \/ \E d \in Delays : RetryAfter(d)

RunnerSpec == RunnerInit /\ [][RunnerNext]_runnerVars
-----------------------------------------------------------------------------
(***************************************************************************)
(* Between two runs no more than maxInterval goes by, from the end of one  *)
(* to the start of the next, although the timer's channel may hold a stale *)
(* tick and a retry or a refused run resets the timer.                     *)
(***************************************************************************)
RunsOften == Idle /\ since < Cap => since <= MaxInterval

\* With bursts of one, starts are at least minInterval apart.
RunsSeldom == [][BurstRuns = 1 /\ fn' = 0 /\ Idle => started >= MinInterval]_runnerVars

(***************************************************************************)
(* A call of Run, also one made while the function is running, is followed *)
(* by a new run at most minInterval after the loop is free to start it.    *)
(***************************************************************************)
RunIsAnswered == Idle /\ asked # Never => asked <= MinInterval + MaxFn

(***************************************************************************)
(* A run that RetryAfter promised does not wait for the longest interval:  *)
(* once its time has gone by, an idle loop starts it at most minInterval   *)
(* after the end of the last run, whichever of the timer, a call of Run or *)
(* a later RetryAfter found the bucket empty first.                        *)
(***************************************************************************)
RetryIsKept == Idle /\ due # Never /\ due < 0 => since <= MinInterval

(***************************************************************************)
(* What keeps these three true.  The clocks: the bucket has a token for each *)
(* tick since the last start, or enough for a run.  The wake-ups: an idle  *)
(* loop has a tick to answer or a timer that goes off in time, both after  *)
(* a run and when a refused call of Run was taken from its channel; for a  *)
(* promised retry it may also be the timer doRetry has set.                *)
(***************************************************************************)
RunnerTypeOK == /\ run \in BOOLEAN /\ retry \in BOOLEAN /\ tick \in BOOLEAN /\ armed \in BOOLEAN
                /\ next \in Int /\ retryTime \in Int \cup {Never}
                /\ tokens \in 0..(BurstRuns * MinInterval)
                /\ since \in 0..Cap /\ started \in 0..Cap
                /\ fn \in 0..MaxFn \cup {Never} /\ asked \in 0..Cap \cup {Never}
                /\ due \in Int \cup {Never}

Clocks == /\ MayRun \/ started <= tokens
          /\ BurstRuns = 1 => tokens <= started
          /\ ~Idle => started = fn
          /\ Idle => since <= started /\ started <= since + MaxFn
          /\ asked # Never => asked <= started

WakesUp == /\ armed => next >= 1
           /\ Idle /\ since < Cap => tick \/ (armed /\ next <= MaxInterval - since)
           /\ asked # Never => run \/ (Idle /\ (tick \/ (armed /\ next <= MinInterval - since)))

RetryWakes == /\ Idle => tick \/ armed
              /\ retryTime # Never => retry
              /\ due # Never => \/ retry /\ retryTime # Never /\ retryTime <= due
                                \/ /\ Idle
                                   /\ \/ tick
                                      \/ armed /\ next <= due
                                      \/ armed /\ next <= MinInterval - since

RunnerInv == /\ RunnerTypeOK /\ Clocks /\ WakesUp /\ RetryWakes
             /\ RunsOften /\ RunIsAnswered /\ RetryIsKept
=============================================================================
