------------------------------ MODULE RateLimiter ------------------------------
(***************************************************************************)
(* The rate limiter of the MCP server, src/ratelimit.py: a token bucket per *)
(* tool, and a call that finds it empty is refused with the time after      *)
(* which to come back.                                                      *)
(*                                                                          *)
(* Time is counted in ticks, Minute of them to a minute.  A token is Minute *)
(* units and a bucket of n calls a minute gains n units a tick, so that the *)
(* fractions of the code are exact.  The code reads time.time(), the wall   *)
(* clock, which an administrator or NTP may set back, and right again.      *)
(***************************************************************************)
EXTENDS Integers, Sequences

CONSTANTS Limited,      \* tools with a handler
          LimitOf,    \* calls a minute allowed to a tool
          Minute,     \* ticks in a minute
          Grain,      \* ticks in a millisecond
          MaxTime,    \* bound: ticks of a behaviour
          MaxBack     \* bound: how many ticks the clock may be behind

ASSUME LimiterAssumption ==
  /\ LimitOf \in [Limited -> Nat \ {0}]
  /\ Minute \in Nat \ {0} /\ Grain \in Nat \ {0}
  /\ MaxTime \in Nat /\ MaxBack \in Nat

VARIABLES real,       \* ticks since the start, which no program can read
          back,       \* by how much the wall clock is behind
          bucket,     \* RateLimiter._buckets: tool -> bucket, or Missing
          granted,    \* history: tool -> when calls were allowed, and how much
                      \* the clock was behind then
          promised    \* history: tool -> when a refusal said to come back

timeVars == <<real, back>>
toolVars == <<bucket, granted, promised>>

Missing == [tokens |-> 0, last |-> -1 - MaxBack]   \* before any reading of the clock
Never   == MaxTime + 1
now     == real - back

Least(a, b) == IF a <= b THEN a ELSE b

LimiterTypeOK ==
  /\ real \in 0 .. MaxTime /\ back \in 0 .. MaxBack
  /\ bucket \in [Limited -> [tokens : Nat, last : Int]]
  /\ granted \in [Limited -> Seq([at : Nat, behind : Nat])]
  /\ promised \in [Limited -> Int]

LimiterInit ==
  /\ real = 0 /\ back = 0
  /\ bucket = [t \in Limited |-> Missing]
  /\ granted = [t \in Limited |-> <<>>]
  /\ promised = [t \in Limited |-> Never]

-----------------------------------------------------------------------------
Tick ==
  /\ real < MaxTime
  /\ real' = real + 1
  /\ UNCHANGED <<back, toolVars>>

\* What was promised before is not in the time of the new clock.
SetClock ==
  /\ \E b \in (0 .. MaxBack) \ {back} : back' = b
  /\ promised' = [t \in Limited |-> Never]
  /\ UNCHANGED <<real, bucket, granted>>

\* Mutated form of Refilled: last_refill goes back with the clock.
RefilledBack(t) ==
  LET b == bucket[t]
      cap == LimitOf[t] * Minute
  IN  IF b = Missing THEN [tokens |-> cap, last |-> now]
      ELSE IF now > b.last
        THEN [tokens |-> Least(cap, b.tokens + LimitOf[t] * (now - b.last)), last |-> now]
        ELSE [b EXCEPT !.last = now]

\* What the bucket of a tool holds when check() looks at it: a new one is
\* full, and a clock that went back adds nothing and keeps last_refill.
Refilled(t) ==
  LET b == bucket[t]
      cap == LimitOf[t] * Minute
  IN  IF b = Missing THEN [tokens |-> cap, last |-> now]
      ELSE IF now > b.last
        THEN [tokens |-> Least(cap, b.tokens + LimitOf[t] * (now - b.last)), last |-> now]
        ELSE b

Allowed(t) == Refilled(t).tokens >= Minute

\* retry_after, rounded to a nearest millisecond, up or down: what time w brings
\* differs from what is missing by no more than half a millisecond does.
RetryAfter(t) ==
  LET missing == Minute - Refilled(t).tokens IN
  {w \in 0 .. Minute + Grain :
     /\ w % Grain = 0
     /\ 2 * (missing - LimitOf[t] * w) <= LimitOf[t] * Grain
     /\ 2 * (LimitOf[t] * w - missing) <= LimitOf[t] * Grain}

Grant(t) ==
  /\ Allowed(t)
  /\ bucket' = [bucket EXCEPT ![t] = [Refilled(t) EXCEPT !.tokens = @ - Minute]]
  /\ granted' = [granted EXCEPT ![t] = Append(@, [at |-> real, behind |-> back])]
  /\ promised' = [promised EXCEPT ![t] = Never]

Refuse(t) ==
  /\ ~ Allowed(t)
  /\ bucket' = [bucket EXCEPT ![t] = Refilled(t)]
  /\ \E w \in RetryAfter(t) : promised' = [promised EXCEPT ![t] = Least(@, now + w)]
  /\ UNCHANGED granted

-----------------------------------------------------------------------------
(* Properties.                                                             *)

\* No stretch of real time sees more calls of a tool than a full bucket, what
\* that stretch refills, and what the clock was behind when it began: to set
\* the clock back and right again is not paid for twice (ratelimit.py:102).
WindowBound ==
  \A t \in Limited : LET g == granted[t] IN
    \A i, j \in DOMAIN g : i <= j =>
      (j - i + 1) * Minute <= LimitOf[t] * (Minute + g[j].at - g[i].at + g[i].behind)

\* For a client that comes back when it was told to, what half a millisecond
\* brings is missing at most, if nobody else had the token and nobody touches
\* the clock meanwhile: the time is rounded to nearest and may be 0.0, and who
\* adds half a millisecond is let in (ratelimit.py:117).
RetryHonest ==
  back = 0 => \A t \in Limited :
    now >= promised[t] => 2 * (Minute - Refilled(t).tokens) <= LimitOf[t] * Grain

\* No window of a minute lets more calls of a tool through than the bucket and
\* its refill hold, and a caller that has waited as long as it was told is let
\* through but for the rounding of that time (ratelimit.py:88).
LimiterHolds == LimiterTypeOK /\ WindowBound /\ RetryHonest
=============================================================================
