------------------------------ MODULE Admission ------------------------------
(***************************************************************************)
(* Brain.remember() of src/connectors/base.py up to the call of             *)
(* Memory.remember(): one token bucket for all calls in a process, whose    *)
(* threads sleep until it has a token for them or their patience ends; then *)
(* the scan for injected text, and the quarantine of src/injection_scan.py. *)
(*                                                                          *)
(* Time as in RateLimiter: a token is Minute units, the bucket gains        *)
(* Capacity units a tick.  The code reads the wall clock, which may be set  *)
(* back; time.sleep() counts real time.                                     *)
(***************************************************************************)
EXTENDS Integers

CONSTANTS Callers,    \* calls of Brain.remember(), each from a thread
          Suspicious, \* those whose text the scanner finds, and whose
                      \* caller did not ask to skip the scan
          Capacity,   \* calls a minute, and the burst
          Minute,     \* ticks in a minute
          Timeout,    \* ticks a caller is willing to wait
          Nap,        \* the longest sleep between two attempts
          MaxTime,    \* bound: ticks of a behaviour
          MaxBack     \* bound: ticks the clock is set back by, in all

VARIABLES real,       \* ticks since the start, which no program can read
          back,       \* by how much the wall clock is behind
          tokens,     \* _remember_bucket_tokens
          last,       \* _remember_bucket_last_refill
          doing,      \* caller -> where it is
          deadline,   \* caller -> when it gives up, on the wall clock
          wait,       \* caller -> wait_s of its last attempt
          wakes,      \* caller -> when its sleep is over, in real time
          status      \* quarantine: caller -> of its text

bucketVars    == <<tokens, last, doing, deadline, wait, wakes>>
admissionVars == <<real, back, bucketVars, status>>

now == real - back

Least(a, b)   == IF a <= b THEN a ELSE b
CeilDiv(a, b) == (a + b - 1) \div b

Waiting == {"try", "decide", "asleep"}
Ended   == {"refused", "held", "stored"}

AdmissionTypeOK ==
  /\ real \in 0 .. MaxTime /\ back \in 0 .. MaxBack
  /\ tokens \in Int /\ tokens <= Capacity * Minute /\ last \in Int
  /\ doing \in [Callers -> {"idle", "through"} \cup Waiting \cup Ended]
  /\ deadline \in [Callers -> Int]
  /\ wait \in [Callers -> Nat]
  /\ wakes \in [Callers -> Nat]
  /\ status \in [Callers -> {"none", "pending", "approved", "rejected"}]

AdmissionInit ==
  /\ real = 0 /\ back = 0
  /\ tokens = Capacity * Minute /\ last = 0
  /\ doing = [c \in Callers |-> "idle"]
  /\ deadline = [c \in Callers |-> 0]
  /\ wait = [c \in Callers |-> 0]
  /\ wakes = [c \in Callers |-> 0]
  /\ status = [c \in Callers |-> "none"]

-----------------------------------------------------------------------------
Tick ==
  /\ real < MaxTime
  /\ real' = real + 1
  /\ UNCHANGED <<back, bucketVars, status>>

SetBack ==
  /\ \E d \in 1 .. MaxBack - back : back' = back + d
  /\ UNCHANGED <<real, bucketVars, status>>

Ask(c) ==
  /\ doing[c] = "idle"
  /\ real + MaxBack + Timeout < MaxTime
  /\ deadline' = [deadline EXCEPT ![c] = now + Timeout]
  /\ doing' = [doing EXCEPT ![c] = "try"]
  /\ UNCHANGED <<real, back, tokens, last, wait, wakes, status>>

\* Mutated form of Accrued: nothing caps the bucket.
AccruedUncapped == tokens + Capacity * (now - last)

\* Elapsed time is added whatever its sign.
Accrued == Least(Capacity * Minute, tokens + Capacity * (now - last))

\* Mutated form of Decide: nobody is refused.
DecideForEver(c) ==
  /\ doing[c] = "decide"
  /\ doing' = [doing EXCEPT ![c] = "asleep"]
  /\ wakes' = [wakes EXCEPT ![c] = real + Least(wait[c], Nap)]
  /\ UNCHANGED <<real, back, tokens, last, deadline, wait, status>>

\* The critical section of one turn of the loop.
Try(c) ==
  /\ doing[c] = "try"
  /\ last' = now
  /\ IF Accrued >= Minute
       THEN /\ tokens' = Accrued - Minute
            /\ doing' = [doing EXCEPT ![c] = "through"]
            /\ UNCHANGED wait
       ELSE /\ tokens' = Accrued
            /\ wait' = [wait EXCEPT ![c] = CeilDiv(Minute - Accrued, Capacity)]
            /\ doing' = [doing EXCEPT ![c] = "decide"]
  /\ UNCHANGED <<real, back, deadline, wakes, status>>

\* After the lock is released: the clock is read again.
Decide(c) ==
  /\ doing[c] = "decide"
  /\ IF now + wait[c] > deadline[c]
       THEN /\ doing' = [doing EXCEPT ![c] = "refused"]
            /\ UNCHANGED wakes
       ELSE /\ doing' = [doing EXCEPT ![c] = "asleep"]
            /\ wakes' = [wakes EXCEPT ![c] = real + Least(wait[c], Nap)]
  /\ UNCHANGED <<real, back, tokens, last, deadline, wait, status>>

Wake(c) ==
  /\ doing[c] = "asleep" /\ real >= wakes[c]
  /\ doing' = [doing EXCEPT ![c] = "try"]
  /\ UNCHANGED <<real, back, tokens, last, deadline, wait, wakes, status>>

\* The scan: text is kept for a reviewer, or goes on to Memory.remember().
Scan(c) ==
  /\ doing[c] = "through"
  /\ \/ /\ c \in Suspicious
        /\ status' = [status EXCEPT ![c] = "pending"]
        /\ doing' = [doing EXCEPT ![c] = "held"]
     \/ /\ c \notin Suspicious
        /\ doing' = [doing EXCEPT ![c] = "stored"]
        /\ UNCHANGED status
  /\ UNCHANGED <<real, back, tokens, last, deadline, wait, wakes>>

\* quarantine_review(): one decision each; an approved text is not stored.
Review(c) ==
  /\ status[c] = "pending"
  /\ \E d \in {"approved", "rejected"} : status' = [status EXCEPT ![c] = d]
  /\ UNCHANGED <<real, back, bucketVars>>

Turn(c) == Try(c) \/ Decide(c) \/ Wake(c) \/ Scan(c)

AdmissionNext == Tick \/ SetBack \/ \E c \in Callers : Ask(c) \/ Turn(c) \/ Review(c)

AdmissionFairness == WF_admissionVars(Tick) /\ \A c \in Callers : WF_admissionVars(Turn(c))

-----------------------------------------------------------------------------
(* Properties.                                                             *)

\* While the clock is not set back a caller of remember() sleeps no longer
\* than it said it would wait: its naps end by its deadline however the other
\* callers take tokens in between (base.py:125).
WakesInTime ==
  back = 0 => \A c \in Callers : doing[c] = "asleep" => wakes[c] <= deadline[c]

\* Every call of remember() is let through or refused, however many callers
\* compete, even when the clock is set back.
RememberReturns == []<>(\A c \in Callers : doing[c] \notin Waiting)
=============================================================================
