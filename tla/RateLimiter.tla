----------------------------- MODULE RateLimiter -----------------------------
(***************************************************************************)
(* Package ratelimit: a token bucket per key, refilled at a fixed rate and *)
(* asked once by each request before it is handled. Allow runs under the   *)
(* limiter's mutex, so a call is one step.                                 *)
(*                                                                         *)
(* Time is counted in ticks, several to the second, since Allow reads a    *)
(* clock finer than the whole seconds of its Retry-After. Tokens are       *)
(* counted in parts of 1/Window, so that a token is Window parts, a tick   *)
(* refills Capacity parts, and all arithmetic is exact; the rounding of    *)
(* the code's floats is left out. A key without a bucket is a full one:    *)
(* that is what Allow makes for it.                                        *)
(***************************************************************************)
EXTENDS Integers

CONSTANTS
  LimitKeys,  \* keys of the buckets: a device and address, or a session
  Capacity,   \* tokens of a full bucket
  Window,     \* ticks in which an empty bucket fills up
  Second,     \* ticks in a second
  MaxTime     \* bound on the clock

ASSUME LimiterAssumption ==
  /\ Capacity \in Nat \ {0}
  /\ Window \in Nat \ {0}
  /\ Second \in Nat \ {0}
  /\ MaxTime \in Nat

VARIABLES
  now,      \* the clock
  buckets,  \* each key's tokens, as of its lastRefill
  mark,     \* history: a moment, and the requests admitted for the key since
  hint      \* history: the first refusal of the key since it was last admitted;
            \* no seconds when there is none

limiterVars == <<now, buckets, mark, hint>>

Full == Capacity * Window

LimiterTypeOK ==
  /\ now \in Nat
  /\ buckets \in [LimitKeys -> [tokens : 0..Full, lastRefill : Nat]]
  /\ mark \in [LimitKeys -> [at : Nat, admitted : Nat]]
  /\ hint \in [LimitKeys -> [at : Nat, seconds : Nat]]
  /\ \A k \in LimitKeys :
       buckets[k].lastRefill <= now /\ mark[k].at <= now /\ hint[k].at <= now

NoHint == [at |-> 0, seconds |-> 0]

\* New, and what a restart leaves: nothing.
Fresh ==
  /\ buckets' = [k \in LimitKeys |-> [tokens |-> Full, lastRefill |-> now]]
  /\ mark' = [k \in LimitKeys |-> [at |-> now, admitted |-> 0]]
  /\ hint' = [k \in LimitKeys |-> NoHint]

LimiterInit ==
  /\ now = 0
  /\ buckets = [k \in LimitKeys |-> [tokens |-> Full, lastRefill |-> 0]]
  /\ mark = [k \in LimitKeys |-> [at |-> 0, admitted |-> 0]]
  /\ hint = [k \in LimitKeys |-> NoHint]

\* Mutant: an idle bucket fills up without end.
Refilled_NoCap(k) == buckets[k].tokens + (now - buckets[k].lastRefill) * Capacity

\* The tokens of a key at this moment.
Refilled(k) ==
  LET sum == buckets[k].tokens + (now - buckets[k].lastRefill) * Capacity
  IN IF sum < Full THEN sum ELSE Full

\* Whole seconds, rounded down, at least one.
RetryAfter(tokens) ==
  LET seconds == (Window - tokens) \div (Capacity * Second)
  IN IF seconds < 1 THEN 1 ELSE seconds

\* Allow returns true.
Admit(k) ==
  /\ Refilled(k) >= Window
  /\ buckets' = [buckets EXCEPT ![k] = [tokens |-> Refilled(k) - Window, lastRefill |-> now]]
  /\ mark' = [mark EXCEPT ![k].admitted = @ + 1]
  /\ hint' = [hint EXCEPT ![k] = NoHint]
  /\ UNCHANGED now

\* Mutant: the clock of the bucket moves on without the tokens of the time that passed.
Refuse_DropsRefill(k) ==
  /\ Refilled(k) < Window
  /\ buckets' = [buckets EXCEPT ![k].lastRefill = now]
  /\ hint' = [hint EXCEPT ![k] =
       IF @ = NoHint THEN [at |-> now, seconds |-> RetryAfter(Refilled(k))] ELSE @]
  /\ UNCHANGED <<now, mark>>

\* Allow returns false, with a hint.
Refuse(k) ==
  /\ Refilled(k) < Window
  /\ buckets' = [buckets EXCEPT ![k] = [tokens |-> Refilled(k), lastRefill |-> now]]
  /\ hint' = [hint EXCEPT ![k] =
       IF @ = NoHint THEN [at |-> now, seconds |-> RetryAfter(Refilled(k))] ELSE @]
  /\ UNCHANGED <<now, mark>>

Tick ==
  /\ now < MaxTime
  /\ now' = now + 1
  /\ UNCHANGED <<buckets, mark, hint>>

\* Begin to count again, at any moment.
Mark(k) ==
  /\ mark' = [mark EXCEPT ![k] = [at |-> now, admitted |-> 0]]
  /\ UNCHANGED <<now, buckets, hint>>

LimiterNext ==
  \/ \E k \in LimitKeys : Admit(k) \/ Refuse(k) \/ Mark(k)
  \/ Tick
  \/ Fresh /\ UNCHANGED now

LimiterSpec == LimiterInit /\ [][LimiterNext]_limiterVars

----------------------------------------------------------------------------
(* Properties                                                              *)

(* From any moment on, for as long as the process lives, no more requests   *)
(* of a key are admitted than a full bucket and the time that passed allow, *)
(* however admissions, refusals and idle times follow each other.           *)
AdmittedWithinRate ==
  \A k \in LimitKeys : mark[k].admitted * Window <= Full + (now - mark[k].at) * Capacity

\* From this moment on the first refusal's Retry-After has passed, and a second.
Due(k) == hint[k].at + (hint[k].seconds + 1) * Second

(* A key that was refused is admitted once its Retry-After and one second   *)
(* more have passed since the first refusal, even if it was tried again and *)
(* again meanwhile. Retry-After alone need not be enough: it is rounded     *)
(* down.                                                                    *)
WaitingIsEnough ==
  \A k \in LimitKeys : hint[k] # NoHint /\ now >= Due(k) => Refilled(k) >= Window
=============================================================================
