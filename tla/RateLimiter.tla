---------------------------- MODULE RateLimiter ----------------------------
(***************************************************************************)
(* The two in-memory limiters: InMemoryRateLimiter, which Auth asks before *)
(* it looks at a login (packages/auth/src/core/rate-limiter.ts), and the   *)
(* RateLimiter of the development server (packages/driver/src/security.ts).*)
(* Both count requests per key in windows that open with the first request *)
(* after the last window and never slide; both keep counting requests they *)
(* refuse. They are synchronous, so one check is one step.                 *)
(***************************************************************************)
EXTENDS Integers, FiniteSets

CONSTANTS
  Clients,      \* keys: login:<email>, or an address
  MaxRequests,  \* maxRequests / max
  WindowMs,     \* windowMs
  LastTime      \* bound on the clock

ASSUME LimiterConstantsOK ==
  MaxRequests \in Nat \ {0} /\ WindowMs \in Nat \ {0} /\ LastTime \in Nat

VARIABLES
  limiter,   \* which of the two classes this is
  store,     \* Map: key -> entry, NoEntry when absent
  time,      \* Date.now()
  admitted,  \* history: key -> instant -> requests let through by then
  refusal    \* history: keys refused at this instant
limiterVars == <<limiter, store, time, admitted, refusal>>

NoEntry == [count |-> 0, resetAt |-> -1]
CountCap == MaxRequests + 1     \* counts beyond it are told apart by nothing

RateLimiterInit ==
  /\ limiter \in {"logins", "addresses"}
  /\ store = [k \in Clients |-> NoEntry]
  /\ time = 0
  /\ admitted = [k \in Clients |-> [t \in 0 .. LastTime |-> 0]]
  /\ refusal = {}

OpenWindow == [count |-> 1, resetAt |-> time + WindowMs]
\* Fault: a refused request starts the window again.
CountedAndProlonged(entry) ==
  [count |-> IF entry.count > MaxRequests THEN CountCap ELSE entry.count + 1,
   resetAt |-> IF entry.count >= MaxRequests THEN time + WindowMs ELSE entry.resetAt]

Counted(entry) ==
  [entry EXCEPT !.count = IF @ > MaxRequests THEN CountCap ELSE @ + 1]

Over(entry) == time > entry.resetAt

\* InMemoryRateLimiter.check: the request that opens a window is let through
\* unseen.
CheckLogin(k) ==
  LET entry == store[k]
      next  == IF entry = NoEntry \/ Over(entry) THEN OpenWindow ELSE Counted(entry)
  IN  [entry |-> next, allowed |-> entry = NoEntry \/ Over(entry) \/ next.count <= MaxRequests]

\* RateLimiter.check: a new window starts from zero and is counted like any.
CheckAddress(k) ==
  LET old  == store[k]
      next == IF old = NoEntry \/ old.resetAt < time
              THEN Counted([OpenWindow EXCEPT !.count = 0]) ELSE Counted(old)
  IN  [entry |-> next, allowed |-> next.count <= MaxRequests]

Check(k) ==
  LET verdict == IF limiter = "logins" THEN CheckLogin(k) ELSE CheckAddress(k)
  IN  /\ store' = [store EXCEPT ![k] = verdict.entry]
      /\ IF verdict.allowed
         THEN /\ admitted' = [admitted EXCEPT ![k] =
                                [t \in 0 .. LastTime |-> IF t < time THEN @[t] ELSE @[t] + 1]]
              /\ UNCHANGED refusal
         ELSE /\ refusal' = refusal \cup {k}
              /\ UNCHANGED admitted
      /\ UNCHANGED <<limiter, time>>

\* What the periodic cleanup leaves.
Swept == [k \in Clients |-> IF Over(store[k]) THEN NoEntry ELSE store[k]]
Cleanup == store' = Swept /\ UNCHANGED <<limiter, time, admitted, refusal>>

LimiterTick ==
  /\ time < LastTime
  /\ time' = time + 1
  /\ refusal' = {}
  /\ UNCHANGED <<limiter, store, admitted>>

RateLimiterNext == (\E k \in Clients : Check(k)) \/ Cleanup \/ LimiterTick

RateLimiterSpec == RateLimiterInit /\ [][RateLimiterNext]_limiterVars

-----------------------------------------------------------------------------
RateLimiterTypeOK ==
  /\ limiter \in {"logins", "addresses"}
  /\ store \in [Clients -> [count : 0 .. CountCap, resetAt : Int]]
  /\ time \in 0 .. LastTime
  /\ admitted \in [Clients -> [0 .. LastTime -> Nat]]
  /\ refusal \subseteq Clients

Upto(k, t) ==
  IF t < 0 THEN 0 ELSE IF t > LastTime THEN admitted[k][LastTime] ELSE admitted[k][t]
Between(k, from, to) == Upto(k, to) - Upto(k, from - 1)

(* The windows stand still although the class is called a "sliding window  *)
(* rate limiter" (rate-limiter.ts:17): two of them may be met by one       *)
(* stretch of windowMs, which admits up to twice the limit, never more.    *)
(* And nobody is refused who did not have maxRequests requests let through *)
(* in the last windowMs: refused requests count, but they prolong nothing. *)
AdmitsByWindow ==
  /\ \A k \in Clients : \A t \in 0 .. LastTime :
       Between(k, t, t + WindowMs) <= 2 * MaxRequests
  /\ \A k \in refusal : Between(k, time - WindowMs, time) >= MaxRequests
=============================================================================
