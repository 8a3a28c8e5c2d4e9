---------------------------- MODULE RateLimiter ----------------------------
(***************************************************************************)
(* The rate limiter that an OFT keeps for a peer.  The tokens of the       *)
(* seconds gone by are only added when the limiter is used, so that every  *)
(* instruction has to bring it up to date before anything else: with the   *)
(* old rate, up to the old capacity.                                       *)
(***************************************************************************)
EXTENDS Integers

CONSTANTS
  Value,     \* the amounts, capacities and rates, some naturals
  MaxTime,   \* bound: times 0..MaxTime
  U64_MAX,   \* u64::MAX
  NONE       \* Option::None

ASSUME ValueAssumption == Value \subseteq 0..U64_MAX /\ NONE \notin Nat
ASSUME TimeAssumption == MaxTime \in Nat /\ U64_MAX \in Nat
ASSUME LimiterAssumption ==
  /\ NONE \notin [capacity : Nat, tokens : Nat, refillPerSecond : Nat, lastRefillTime : Nat]
  /\ NONE \notin [capacity : Nat, level : Nat, rate : Nat]

VARIABLES
  now,       \* Clock::get()?.unix_timestamp
  limiter    \* Peer.rate_limiter

limiterVars == <<now, limiter>>

RateLimiter ==
  [capacity : 0..U64_MAX, tokens : 0..U64_MAX, refillPerSecond : 0..U64_MAX,
   lastRefillTime : 0..MaxTime]

(* The tokens are within the capacity, the last refill is in the past.     *)
LimiterTypeOK ==
  /\ now \in 0..MaxTime
  /\ limiter \in RateLimiter \cup {NONE}
  /\ limiter # NONE => /\ limiter.tokens <= limiter.capacity
                       /\ limiter.lastRefillTime <= now

LimiterInit == now = 0 /\ limiter = NONE

Lesser(a, b) == IF a <= b THEN a ELSE b

AdvanceTime ==
  /\ now < MaxTime
  /\ now' = now + 1
  /\ UNCHANGED limiter

-----------------------------------------------------------------------------
(* refill.  The sum of new tokens is checked for overflow, the addition to *)
(* those in the bucket saturates.                                          *)
NewTokens(l, extra) == extra + (now - l.lastRefillTime) * l.refillPerSecond
CanRefill(l, extra) == NewTokens(l, extra) <= U64_MAX

(* A mistake: the capacity is no limit.                                    *)
RefilledFreely(l, extra) ==
  [l EXCEPT !.tokens = Lesser(U64_MAX, @ + NewTokens(l, extra)), !.lastRefillTime = now]

Refilled(l, extra) ==
  [l EXCEPT !.tokens = Lesser(l.capacity, Lesser(U64_MAX, @ + NewTokens(l, extra))),
            !.lastRefillTime = now]

Default == [capacity |-> 0, tokens |-> 0, refillPerSecond |-> 0, lastRefillTime |-> 0]

(* set_capacity and set_rate.                                              *)
WithCapacity(l, capacity) ==
  [l EXCEPT !.capacity = capacity, !.tokens = capacity, !.lastRefillTime = now]

(* A mistake: the new rate counts for the seconds gone by.                 *)
WithRateSince(l, rate) == [l EXCEPT !.refillPerSecond = rate]

WithRate(l, rate) == [Refilled(l, 0) EXCEPT !.refillPerSecond = rate]

(* A mistake: the rate is set before the capacity.                         *)
SetRateFirst(capacity, rate) ==
  LET old == IF limiter # NONE THEN limiter ELSE Default
      new == IF rate # NONE THEN WithRate(old, rate) ELSE old
  IN  /\ rate # NONE => CanRefill(old, 0)
      /\ limiter' = IF capacity # NONE THEN WithCapacity(new, capacity) ELSE new
      /\ UNCHANGED now

(* set_rate_limit, enabled.                                                *)
SetRateLimit(capacity, rate) ==
  LET old == IF limiter # NONE THEN limiter ELSE Default
      new == IF capacity # NONE THEN WithCapacity(old, capacity) ELSE old
  IN  /\ rate # NONE => CanRefill(new, 0)
      /\ limiter' = IF rate # NONE THEN WithRate(new, rate) ELSE new
      /\ UNCHANGED now

(* set_rate_limit, not enabled.                                            *)
DisableRateLimit ==
  /\ limiter' = NONE
  /\ UNCHANGED now

(* try_consume, in send.                                                   *)
TryConsume(amount) ==
  /\ limiter # NONE
  /\ CanRefill(limiter, 0)
  /\ amount <= Refilled(limiter, 0).tokens
  /\ limiter' = [Refilled(limiter, 0) EXCEPT !.tokens = @ - amount]
  /\ UNCHANGED now

(* refill, in lz_receive.                                                  *)
Refill(amount) ==
  /\ limiter # NONE
  /\ CanRefill(limiter, amount)
  /\ limiter' = Refilled(limiter, amount)
  /\ UNCHANGED now

LimiterNext ==
  \/ AdvanceTime
  \/ \E capacity, rate \in Value \cup {NONE} : SetRateLimit(capacity, rate)
  \/ DisableRateLimit
  \/ \E amount \in Value : TryConsume(amount)
  \/ \E amount \in Value : Refill(amount)

LimiterSpec == LimiterInit /\ [][LimiterNext]_limiterVars

-----------------------------------------------------------------------------
(***************************************************************************)
(* Properties.                                                             *)
(***************************************************************************)
(* The limiter, updated when it is used, is the bucket that is filled      *)
(* every second: a change of rate or capacity is not retroactive, no       *)
(* second is counted twice or forgotten.                                   *)
Level == Lesser(limiter.capacity, limiter.tokens + NewTokens(limiter, 0))
AsBucket ==
  IF limiter = NONE THEN NONE
  ELSE [capacity |-> limiter.capacity, level |-> Level, rate |-> limiter.refillPerSecond]
Bucket == INSTANCE TokenBucket WITH bucket <- AsBucket
ImplementsBucket == Bucket!Spec

(* A rate so high that the new tokens overflow stops sending and           *)
(* receiving; the admin can always end that by setting capacity and rate   *)
(* together, which sets the capacity first.                                *)
AdminCanRecover ==
  \A capacity, rate \in Value : ENABLED SetRateLimit(capacity, rate)
=============================================================================
