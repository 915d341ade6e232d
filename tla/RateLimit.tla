------------------------------ MODULE RateLimit ------------------------------
(***************************************************************************)
(* The rate limiter of the llm-router (guard/rate-limit.ts) on its sliding *)
(* window in Redis (redis-rate-limiter.ts): a sorted set of the times at   *)
(* which calls were admitted, cleared and counted by one Lua script.  The  *)
(* time is that of the replica that asks, read before the script is sent,  *)
(* so that clocks differ by up to Skew and a time is up to Delay old when  *)
(* the script runs.  Tokens of one project share the set, not the limit.   *)
(* A member of the set is a time and a random number that need not be new: *)
(* Redis seeds the generator of every script alike, so that calls admitted *)
(* in the same millisecond are one member.                                 *)
(***************************************************************************)
EXTENDS Naturals, FiniteSets

CONSTANTS
  Clients,    \* one token on one replica each
  Rpm,        \* Rpm[c]: maxRequestsPerMinute of its token
  RateWindow, \* windowMs
  Skew, Delay,
  Horizon     \* bound of the time

ASSUME RateAssumption ==
  /\ Rpm \in [Clients -> Nat] /\ Horizon \in Nat
  /\ Skew \in Nat /\ Delay \in Nat /\ RateWindow \in Nat /\ RateWindow > Skew + Delay

VARIABLES
  time,
  zset,      \* the sorted set: members with their scores
  asking,    \* asking[c]: the time its replica read, and how long ago
  told,      \* told[c]: what its last call was told
  admitted   \* history: when calls of the last RateWindow were admitted

rateVars == <<time, zset, asking, told, admitted>>

NotAsking == [on |-> FALSE, now |-> 0, since |-> 0]

RateTypeOK ==
  /\ time \in 0 .. Horizon
  /\ asking \in [Clients -> [on: BOOLEAN, now: 0 .. Horizon + Skew, since: 0 .. Delay]]
  /\ \A x \in zset : x.score \in 0 .. Horizon + Skew
  /\ told \in [Clients -> {"none", "admitted", "refused", "degraded"}]

RateInit ==
  /\ time = 0 /\ zset = {} /\ admitted = {}
  /\ asking = [c \in Clients |-> NotAsking]
  /\ told = [c \in Clients |-> "none"]

Told(c, word) ==
  /\ asking' = [asking EXCEPT ![c] = NotAsking]
  /\ told' = [told EXCEPT ![c] = word]

(* check() reads its clock and sends the script; no limit, no script. *)
Ask(c) ==
  /\ Rpm[c] > 0 /\ ~ asking[c].on
  /\ \E skew \in 0 .. Skew :
       asking' = [asking EXCEPT ![c] = [on |-> TRUE, now |-> time + skew, since |-> 0]]
  /\ told' = [told EXCEPT ![c] = "none"]
  /\ UNCHANGED <<time, zset, admitted>>

(* ZREMRANGEBYSCORE 0 .. now - window. *)
InRateWindow(c) == { x \in zset : x.score + RateWindow > asking[c].now }

InUse(c) == Cardinality(InRateWindow(c))

Recent == { x \in admitted : x.at + RateWindow > time }

(* Mutant: the limit itself still passes. *)
AcquireAtLimit(c) ==
  /\ asking[c].on
  /\ IF InUse(c) <= Rpm[c]
     THEN \E random \in 0 .. 1 :
            /\ zset' = InRateWindow(c) \cup {[score |-> asking[c].now, random |-> random]}
            /\ admitted' = Recent \cup {[at |-> time, score |-> asking[c].now]}
            /\ Told(c, "admitted")
     ELSE zset' = InRateWindow(c) /\ Told(c, "refused") /\ UNCHANGED admitted
  /\ UNCHANGED time

(* The script: clear, count, and add if the count is below the limit. *)
Acquire(c) ==
  /\ asking[c].on
  /\ IF InUse(c) < Rpm[c]
     THEN \E random \in 0 .. 1 :
            /\ zset' = InRateWindow(c) \cup {[score |-> asking[c].now, random |-> random]}
            /\ admitted' = Recent \cup {[at |-> time, score |-> asking[c].now]}
            /\ Told(c, "admitted")
     ELSE zset' = InRateWindow(c) /\ Told(c, "refused") /\ UNCHANGED admitted
  /\ UNCHANGED time

(* Redis cannot be reached: the call is let through uncounted. *)
Degrade(c) ==
  /\ asking[c].on /\ Told(c, "degraded")
  /\ UNCHANGED <<time, zset, admitted>>

RateTick ==
  /\ time < Horizon /\ time' = time + 1
  /\ \A c \in Clients : asking[c].on => asking[c].since < Delay
  /\ asking' = [c \in Clients |-> IF asking[c].on THEN [asking[c] EXCEPT !.since = @ + 1] ELSE asking[c]]
  /\ UNCHANGED <<zset, told, admitted>>

RateNext == (\E c \in Clients : Ask(c) \/ Acquire(c) \/ Degrade(c)) \/ RateTick

RateSpec == RateInit /\ [][RateNext]_rateVars

-----------------------------------------------------------------------------
(* Properties. *)

(* Whatever the clocks say and however old a time is when the script runs, *)
(* a call is only admitted if in the window before it, less what the       *)
(* clocks and the way may take away, calls were admitted in fewer          *)
(* milliseconds than the limit of its token; of the calls in one           *)
(* millisecond it promises nothing.                                        *)
Earlier == { x.score : x \in { y \in admitted : y.at + RateWindow > time + Skew + Delay } }
WindowHolds ==
  [][ \A c \in Clients :
        told[c] # "admitted" /\ told'[c] = "admitted" => Cardinality(Earlier) < Rpm[c] ]_rateVars
=============================================================================
