-------------------------- MODULE Services_proofs --------------------------
(***************************************************************************)
(* Proofs about the services of the platform that keep rows in a database  *)
(* or sums in a cache, each on its own and for any number of clients:      *)
(* who is let in (tokens, rates, budgets), and what rows say after many    *)
(* hands have written them (credentials, agent definitions, tasks, the     *)
(* current agent, members, stars), or while they do (lists).  Each part    *)
(* has an inductive invariant, named ...Inv, and a theorem about the       *)
(* specification of the part.                                              *)
(***************************************************************************)
EXTENDS TokenCache, RateLimit, BudgetWindows, Credentials, AgentDefinition,
        AgentTask, ProjectAgents, Members, Stars, Listing,
        FiniteSetTheorems, SequenceTheorems, WellFoundedInduction, TLAPS

-----------------------------------------------------------------------------
(* Tokens (TokenCache). *)

TokenInv == TokenTypeOK /\ Vouched /\ (~ revoked /\ life > 0 => dead = 0)

LEMMA TokenInitInv == TokenInit => TokenInv
<1> SUFFICES ASSUME TokenInit PROVE TokenInv
  OBVIOUS
<1>1. TokenTypeOK
  <2>1. revoked \in BOOLEAN
    BY DEF TokenInit
  <2>2. life \in 0 .. Life /\ dead \in 0 .. MaxDead /\ entry \in 0 .. TTL
    BY TimesAssumption DEF TokenInit, MaxDead
  <2>3. look \in [Lookups -> [ pc: {"idle", "asked", "answered", "in", "out"}, active: BOOLEAN, age: 0 .. Travel ]]
    BY TimesAssumption DEF TokenInit
  <2> QED
    BY <2>1, <2>2, <2>3 DEF TokenTypeOK
<1>2. Vouched /\ dead = 0
  BY DEF TokenInit, Vouched, UnderWay
<1> QED
  BY <1>1, <1>2 DEF TokenInv

LEMMA TokenStep == TokenInv /\ [TokenNext]_tokenVars => TokenInv'
<1> SUFFICES ASSUME TokenInv, [TokenNext]_tokenVars PROVE TokenInv'
  OBVIOUS
<1> USE TimesAssumption DEF TokenInv, TokenTypeOK, MaxDead
<1>1. ASSUME NEW r \in Lookups, Authenticate(r) \/ Return(r) PROVE TokenInv'
  <2>1. TokenTypeOK' /\ UNCHANGED <<life, revoked, dead, entry>>
    <3>1. CASE Authenticate(r)
      BY <3>1 DEF Authenticate, Moves
    <3>2. CASE Return(r)
      BY <3>2 DEF Return
    <3> QED
      BY <1>1, <3>1, <3>2
  <2>2. \A s \in UnderWay' : s \in UnderWay /\ look'[s] = look[s]
    BY <1>1 DEF Authenticate, Return, Moves, UnderWay
  <2> QED
    BY <2>1, <2>2 DEF Vouched
<1>2. ASSUME NEW r \in Lookups, FindActive(r) PROVE TokenInv'
  <2>1. TokenTypeOK' /\ UNCHANGED <<life, revoked, dead, entry>>
    BY <1>2 DEF FindActive, Active
  <2>2. ASSUME NEW s \in UnderWay', look'[s].active PROVE dead' <= look'[s].age
    <3>1. CASE s = r
      <4>1. look'[r] = [pc |-> "answered", active |-> Active, age |-> 0]
        BY <1>2 DEF FindActive
      <4> QED
        BY <2>1, <2>2, <3>1, <4>1 DEF Active
    <3>2. CASE s # r
      BY <1>2, <2>2, <3>2 DEF FindActive, Vouched, UnderWay
    <3> QED
      BY <3>1, <3>2
  <2> QED
    BY <2>1, <2>2 DEF Vouched
<1>3. ASSUME NEW r \in Lookups, Fill(r) PROVE TokenInv'
  <2>1. TokenTypeOK' /\ UNCHANGED <<life, revoked, dead>>
    BY <1>3 DEF Fill, Moves
  <2>2. \A s \in UnderWay' : s \in UnderWay /\ look'[s] = look[s]
    BY <1>3 DEF Fill, Moves, UnderWay
  <2>3. entry' > 0 => dead + entry' <= TTL + Travel
    <3>1. entry' > 0 => entry' = TTL /\ r \in UnderWay /\ look[r].active
      BY <1>3 DEF Fill, UnderWay
    <3> QED
      BY <3>1 DEF Vouched, UnderWay
  <2> QED
    BY <2>1, <2>2, <2>3 DEF Vouched
<1>4. CASE Revoke
  BY <1>4 DEF Revoke, Vouched, UnderWay
<1>5. CASE TokenTick
  <2>1. TokenTypeOK' /\ dead' <= dead + 1 /\ (~ revoked' /\ life' > 0 => dead' = 0)
    <3>1. look' \in [Lookups -> [ pc: {"idle", "asked", "answered", "in", "out"}, active: BOOLEAN, age: 0 .. Travel ]]
      BY <1>5 DEF TokenTick
    <3>2. life' \in 0 .. Life /\ entry' \in 0 .. TTL /\ dead' \in 0 .. MaxDead
      BY <1>5 DEF TokenTick, Down
    <3>3. dead' <= dead + 1 /\ (~ revoked' /\ life' > 0 => dead' = 0)
      BY <1>5 DEF TokenTick, Down
    <3> QED
      BY <1>5, <3>1, <3>2, <3>3 DEF TokenTick
  <2>2. entry' > 0 => dead' + entry' <= TTL + Travel
    BY <1>5, <2>1 DEF TokenTick, Down, Vouched
  <2>3. ASSUME NEW s \in UnderWay', look'[s].active PROVE dead' <= look'[s].age
    <3>1. s \in UnderWay /\ look[s].active /\ look'[s].age = look[s].age + 1
      BY <1>5, <2>3 DEF TokenTick, UnderWay
    <3>2. dead <= look[s].age
      BY <3>1 DEF Vouched
    <3> QED
      BY <2>1, <3>1, <3>2 DEF UnderWay
  <2> QED
    BY <2>1, <2>2, <2>3 DEF Vouched
<1>6. CASE UNCHANGED tokenVars
  BY <1>6 DEF tokenVars, Vouched, UnderWay
<1> QED
  BY <1>1, <1>2, <1>3, <1>4, <1>5, <1>6 DEF TokenNext

(* A token that was revoked or has expired lets nobody in once a TTL and   *)
(* the time an answer travels have passed.                                 *)
THEOREM RevocationsBite == TokenSpec => RevocationBites
<1>1. ASSUME TokenInv, TokenNext, NEW r \in Lookups, look[r].pc # "in", look'[r].pc = "in"
      PROVE  dead <= TTL + Travel
  <2> USE TimesAssumption DEF TokenInv, TokenTypeOK, MaxDead
  <2>1. ASSUME NEW s \in Lookups, Authenticate(s) PROVE dead <= TTL + Travel
    <3>1. s = r /\ entry > 0
      BY <1>1, <2>1 DEF Authenticate, Moves
    <3> QED
      BY <1>1, <3>1 DEF Vouched
  <2>2. ASSUME NEW s \in Lookups, Fill(s) PROVE dead <= TTL + Travel
    <3>1. s = r /\ look[r].active /\ r \in UnderWay
      BY <1>1, <2>2 DEF Fill, Moves, UnderWay
    <3> QED
      BY <1>1, <3>1 DEF Vouched
  <2>3. ASSUME NEW s \in Lookups, FindActive(s) \/ Return(s) PROVE FALSE
    BY <1>1, <2>3 DEF FindActive, Return
  <2>4. ASSUME Revoke \/ TokenTick PROVE FALSE
    BY <1>1, <2>4 DEF Revoke, TokenTick
  <2> QED
    BY <1>1, <2>1, <2>2, <2>3, <2>4 DEF TokenNext
<1>2. TokenInv /\ [TokenNext]_tokenVars =>
        [ \A r \in Lookups : look[r].pc # "in" /\ look'[r].pc = "in" => dead <= TTL + Travel ]_tokenVars
  BY <1>1
<1> QED
  BY <1>2, TokenInitInv, TokenStep, PTL DEF TokenSpec, RevocationBites

-----------------------------------------------------------------------------
(* Rates (RateLimit). *)

(* A call that was admitted at most Skew + Delay less than the window ago  *)
(* is a member of the sorted set, by the time it was sent with.            *)
Counted(y) == y.at + RateWindow > time + Skew + Delay => \E x \in zset : x.score = y.score

RateInv ==
  /\ RateTypeOK /\ IsFiniteSet(zset)
  /\ \A c \in Clients : asking[c].on => /\ asking[c].now <= time + Skew
                                        /\ time <= asking[c].now + asking[c].since
  /\ \A y \in admitted : /\ y.at \in Nat /\ y.score \in Nat /\ y.at <= y.score + Delay
                         /\ Counted(y)

LEMMA RateInitInv == RateInit => RateInv
<1> SUFFICES ASSUME RateInit PROVE RateInv
  OBVIOUS
<1>1. IsFiniteSet(zset) /\ zset = {} /\ admitted = {}
  BY FS_EmptySet DEF RateInit
<1>2. asking \in [Clients -> [on: BOOLEAN, now: 0 .. Horizon + Skew, since: 0 .. Delay]]
      /\ \A c \in Clients : asking[c].on = FALSE
  BY RateAssumption DEF RateInit, NotAsking
<1>3. time \in 0 .. Horizon /\ told \in [Clients -> {"none", "admitted", "refused", "degraded"}]
  BY RateAssumption DEF RateInit
<1> QED
  BY <1>1, <1>2, <1>3 DEF RateInv, RateTypeOK

(* What a script leaves of the sorted set still counts who is recent.      *)
LEMMA ClearKeepsCounted ==
  ASSUME RateInv, NEW c \in Clients, asking[c].on, NEW y \in admitted,
         y.at + RateWindow > time + Skew + Delay
  PROVE  \E x \in InRateWindow(c) : x.score = y.score
<1>1. PICK x \in zset : x.score = y.score
  BY DEF RateInv, Counted
<1>2. /\ time \in Nat /\ asking[c].now \in Nat /\ x.score \in Nat /\ y.at \in Nat
      /\ asking[c].now <= time + Skew /\ y.at <= y.score + Delay
  BY RateAssumption DEF RateInv, RateTypeOK
<1>3. x.score + RateWindow > asking[c].now
  BY <1>1, <1>2, RateAssumption
<1> QED
  BY <1>1, <1>3 DEF InRateWindow

LEMMA InRateWindowFinite ==
  ASSUME RateInv, NEW c \in Clients
  PROVE  InRateWindow(c) \subseteq zset /\ IsFiniteSet(InRateWindow(c)) /\ InUse(c) \in Nat
<1>1. InRateWindow(c) \subseteq zset
  BY DEF InRateWindow
<1>2. IsFiniteSet(InRateWindow(c))
  BY <1>1, FS_Subset DEF RateInv
<1>3. InUse(c) \in Nat
  BY <1>2, FS_CardinalityType DEF InUse
<1> QED
  BY <1>1, <1>2, <1>3

LEMMA ToldKeeps ==
  ASSUME RateInv, NEW c \in Clients, NEW word \in {"admitted", "refused", "degraded"}, Told(c, word)
  PROVE  /\ asking' \in [Clients -> [on: BOOLEAN, now: 0 .. Horizon + Skew, since: 0 .. Delay]]
         /\ told' \in [Clients -> {"none", "admitted", "refused", "degraded"}]
         /\ ~ asking'[c].on /\ \A d \in Clients : d # c => asking'[d] = asking[d]
<1>1. NotAsking \in [on: BOOLEAN, now: 0 .. Horizon + Skew, since: 0 .. Delay]
  BY RateAssumption DEF NotAsking
<1>2. NotAsking.on = FALSE
  BY DEF NotAsking
<1> QED
  BY <1>1, <1>2 DEF RateInv, RateTypeOK, Told

LEMMA RateStep == RateInv /\ [RateNext]_rateVars => RateInv'
<1> SUFFICES ASSUME RateInv, [RateNext]_rateVars PROVE RateInv'
  OBVIOUS
<1>t. /\ time \in 0 .. Horizon /\ IsFiniteSet(zset)
      /\ asking \in [Clients -> [on: BOOLEAN, now: 0 .. Horizon + Skew, since: 0 .. Delay]]
      /\ \A x \in zset : x.score \in 0 .. Horizon + Skew
      /\ told \in [Clients -> {"none", "admitted", "refused", "degraded"}]
  BY DEF RateInv, RateTypeOK
<1>a. \A c \in Clients : asking[c].on => /\ asking[c].now <= time + Skew
                                         /\ time <= asking[c].now + asking[c].since
  BY DEF RateInv
<1>1. ASSUME NEW c \in Clients, Ask(c) PROVE RateInv'
  <2>1. PICK skew \in 0 .. Skew : asking' = [asking EXCEPT ![c] = [on |-> TRUE, now |-> time + skew, since |-> 0]]
    BY <1>1 DEF Ask
  <2>2. time + skew \in 0 .. Horizon + Skew /\ time + skew <= time + Skew /\ time <= time + skew + 0 /\ 0 \in 0 .. Delay
    BY <1>t, RateAssumption
  <2>3. /\ asking' \in [Clients -> [on: BOOLEAN, now: 0 .. Horizon + Skew, since: 0 .. Delay]]
        /\ asking'[c].now = time + skew /\ asking'[c].since = 0
        /\ \A d \in Clients : d # c => asking'[d] = asking[d]
    BY <1>t, <2>1, <2>2
  <2>4. told' \in [Clients -> {"none", "admitted", "refused", "degraded"}]
    BY <1>1, <1>t DEF Ask
  <2>5. \A d \in Clients : asking'[d].on => /\ asking'[d].now <= time + Skew
                                            /\ time <= asking'[d].now + asking'[d].since
    BY <1>a, <2>2, <2>3
  <2> QED
    BY <1>1, <1>t, <2>3, <2>4, <2>5 DEF Ask, RateInv, RateTypeOK, Counted
<1>2. ASSUME NEW c \in Clients, Acquire(c) PROVE RateInv'
  <2>1. asking[c].on /\ time' = time
    BY <1>2 DEF Acquire
  <2>2. asking[c].now \in 0 .. Horizon + Skew /\ time <= asking[c].now + Delay
    BY <1>t, <1>a, <2>1, RateAssumption
  <2>3. CASE InUse(c) < Rpm[c]
    <3>1. PICK random \in 0 .. 1 :
            /\ zset' = InRateWindow(c) \cup {[score |-> asking[c].now, random |-> random]}
            /\ admitted' = Recent \cup {[at |-> time, score |-> asking[c].now]}
            /\ Told(c, "admitted")
      BY <1>2, <2>3 DEF Acquire
    <3> DEFINE new == [score |-> asking[c].now, random |-> random]
               call == [at |-> time, score |-> asking[c].now]
    <3>2. IsFiniteSet(zset') /\ \A x \in zset' : x.score \in 0 .. Horizon + Skew
      <4>1. IsFiniteSet(InRateWindow(c)) /\ InRateWindow(c) \subseteq zset
        BY InRateWindowFinite
      <4>2. IsFiniteSet(InRateWindow(c) \cup {new})
        BY <4>1, FS_AddElement
      <4>3. new.score \in 0 .. Horizon + Skew
        BY <2>2
      <4> QED
        BY <1>t, <3>1, <4>1, <4>2, <4>3
    <3>3. ASSUME NEW y \in admitted'
          PROVE  y.at \in Nat /\ y.score \in Nat /\ y.at <= y.score + Delay /\ Counted(y)'
      <4>1. CASE y = call
        <5>1. y.at = time /\ y.score = asking[c].now
          BY <4>1
        <5>2. \E x \in zset' : x.score = y.score
          <6>1. new \in zset' /\ new.score = y.score
            BY <3>1, <5>1
          <6> QED
            BY <6>1
        <5> QED
          BY <1>t, <2>2, <5>1, <5>2, RateAssumption DEF Counted
      <4>2. CASE y \in admitted
        <5>1. y.at \in Nat /\ y.score \in Nat /\ y.at <= y.score + Delay
          BY <4>2 DEF RateInv
        <5>2. Counted(y)'
          BY <2>1, <3>1, <4>2, ClearKeepsCounted DEF Counted
        <5> QED
          BY <5>1, <5>2
      <4> QED
        BY <3>1, <4>1, <4>2 DEF Recent
    <3> QED
      BY <1>t, <1>a, <2>1, <3>1, <3>2, <3>3, ToldKeeps DEF RateInv, RateTypeOK
  <2>4. CASE ~ (InUse(c) < Rpm[c])
    <3>1. zset' = InRateWindow(c) /\ Told(c, "refused") /\ admitted' = admitted
      BY <1>2, <2>4 DEF Acquire
    <3>2. IsFiniteSet(zset') /\ \A x \in zset' : x.score \in 0 .. Horizon + Skew
      BY <1>t, <3>1, InRateWindowFinite
    <3>3. \A y \in admitted : Counted(y)'
      BY <2>1, <3>1, ClearKeepsCounted DEF Counted
    <3> QED
      BY <1>t, <1>a, <2>1, <3>1, <3>2, <3>3, ToldKeeps DEF RateInv, RateTypeOK
  <2> QED
    BY <2>3, <2>4
<1>3. ASSUME NEW c \in Clients, Degrade(c) PROVE RateInv'
  <2>1. Told(c, "degraded") /\ time' = time /\ zset' = zset /\ admitted' = admitted
    BY <1>3 DEF Degrade
  <2> QED
    BY <1>t, <1>a, <2>1, ToldKeeps DEF RateInv, RateTypeOK, Counted
<1>4. ASSUME RateTick PROVE RateInv'
  <2>1. time' = time + 1 /\ time' \in 0 .. Horizon /\ zset' = zset /\ admitted' = admitted /\ told' = told
    BY <1>4, <1>t, RateAssumption DEF RateTick
  <2>2. ASSUME NEW c \in Clients
        PROVE  /\ asking'[c] \in [on: BOOLEAN, now: 0 .. Horizon + Skew, since: 0 .. Delay]
               /\ asking'[c].on => /\ asking'[c].now <= time' + Skew
                                   /\ time' <= asking'[c].now + asking'[c].since
    <3>1. CASE asking[c].on
      <4>1. asking'[c] = [asking[c] EXCEPT !.since = @ + 1] /\ asking[c].since < Delay
        BY <1>4, <3>1 DEF RateTick
      <4>2. asking[c] \in [on: BOOLEAN, now: 0 .. Horizon + Skew, since: 0 .. Delay]
        BY <1>t
      <4>3. asking[c].since + 1 \in 0 .. Delay
        BY <4>1, <4>2, RateAssumption
      <4>4. /\ asking'[c].on = asking[c].on /\ asking'[c].now = asking[c].now
            /\ asking'[c].since = asking[c].since + 1
            /\ asking'[c] \in [on: BOOLEAN, now: 0 .. Horizon + Skew, since: 0 .. Delay]
        BY <4>1, <4>2, <4>3
      <4> QED
        BY <1>t, <1>a, <2>1, <3>1, <4>2, <4>4, RateAssumption
    <3>2. CASE ~ asking[c].on
      BY <1>4, <1>t, <3>2 DEF RateTick
    <3> QED
      BY <3>1, <3>2
  <2>3. asking' \in [Clients -> [on: BOOLEAN, now: 0 .. Horizon + Skew, since: 0 .. Delay]]
    BY <1>4, <2>2 DEF RateTick
  <2>4. ASSUME NEW y \in admitted
        PROVE  y.at \in Nat /\ y.score \in Nat /\ y.at <= y.score + Delay /\ Counted(y)'
    <3>1. y.at \in Nat /\ y.score \in Nat /\ y.at <= y.score + Delay /\ Counted(y)
      BY DEF RateInv
    <3>2. y.at + RateWindow > time' + Skew + Delay => y.at + RateWindow > time + Skew + Delay
      BY <1>t, <2>1, <3>1, RateAssumption
    <3> QED
      BY <2>1, <3>1, <3>2 DEF Counted
  <2> QED
    BY <1>t, <2>1, <2>2, <2>3, <2>4 DEF RateInv, RateTypeOK
<1>5. CASE UNCHANGED rateVars
  BY <1>5 DEF rateVars, RateInv, RateTypeOK, Counted
<1> QED
  BY <1>1, <1>2, <1>3, <1>4, <1>5 DEF RateNext

(* The calls of the last window are no more milliseconds than the set has  *)
(* members.                                                                *)
LEMMA EarlierCounted ==
  ASSUME RateInv, NEW c \in Clients, asking[c].on
  PROVE  Cardinality(Earlier) <= InUse(c) /\ Cardinality(Earlier) \in Nat
<1> DEFINE scores == {x.score : x \in InRateWindow(c)}
<1>1. IsFiniteSet(InRateWindow(c)) /\ InUse(c) \in Nat
  BY InRateWindowFinite
<1>2. IsFiniteSet(scores) /\ Cardinality(scores) <= InUse(c)
  <2> DEFINE f == [x \in InRateWindow(c) |-> x.score]
  <2>1. f \in Surjection(InRateWindow(c), scores)
    BY DEF Surjection
  <2> HIDE DEF scores, f
  <2> QED
    BY <1>1, <2>1, FS_Surjection DEF InUse
<1>3. Earlier \subseteq scores
  BY ClearKeepsCounted DEF Earlier
<1> HIDE DEF scores
<1>4. IsFiniteSet(Earlier) /\ Cardinality(Earlier) <= Cardinality(scores)
  BY <1>2, <1>3, FS_Subset
<1>5. Cardinality(scores) \in Nat /\ Cardinality(Earlier) \in Nat
  BY <1>2, <1>4, FS_CardinalityType
<1> QED
  BY <1>1, <1>2, <1>4, <1>5

LEMMA RateAdmits ==
  ASSUME RateInv, [RateNext]_rateVars, NEW c \in Clients, told[c] # "admitted", told'[c] = "admitted"
  PROVE  Cardinality(Earlier) < Rpm[c]
<1>t. told \in [Clients -> {"none", "admitted", "refused", "degraded"}]
  BY DEF RateInv, RateTypeOK
<1>1. Acquire(c) /\ InUse(c) < Rpm[c]
  <2>1. ASSUME NEW d \in Clients, Ask(d) PROVE FALSE
    BY <1>t, <2>1 DEF Ask
  <2>2. ASSUME NEW d \in Clients, Degrade(d) PROVE FALSE
    BY <1>t, <2>2 DEF Degrade, Told
  <2>3. ~ RateTick /\ ~ UNCHANGED rateVars
    BY DEF RateTick, rateVars
  <2>4. PICK d \in Clients : Acquire(d)
    BY <2>1, <2>2, <2>3 DEF RateNext
  <2>5. d = c /\ InUse(d) < Rpm[d]
    BY <1>t, <2>4 DEF Acquire, Told
  <2> QED
    BY <2>4, <2>5
<1>2. asking[c].on
  BY <1>1 DEF Acquire
<1>3. Cardinality(Earlier) <= InUse(c) /\ Cardinality(Earlier) \in Nat /\ InUse(c) \in Nat
  BY <1>2, EarlierCounted, InRateWindowFinite
<1> QED
  BY <1>1, <1>3, RateAssumption

(* Nobody is admitted beyond the rate of his token.                        *)
THEOREM WindowAlwaysHolds == RateSpec => WindowHolds
<1>1. RateInv /\ [RateNext]_rateVars =>
        [ \A c \in Clients :
            told[c] # "admitted" /\ told'[c] = "admitted" => Cardinality(Earlier) < Rpm[c] ]_rateVars
  BY RateAdmits
<1> QED
  BY <1>1, RateInitInv, RateStep, PTL DEF RateSpec, WindowHolds

-----------------------------------------------------------------------------
(* Budgets (BudgetWindows). *)

(* A set of natural numbers that is not empty has a least.                 *)
LEMMA LeastExists ==
  ASSUME NEW S, S \subseteq Nat, S # {}
  PROVE  \E x \in S : \A y \in S : x <= y
<1> DEFINE R == OpToRel(<, Nat)
<1>1. IsWellFoundedOn(R, Nat)
  BY NatLessThanWellFounded
<1>2. \A x, y \in Nat : y < x => <<y, x>> \in R
  BY DEF OpToRel
<1> HIDE DEF R
<1>3. PICK x \in S : \A y \in S : ~ (<<y, x>> \in R)
  BY <1>1, WFMin
<1>4. \A y \in S : x <= y
  <2> SUFFICES ASSUME NEW y \in S PROVE x <= y
    OBVIOUS
  <2>1. x \in Nat /\ y \in Nat
    OBVIOUS
  <2>2. ~ (y < x)
    BY <1>2, <1>3, <2>1, Zenon
  <2> QED
    BY <2>1, <2>2
<1> QED
  BY <1>4


(* A later moment is in no earlier day.                                    *)
LEMMA DivMonotone ==
  ASSUME NEW x \in Nat, NEW y \in Nat, NEW d \in Nat \ {0}, x <= y
  PROVE  x \div d <= y \div d /\ x \div d \in Nat
  OBVIOUS

(* What is between two moments of a window is in it.                       *)
LEMMA WindowsTurn ==
  ASSUME NEW w \in Windows, NEW x \in Nat, NEW y \in Nat, NEW z \in Nat, x <= y, y <= z,
         WindowKey(w, x) = WindowKey(w, z)
  PROVE  WindowKey(w, y) = WindowKey(w, z)
<1>0. DayLength \in Nat \ {0} /\ MonthLength \in Nat \ {0}
  BY BudgetAssumption
<1>1. ASSUME NEW d \in Nat \ {0}, x \div d = z \div d PROVE y \div d = z \div d
  <2>1. /\ x \div d <= y \div d /\ y \div d <= z \div d
        /\ x \div d \in Nat /\ y \div d \in Nat /\ z \div d \in Nat
    BY DivMonotone
  <2> QED
    BY <1>1, <2>1
<1>2. CASE w = "day"
  <2>1. x \div DayLength = z \div DayLength
    BY <1>2 DEF WindowKey
  <2>2. y \div DayLength = z \div DayLength
    BY <1>0, <1>1, <2>1
  <2> QED
    BY <1>2, <2>2 DEF WindowKey
<1>3. CASE w = "month"
  <2>1. x \div MonthLength = z \div MonthLength
    BY <1>3 DEF WindowKey
  <2>2. y \div MonthLength = z \div MonthLength
    BY <1>0, <1>1, <2>1
  <2> QED
    BY <1>3, <2>2 DEF WindowKey
<1>4. CASE w = "total"
  BY <1>4 DEF WindowKey
<1> QED
  BY <1>2, <1>3, <1>4 DEF Windows

(* The budgets a call is held to are those that the code finds.            *)
LEMMA NearestBinds ==
  ASSUME NEW c \in Billed
  PROVE  /\ {held \in Binding(c) : held.enforce} = HeldTo(c)
         /\ Binding(c) \subseteq budgets
         /\ \A held \in Binding(c) : held.scope \in ToSet(ScopesOf[c])
<1> DEFINE found == {i \in DOMAIN ScopesOf[c] : RowsOf(ScopesOf[c][i]) # {}}
           least == Min(found)
<1>1. Binding(c) = IF found = {} THEN {} ELSE RowsOf(ScopesOf[c][least])
  BY DEF Binding
<1>2. DOMAIN ScopesOf[c] = 1 .. Len(ScopesOf[c]) /\ Len(ScopesOf[c]) \in Nat
  BY BudgetAssumption, LenProperties
<1>3. \A s : RowsOf(s) = {held \in budgets : held.scope = s}
  BY DEF RowsOf
<1>4. ASSUME found # {}
      PROVE  least \in found /\ \A j \in found : least <= j
  <2>1. \E i \in found : \A j \in found : i <= j
    <3>1. found \subseteq Nat
      BY <1>2
    <3> HIDE DEF found
    <3> QED
      BY <1>4, <3>1, LeastExists
  <2> HIDE DEF found
  <2> QED
    BY <2>1 DEF Min
<1>5. \A i : i \in found <=> i \in DOMAIN ScopesOf[c] /\ RowsOf(ScopesOf[c][i]) # {}
  OBVIOUS
<1> HIDE DEF found, least
<1>6. ASSUME NEW held \in HeldTo(c) PROVE held \in Binding(c) /\ held.enforce
  <2>1. PICK i \in DOMAIN ScopesOf[c] :
          /\ ScopesOf[c][i] = held.scope
          /\ \A j \in 1 .. i - 1 : \A other \in budgets : other.scope # ScopesOf[c][j]
    BY DEF HeldTo
  <2>2. held \in budgets /\ held.enforce
    BY DEF HeldTo
  <2>3. i \in found
    BY <1>3, <1>5, <2>1, <2>2
  <2>4. least \in found /\ least <= i /\ least \in DOMAIN ScopesOf[c]
    BY <1>4, <1>5, <2>3
  <2>5. least = i
    <3>1. ~ (least \in 1 .. i - 1)
      BY <1>3, <1>5, <2>1, <2>4
    <3> QED
      BY <1>2, <2>1, <2>4, <3>1
  <2> QED
    BY <1>1, <1>3, <2>1, <2>2, <2>3, <2>5
<1>7. ASSUME NEW held \in Binding(c)
      PROVE  /\ held \in budgets /\ held.scope \in ToSet(ScopesOf[c])
             /\ held.enforce => held \in HeldTo(c)
  <2>1. found # {} /\ least \in found /\ (\A j \in found : least <= j)
    BY <1>1, <1>4
  <2>2. held \in budgets /\ held.scope = ScopesOf[c][least] /\ least \in DOMAIN ScopesOf[c]
    BY <1>1, <1>3, <1>5, <2>1
  <2>3. \A j \in 1 .. least - 1 : j \notin found /\ j \in DOMAIN ScopesOf[c]
    BY <1>2, <2>1, <2>2
  <2>4. \A j \in 1 .. least - 1 : \A other \in budgets : other.scope # ScopesOf[c][j]
    BY <1>3, <1>5, <2>3
  <2> QED
    BY <2>2, <2>4 DEF HeldTo, ToSet
<1> QED
  BY <1>6, <1>7

Reads == UNION {[D -> Nat] : D \in SUBSET Buckets}

BillRow == [pc: {"idle", "loading", "loaded", "refused", "served", "blind"},
            asked: 0 .. LastTick, read: Reads, began: 0 .. LastTick, charged: 0 .. LastTick + 1]

CellRow == [until: Nat, used: Reads]

Bucket(held, at) == <<held.scope, WindowKey(held.window, at)>>

(* What has been charged to a bucket before some moment, by count.         *)
ChargedTo(b, a) == {c \in Billed : bill[c].charged \in 1 .. a /\ b \in BucketsOf(c)}

Charges == [b \in Buckets |-> [a \in 0 .. LastTick + 1 |-> Cardinality(ChargedTo(b, a))]]

Bound == [c \in Billed |-> Binding(c)]

(* The sums u, asked for at a, hold no more than the books, and all that   *)
(* was charged before.                                                     *)
Snapshot(charges, books, bound, u, a) ==
  /\ \A b \in DOMAIN u : u[b] <= books[b]
  /\ \A held \in bound : charges[Bucket(held, a)][a] <= Used(u, held, a)

BudgetTyped ==
  /\ tick \in 0 .. LastTick /\ budgets \in BudgetTables
  /\ bill \in [Billed -> BillRow] /\ cell \in [CacheKeys -> CellRow]
  /\ sums \in [Buckets -> Nat]

BooksMatch == \A b \in Buckets : sums[b] = Charges[b][LastTick + 1]

TimesAgree ==
  \A c \in Billed :
    /\ bill[c].charged # 0 => /\ bill[c].charged <= tick + 1 /\ bill[c].began < bill[c].charged
                              /\ bill[c].pc \in {"served", "blind"}
    /\ bill[c].pc \in {"served", "blind"} => bill[c].began <= tick
    /\ bill[c].pc \in {"loading", "loaded"} => bill[c].asked <= tick /\ tick <= bill[c].asked + Way

LoadsSound ==
  \A c \in Billed :
    bill[c].pc = "loaded" => Snapshot(Charges, sums, Bound[c], bill[c].read, bill[c].asked)

CellsSound ==
  \A c \in Billed : cell[ScopesOf[c]].until # 0 =>
    \E a \in 0 .. tick :
      /\ Snapshot(Charges, sums, Bound[c], cell[ScopesOf[c]].used, a)
      /\ cell[ScopesOf[c]].until <= a + Way + CacheFor

BudgetInv == BudgetTyped /\ BooksMatch /\ TimesAgree /\ LoadsSound /\ CellsSound

LEMMA NothingRead == <<>> \in Reads
<1>1. <<>> \in [{} -> Nat]
  OBVIOUS
<1>2. {} \in SUBSET Buckets
  OBVIOUS
<1> QED
  BY <1>1, <1>2 DEF Reads

LEMMA RowsTyped ==
  ASSUME BudgetTyped, NEW c \in Billed, NEW held \in Binding(c), NEW at \in 0 .. LastTick
  PROVE  /\ held.window \in Windows /\ held.limit \in Nat
         /\ Bucket(held, at) \in Buckets
<1>1. held \in budgets /\ held.scope \in ToSet(ScopesOf[c])
  BY NearestBinds
<1>2. held \in UNION BudgetTables
  BY <1>1 DEF BudgetTyped
<1>3. held.window \in Windows /\ held.limit \in Nat
  BY <1>2, BudgetAssumption DEF Windows
<1>4. Bucket(held, at) \in Buckets
  BY <1>1, <1>3 DEF Bucket, Buckets
<1> QED
  BY <1>3, <1>4

(* What is charged to a bucket is finite, and grows with time.             *)
LEMMA ChargedGrows ==
  ASSUME NEW b \in Buckets, NEW a \in 0 .. LastTick + 1, NEW z \in 0 .. LastTick + 1, a <= z
  PROVE  /\ Charges[b][a] \in Nat /\ Charges[b][z] \in Nat /\ Charges[b][a] <= Charges[b][z]
         /\ Charges[b][a] = Cardinality(ChargedTo(b, a))
<1>1. ChargedTo(b, z) \subseteq Billed /\ ChargedTo(b, a) \subseteq ChargedTo(b, z)
  BY BudgetAssumption DEF ChargedTo
<1>2. IsFiniteSet(ChargedTo(b, z))
  BY <1>1, BudgetAssumption, FS_Subset
<1>3. IsFiniteSet(ChargedTo(b, a)) /\ Cardinality(ChargedTo(b, a)) <= Cardinality(ChargedTo(b, z))
  BY <1>1, <1>2, FS_Subset
<1>4. Cardinality(ChargedTo(b, a)) \in Nat /\ Cardinality(ChargedTo(b, z)) \in Nat
  BY <1>2, <1>3, FS_CardinalityType
<1>5. Charges[b][a] = Cardinality(ChargedTo(b, a)) /\ Charges[b][z] = Cardinality(ChargedTo(b, z))
  BY DEF Charges
<1> QED
  BY <1>3, <1>4, <1>5

(* What is spent under a budget is what its bucket was charged.            *)
LEMMA SpentIsCharged ==
  ASSUME BudgetTyped, NEW c \in Billed, NEW held \in Binding(c), NEW at \in 0 .. LastTick,
         NEW upTo \in 0 .. LastTick
  PROVE  Spent(held, at, upTo) = Charges[Bucket(held, at)][upTo + 1]
<1>1. held.window \in Windows /\ Bucket(held, at) \in Buckets
  BY RowsTyped
<1>2. \A w \in Windows, x, y \in Nat : WindowKey(w, x) = WindowKey(held.window, y) => w = held.window
  BY <1>1 DEF WindowKey, Windows
<1>3. ASSUME NEW d \in Billed
      PROVE  Bucket(held, at) \in BucketsOf(d) <=>
               /\ held.scope \in ToSet(ScopesOf[d])
               /\ WindowKey(held.window, bill[d].began) = WindowKey(held.window, at)
  <2>1. bill[d].began \in Nat /\ at \in Nat
    BY BudgetAssumption DEF BudgetTyped, BillRow
  <2> QED
    BY <1>1, <1>2, <2>1 DEF BucketsOf, Bucket
<1>4. ChargedTo(Bucket(held, at), upTo + 1) =
        {d \in Billed :
          /\ bill[d].charged \in 1 .. upTo + 1
          /\ held.scope \in ToSet(ScopesOf[d])
          /\ WindowKey(held.window, bill[d].began) = WindowKey(held.window, at)}
  BY <1>3 DEF ChargedTo
<1>5. upTo + 1 \in 0 .. LastTick + 1
  BY BudgetAssumption
<1>6. Charges[Bucket(held, at)][upTo + 1] = Cardinality(ChargedTo(Bucket(held, at), upTo + 1))
  BY <1>1, <1>5 DEF Charges
<1> QED
  BY <1>4, <1>6 DEF Spent

LEMMA BudgetInitInv == BudgetInit => BudgetInv
<1> SUFFICES ASSUME BudgetInit PROVE BudgetInv
  OBVIOUS
<1>1. /\ tick = 0 /\ budgets \in BudgetTables /\ bill = [c \in Billed |-> NewBill]
      /\ cell = [k \in CacheKeys |-> NoEntry] /\ sums = [b \in Buckets |-> 0]
  BY DEF BudgetInit
<1>2. NewBill \in BillRow /\ NewBill.charged = 0 /\ NewBill.pc = "idle"
  BY NothingRead, BudgetAssumption DEF NewBill, BillRow
<1>3. NoEntry \in CellRow /\ NoEntry.until = 0
  BY NothingRead DEF NoEntry, CellRow
<1>4. BudgetTyped
  BY <1>1, <1>2, <1>3, BudgetAssumption DEF BudgetTyped
<1>5. BooksMatch
  <2> SUFFICES ASSUME NEW b \in Buckets PROVE sums[b] = Charges[b][LastTick + 1]
    BY DEF BooksMatch
  <2>1. ChargedTo(b, LastTick + 1) = {}
    BY <1>1, <1>2 DEF ChargedTo
  <2>2. Charges[b][LastTick + 1] = Cardinality(ChargedTo(b, LastTick + 1))
    BY BudgetAssumption DEF Charges
  <2> QED
    BY <1>1, <2>1, <2>2, FS_EmptySet
<1>6. TimesAgree /\ LoadsSound
  BY <1>1, <1>2 DEF TimesAgree, LoadsSound
<1>7. CellsSound
  BY <1>1, <1>3 DEF CellsSound, CacheKeys
<1> QED
  BY <1>4, <1>5, <1>6, <1>7 DEF BudgetInv

(* Nothing is charged when a call moves that has not been charged.         *)
LEMMA BooksStay ==
  ASSUME BudgetInv, NEW c \in Billed, NEW moved, moved.charged = 0, bill[c].charged = 0,
         bill' = [bill EXCEPT ![c] = moved],
         tick' = tick, budgets' = budgets, sums' = sums
  PROVE  Charges' = Charges /\ Bound' = Bound
<1>1. /\ bill'[c] = moved
      /\ \A d \in Billed : d # c => bill'[d] = bill[d]
  BY DEF BudgetInv, BudgetTyped
<1>2. ASSUME NEW b, NEW a PROVE ChargedTo(b, a)' = ChargedTo(b, a)
  <2>1. \A d \in Billed : bill'[d].charged \in 1 .. a /\ b \in BucketsOf(d)' <=>
          bill[d].charged \in 1 .. a /\ b \in BucketsOf(d)
    BY <1>1 DEF BucketsOf
  <2> QED
    BY <2>1 DEF ChargedTo
<1>3. Charges' = Charges
  BY <1>2 DEF Charges
<1>4. Bound' = Bound
  BY DEF Bound, Binding, RowsOf
<1> QED
  BY <1>3, <1>4

(* A call that has not been charged moves, and the books stay.             *)
LEMMA BillMoves ==
  ASSUME BudgetInv, NEW c \in Billed, NEW moved \in BillRow,
         bill[c].charged = 0, moved.charged = 0,
         bill' = [bill EXCEPT ![c] = moved],
         tick' = tick, budgets' = budgets, sums' = sums,
         cell' \in [CacheKeys -> CellRow], CellsSound',
         moved.pc \in {"served", "blind"} => moved.began <= tick,
         moved.pc \in {"loading", "loaded"} => moved.asked <= tick /\ tick <= moved.asked + Way,
         moved.pc = "loaded" => Snapshot(Charges, sums, Bound[c], moved.read, moved.asked)
  PROVE  BudgetInv'
<1>1. /\ bill' \in [Billed -> BillRow] /\ bill'[c] = moved
      /\ \A d \in Billed : d # c => bill'[d] = bill[d]
  BY DEF BudgetInv, BudgetTyped
<1>2. BudgetTyped'
  BY <1>1 DEF BudgetInv, BudgetTyped
<1>3. Charges' = Charges /\ Bound' = Bound
  BY BooksStay
<1>4. BooksMatch'
  BY <1>3 DEF BudgetInv, BooksMatch
<1>5. TimesAgree'
  BY <1>1 DEF BudgetInv, TimesAgree
<1>6. LoadsSound'
  BY <1>1, <1>3 DEF BudgetInv, LoadsSound
<1> QED
  BY <1>2, <1>4, <1>5, <1>6 DEF BudgetInv

(* Calls of one token are held to the same budgets.                        *)
LEMMA SameBound ==
  ASSUME NEW c \in Billed, NEW d \in Billed, ScopesOf[c] = ScopesOf[d]
  PROVE  Bound[c] = Bound[d]
  BY DEF Bound, Binding

(* What is decided of a call is written to its row.                        *)
LEMMA DecisionRow ==
  ASSUME BudgetInv, NEW c \in Billed, NEW u, NEW at, Decision(c, u, at)
  PROVE  \E moved \in BillRow :
           /\ bill' = [bill EXCEPT ![c] = moved] /\ moved.charged = 0
           /\ \/ moved.pc = "refused"
                /\ \E held \in Binding(c) : held.enforce /\ Used(u, held, at) >= held.limit
              \/ /\ moved.pc = "served" /\ moved.began <= tick
                 /\ ~ \E held \in Binding(c) : held.enforce /\ Used(u, held, at) >= held.limit
<1> DEFINE full == \E held \in Binding(c) : held.enforce /\ Used(u, held, at) >= held.limit
           no == [NewBill EXCEPT !.pc = "refused"]
           yes == [NewBill EXCEPT !.pc = "served", !.began = tick]
<1>1. bill' = [bill EXCEPT ![c] = IF full THEN no ELSE yes]
  BY DEF Decision
<1>2. NewBill \in BillRow /\ NewBill.charged = 0
  BY NothingRead, BudgetAssumption DEF NewBill, BillRow
<1>3. tick \in 0 .. LastTick /\ tick <= tick
  BY BudgetAssumption DEF BudgetInv, BudgetTyped
<1>4. no \in BillRow /\ no.charged = 0 /\ no.pc = "refused"
  BY <1>2 DEF BillRow
<1>5. yes \in BillRow /\ yes.charged = 0 /\ yes.pc = "served" /\ yes.began <= tick
  BY <1>2, <1>3 DEF BillRow
<1> HIDE DEF no, yes
<1>6. CASE full
  <2>1. bill' = [bill EXCEPT ![c] = no]
    BY <1>1, <1>6
  <2> QED
    BY <1>4, <1>6, <2>1
<1>7. CASE ~ full
  <2>1. bill' = [bill EXCEPT ![c] = yes]
    BY <1>1, <1>7
  <2> QED
    BY <1>5, <1>7, <2>1
<1> QED
  BY <1>6, <1>7

(* The sums a load reads are those of the moment.                          *)
LEMMA UsageIsSnapshot ==
  ASSUME BudgetInv, NEW c \in Billed
  PROVE  /\ UsageOf(c) \in Reads
         /\ Snapshot(Charges, sums, Bound[c], UsageOf(c), bill[c].asked)
<1> DEFINE at == bill[c].asked
           keys == {<<held.scope, WindowKey(held.window, at)>> : held \in Binding(c)}
           full == {k \in keys : sums[k] > 0}
<1>1. /\ at \in 0 .. LastTick /\ LastTick \in Nat /\ sums \in [Buckets -> Nat] /\ BudgetTyped
      /\ Bound[c] = Binding(c)
  BY BudgetAssumption DEF BudgetInv, BudgetTyped, BillRow, Bound
<1>2. UsageOf(c) = [b \in full |-> sums[b]]
  BY DEF UsageOf
<1> HIDE DEF at
<1>3. \A held \in Binding(c) : Bucket(held, at) \in Buckets /\ Bucket(held, at) \in keys
  BY <1>1, RowsTyped DEF Bucket
<1>4. keys \subseteq Buckets
  BY <1>3 DEF Bucket
<1> HIDE DEF keys
<1>5. full \in SUBSET Buckets
  BY <1>4
<1>6. [b \in full |-> sums[b]] \in [full -> Nat]
  BY <1>1, <1>5
<1>7. UsageOf(c) \in Reads
  BY <1>2, <1>5, <1>6 DEF Reads
<1>8. \A b \in DOMAIN UsageOf(c) : UsageOf(c)[b] <= sums[b]
  BY <1>1, <1>2, <1>5
<1>9. ASSUME NEW held \in Binding(c)
      PROVE  Charges[Bucket(held, at)][at] <= Used(UsageOf(c), held, at)
  <2> DEFINE b == Bucket(held, at)
  <2>1. b \in Buckets /\ b \in keys
    BY <1>3
  <2>2. Used(UsageOf(c), held, at) = IF b \in DOMAIN UsageOf(c) THEN UsageOf(c)[b] ELSE 0
    BY DEF Used, Bucket
  <2> HIDE DEF b
  <2>3. at \in 0 .. LastTick + 1 /\ LastTick + 1 \in 0 .. LastTick + 1 /\ at <= LastTick + 1
    BY <1>1
  <2>4. /\ Charges[b][at] \in Nat /\ Charges[b][LastTick + 1] \in Nat
        /\ Charges[b][at] <= Charges[b][LastTick + 1]
    BY <2>1, <2>3, ChargedGrows
  <2>5. sums[b] = Charges[b][LastTick + 1] /\ sums[b] \in Nat
    BY <1>1, <2>1 DEF BudgetInv, BooksMatch
  <2>6. Used(UsageOf(c), held, at) = sums[b]
    BY <1>2, <2>1, <2>2, <2>5
  <2> QED
    BY <2>4, <2>5, <2>6 DEF b
<1> QED
  BY <1>1, <1>7, <1>8, <1>9 DEF Snapshot, at

(* A snapshot stays one while the books grow by what is charged later.     *)
LEMMA SnapshotStays ==
  ASSUME NEW e, NEW f, NEW s \in [Buckets -> Nat], NEW z \in [Buckets -> Nat],
         NEW bound, NEW u \in Reads, NEW a,
         \A b \in Buckets : s[b] <= z[b] /\ f[b][a] = e[b][a],
         \A held \in bound : Bucket(held, a) \in Buckets,
         Snapshot(e, s, bound, u, a)
  PROVE  Snapshot(f, z, bound, u, a)
<1>1. PICK D \in SUBSET Buckets : u \in [D -> Nat]
  BY DEF Reads
<1>2. \A b \in DOMAIN u : u[b] \in Nat /\ s[b] \in Nat /\ z[b] \in Nat /\ s[b] <= z[b] /\ u[b] <= s[b]
  BY <1>1 DEF Snapshot
<1> QED
  BY <1>2 DEF Snapshot

(* A batch is added to the books, as of now.                               *)
LEMMA ChargeKeeps ==
  ASSUME BudgetInv, NEW batch \in SUBSET Unpaid, Charge(batch)
  PROVE  BudgetInv'
<1>1. /\ bill' = [c \in Billed |-> IF c \in batch THEN [bill[c] EXCEPT !.charged = tick + 1] ELSE bill[c]]
      /\ sums' = [b \in Buckets |-> sums[b] + Cardinality({c \in batch : b \in BucketsOf(c)})]
      /\ tick' = tick /\ budgets' = budgets /\ cell' = cell
  BY DEF Charge
<1>2. /\ tick \in 0 .. LastTick /\ LastTick \in Nat /\ bill \in [Billed -> BillRow]
      /\ sums \in [Buckets -> Nat] /\ cell \in [CacheKeys -> CellRow] /\ BudgetTyped
  BY BudgetAssumption DEF BudgetInv, BudgetTyped
<1>3. batch \subseteq Billed /\ \A c \in batch : bill[c].charged = 0 /\ bill[c].pc \in {"served", "blind"}
  BY DEF Unpaid
<1>4. ASSUME NEW c \in Billed
      PROVE  /\ bill'[c] \in BillRow /\ bill'[c].pc = bill[c].pc /\ bill'[c].asked = bill[c].asked
             /\ bill'[c].read = bill[c].read /\ bill'[c].began = bill[c].began
             /\ bill'[c].charged = IF c \in batch THEN tick + 1 ELSE bill[c].charged
  <2>1. bill[c] \in BillRow /\ tick + 1 \in 0 .. LastTick + 1
    BY <1>2
  <2>2. bill'[c] = IF c \in batch THEN [bill[c] EXCEPT !.charged = tick + 1] ELSE bill[c]
    BY <1>1
  <2> DEFINE paid == [bill[c] EXCEPT !.charged = tick + 1]
  <2>3. /\ paid \in BillRow /\ paid.pc = bill[c].pc /\ paid.asked = bill[c].asked
        /\ paid.read = bill[c].read /\ paid.began = bill[c].began /\ paid.charged = tick + 1
    BY <2>1 DEF BillRow
  <2> HIDE DEF paid
  <2> QED
    BY <2>1, <2>2, <2>3 DEF paid
<1>5. \A c \in Billed : BucketsOf(c)' = BucketsOf(c)
  BY <1>4 DEF BucketsOf
<1>6. ASSUME NEW b \in Buckets, NEW a \in 0 .. tick PROVE Charges'[b][a] = Charges[b][a]
  <2>1. a \in 0 .. LastTick + 1
    BY <1>2
  <2>2. ChargedTo(b, a)' = ChargedTo(b, a)
    <3>1. \A c \in Billed : bill'[c].charged \in 1 .. a <=> bill[c].charged \in 1 .. a
      BY <1>2, <1>3, <1>4
    <3> QED
      BY <1>5, <3>1 DEF ChargedTo
  <2>3. Charges'[b][a] = Cardinality(ChargedTo(b, a)')
    BY <2>1 DEF Charges
  <2> QED
    BY <2>1, <2>2, <2>3 DEF Charges
<1>7. ASSUME NEW b \in Buckets
      PROVE  sums'[b] \in Nat /\ sums[b] <= sums'[b] /\ sums'[b] = Charges'[b][LastTick + 1]
  <2> DEFINE now == {c \in batch : b \in BucketsOf(c)}
             before == ChargedTo(b, LastTick + 1)
  <2>1. sums'[b] = sums[b] + Cardinality(now) /\ sums[b] \in Nat
    BY <1>1, <1>2
  <2>2. IsFiniteSet(now) /\ IsFiniteSet(before)
    <3>1. now \subseteq Billed /\ before \subseteq Billed
      BY <1>3 DEF ChargedTo
    <3> QED
      BY <3>1, BudgetAssumption, FS_Subset
  <2>3. Cardinality(now) \in Nat /\ Cardinality(before) \in Nat
    BY <2>2, FS_CardinalityType
  <2>4. LastTick + 1 \in 0 .. LastTick + 1 /\ tick + 1 \in 1 .. LastTick + 1
    BY <1>2
  <2>5. sums[b] = Cardinality(before)
    BY <2>4 DEF BudgetInv, BooksMatch, Charges
  <2>6. now \cap before = {}
    BY <1>2, <1>3 DEF ChargedTo
  <2>7. ChargedTo(b, LastTick + 1)' = before \cup now
    <3>1. \A c \in Billed : bill'[c].charged \in 1 .. LastTick + 1 <=>
            c \in batch \/ bill[c].charged \in 1 .. LastTick + 1
      BY <1>4, <2>4
    <3> QED
      BY <1>3, <1>5, <3>1 DEF ChargedTo
  <2>8. Charges'[b][LastTick + 1] = Cardinality(ChargedTo(b, LastTick + 1)')
    BY <2>4 DEF Charges
  <2> HIDE DEF now, before
  <2>9. Cardinality(before \cup now) = Cardinality(before) + Cardinality(now)
    <3>1. Cardinality(before \cup now) = Cardinality(before) + Cardinality(now) - Cardinality(before \cap now)
      BY <2>2, FS_Union
    <3>2. Cardinality(before \cap now) = 0
      BY <2>6, FS_EmptySet
    <3> QED
      BY <2>3, <3>1, <3>2
  <2>10. Charges'[b][LastTick + 1] = Cardinality(before \cup now)
    BY <2>7, <2>8
  <2>11. sums'[b] = Cardinality(before) + Cardinality(now) /\ sums[b] <= sums'[b] /\ sums'[b] \in Nat
    BY <2>1, <2>3, <2>5
  <2> QED
    BY <2>9, <2>10, <2>11
<1>8. sums' \in [Buckets -> Nat]
  BY <1>1, <1>7
<1>9. BudgetTyped'
  <2>1. bill' \in [Billed -> BillRow]
    BY <1>1, <1>4
  <2> QED
    BY <1>1, <1>2, <1>8, <2>1 DEF BudgetTyped
<1>10. Bound' = Bound
  BY <1>1 DEF Bound, Binding, RowsOf
<1>11. ASSUME NEW c \in Billed, NEW u \in Reads, NEW a \in 0 .. tick,
              Snapshot(Charges, sums, Bound[c], u, a)
       PROVE  Snapshot(Charges', sums', Bound'[c], u, a)
  <2>1. \A held \in Bound[c] : Bucket(held, a) \in Buckets
    BY <1>2, RowsTyped DEF Bound
  <2>2. \A b \in Buckets : sums[b] <= sums'[b] /\ Charges'[b][a] = Charges[b][a]
    BY <1>6, <1>7
  <2> QED
    BY <1>2, <1>8, <1>10, <1>11, <2>1, <2>2, SnapshotStays
<1>12. BooksMatch'
  BY <1>7 DEF BooksMatch
<1>13. TimesAgree'
  <2> SUFFICES ASSUME NEW c \in Billed
               PROVE  /\ bill'[c].charged # 0 => /\ bill'[c].charged <= tick + 1 /\ bill'[c].began < bill'[c].charged
                                                 /\ bill'[c].pc \in {"served", "blind"}
                      /\ bill'[c].pc \in {"served", "blind"} => bill'[c].began <= tick
                      /\ bill'[c].pc \in {"loading", "loaded"} => bill'[c].asked <= tick /\ tick <= bill'[c].asked + Way
    BY <1>1 DEF TimesAgree
  <2>1. /\ bill[c].charged # 0 => /\ bill[c].charged <= tick + 1 /\ bill[c].began < bill[c].charged
                                  /\ bill[c].pc \in {"served", "blind"}
        /\ bill[c].pc \in {"served", "blind"} => bill[c].began <= tick
        /\ bill[c].pc \in {"loading", "loaded"} => bill[c].asked <= tick /\ tick <= bill[c].asked + Way
    BY DEF BudgetInv, TimesAgree
  <2>2. CASE c \in batch
    <3>1. bill[c].began <= tick /\ bill[c].pc \in {"served", "blind"} /\ bill'[c].charged = tick + 1
      BY <1>3, <1>4, <2>1, <2>2
    <3>2. bill[c].began \in Nat /\ tick \in Nat
      BY <1>2 DEF BillRow
    <3>3. bill[c].began < tick + 1 /\ tick + 1 <= tick + 1
      BY <3>1, <3>2
    <3> QED
      BY <1>4, <3>1, <3>3
  <2>3. CASE c \notin batch
    BY <1>4, <2>1, <2>3
  <2> QED
    BY <2>2, <2>3
<1>14. LoadsSound'
  <2> SUFFICES ASSUME NEW c \in Billed, bill'[c].pc = "loaded"
               PROVE  Snapshot(Charges', sums', Bound'[c], bill'[c].read, bill'[c].asked)
    BY DEF LoadsSound
  <2>1. /\ bill[c].pc = "loaded" /\ bill[c].read \in Reads /\ bill[c].asked \in 0 .. LastTick
        /\ bill'[c].read = bill[c].read /\ bill'[c].asked = bill[c].asked
    BY <1>2, <1>4 DEF BillRow
  <2>2. bill[c].asked \in 0 .. tick
    BY <1>2, <2>1 DEF BudgetInv, TimesAgree
  <2>3. Snapshot(Charges, sums, Bound[c], bill[c].read, bill[c].asked)
    BY <2>1 DEF BudgetInv, LoadsSound
  <2> QED
    BY <1>11, <2>1, <2>2, <2>3
<1>15. CellsSound'
  <2> SUFFICES ASSUME NEW c \in Billed, cell[ScopesOf[c]].until # 0
               PROVE  \E a \in 0 .. tick :
                        /\ Snapshot(Charges', sums', Bound'[c], cell[ScopesOf[c]].used, a)
                        /\ cell[ScopesOf[c]].until <= a + Way + CacheFor
    BY <1>1 DEF CellsSound
  <2>1. cell[ScopesOf[c]].used \in Reads
    BY <1>2 DEF CacheKeys, CellRow
  <2>2. PICK a \in 0 .. tick :
          /\ Snapshot(Charges, sums, Bound[c], cell[ScopesOf[c]].used, a)
          /\ cell[ScopesOf[c]].until <= a + Way + CacheFor
    BY DEF BudgetInv, CellsSound
  <2> QED
    BY <1>11, <2>1, <2>2
<1> QED
  BY <1>9, <1>12, <1>13, <1>14, <1>15 DEF BudgetInv

LEMMA BudgetStep == BudgetInv /\ [BudgetNext]_budgetVars => BudgetInv'
<1> SUFFICES ASSUME BudgetInv, [BudgetNext]_budgetVars PROVE BudgetInv'
  OBVIOUS
<1>t. /\ tick \in 0 .. LastTick /\ LastTick \in Nat /\ bill \in [Billed -> BillRow]
      /\ cell \in [CacheKeys -> CellRow] /\ Way \in Nat /\ CacheFor \in Nat
  BY BudgetAssumption DEF BudgetInv, BudgetTyped
<1>u. \A c \in Billed : ScopesOf[c] \in CacheKeys /\ bill[c] \in BillRow
  BY <1>t DEF CacheKeys
<1>f. ASSUME NEW c \in Billed, bill[c].pc \in {"idle", "loading", "loaded"} PROVE bill[c].charged = 0
  BY <1>f DEF BudgetInv, TimesAgree
<1>s. ASSUME NEW c \in Billed, NEW moved, moved.charged = 0, bill[c].charged = 0,
             bill' = [bill EXCEPT ![c] = moved],
             tick' = tick, budgets' = budgets, sums' = sums, cell' = cell
      PROVE  CellsSound'
  <2>1. Charges' = Charges /\ Bound' = Bound
    BY <1>s, BooksStay
  <2> QED
    BY <1>s, <2>1 DEF BudgetInv, CellsSound
<1>1. ASSUME NEW c \in Billed, Check(c) PROVE BudgetInv'
  <2>1. /\ bill[c].pc = "idle" /\ bill[c].charged = 0
        /\ tick' = tick /\ budgets' = budgets /\ sums' = sums /\ cell' = cell
    BY <1>1, <1>f DEF Check
  <2>2. CASE cell[ScopesOf[c]].until > tick
    <3>1. Decision(c, cell[ScopesOf[c]].used, tick)
      BY <1>1, <2>2 DEF Check
    <3>2. PICK moved \in BillRow :
            /\ bill' = [bill EXCEPT ![c] = moved] /\ moved.charged = 0
            /\ moved.pc = "refused" \/ (moved.pc = "served" /\ moved.began <= tick)
      BY <3>1, DecisionRow
    <3>3. CellsSound'
      BY <1>s, <2>1, <3>2
    <3> QED
      BY <1>t, <2>1, <3>2, <3>3, BillMoves
  <2>3. CASE ~ (cell[ScopesOf[c]].until > tick)
    <3> DEFINE moved == [bill[c] EXCEPT !.pc = "loading", !.asked = tick]
    <3>1. bill' = [bill EXCEPT ![c] = moved]
      BY <1>1, <1>t, <2>3 DEF Check
    <3>2. moved \in BillRow /\ moved.charged = 0 /\ moved.pc = "loading" /\ moved.asked = tick
      BY <1>t, <1>u, <2>1 DEF BillRow
    <3> HIDE DEF moved
    <3>3. CellsSound'
      BY <1>s, <2>1, <3>1, <3>2
    <3>4. moved.asked <= tick /\ tick <= moved.asked + Way
      BY <1>t, <3>2
    <3> QED
      BY <1>t, <2>1, <3>1, <3>2, <3>3, <3>4, BillMoves
  <2> QED
    BY <2>2, <2>3
<1>2. ASSUME NEW c \in Billed, LoadUsage(c) PROVE BudgetInv'
  <2>1. /\ bill[c].pc = "loading" /\ bill[c].charged = 0
        /\ tick' = tick /\ budgets' = budgets /\ sums' = sums /\ cell' = cell
    BY <1>2, <1>f DEF LoadUsage
  <2> DEFINE moved == [bill[c] EXCEPT !.pc = "loaded", !.read = UsageOf(c)]
  <2>2. bill' = [bill EXCEPT ![c] = moved]
    BY <1>2, <1>t DEF LoadUsage
  <2>3. UsageOf(c) \in Reads /\ Snapshot(Charges, sums, Bound[c], UsageOf(c), bill[c].asked)
    BY UsageIsSnapshot
  <2>4. /\ moved \in BillRow /\ moved.charged = 0 /\ moved.pc = "loaded" /\ moved.asked = bill[c].asked
        /\ moved.read = UsageOf(c)
    BY <1>u, <2>1, <2>3 DEF BillRow
  <2> HIDE DEF moved
  <2>5. CellsSound'
    BY <1>s, <2>1, <2>2, <2>4
  <2>6. moved.asked <= tick /\ tick <= moved.asked + Way
    BY <2>1, <2>4 DEF BudgetInv, TimesAgree
  <2> QED
    BY <1>t, <2>1, <2>2, <2>3, <2>4, <2>5, <2>6, BillMoves
<1>3. ASSUME NEW c \in Billed, FillEntry(c) PROVE BudgetInv'
  <2> DEFINE filled == [until |-> tick + CacheFor, used |-> bill[c].read]
  <2>1. /\ bill[c].pc = "loaded" /\ bill[c].charged = 0
        /\ tick' = tick /\ budgets' = budgets /\ sums' = sums
        /\ cell' = [cell EXCEPT ![ScopesOf[c]] = filled]
        /\ Decision(c, bill[c].read, bill[c].asked)
    BY <1>3, <1>f DEF FillEntry
  <2>2. /\ filled \in CellRow /\ filled.until = tick + CacheFor /\ filled.used = bill[c].read
    BY <1>t, <1>u DEF CellRow, BillRow
  <2> HIDE DEF filled
  <2>3. PICK moved \in BillRow :
          /\ bill' = [bill EXCEPT ![c] = moved] /\ moved.charged = 0
          /\ moved.pc = "refused" \/ (moved.pc = "served" /\ moved.began <= tick)
    BY <2>1, DecisionRow
  <2>4. cell' \in [CacheKeys -> CellRow] /\ cell'[ScopesOf[c]] = filled
        /\ \A k \in CacheKeys : k # ScopesOf[c] => cell'[k] = cell[k]
    BY <1>t, <1>u, <2>1, <2>2
  <2>5. Charges' = Charges /\ Bound' = Bound
    BY <2>1, <2>3, BooksStay
  <2>6. CellsSound'
    <3> SUFFICES ASSUME NEW d \in Billed, cell'[ScopesOf[d]].until # 0
                 PROVE  \E a \in 0 .. tick :
                          /\ Snapshot(Charges, sums, Bound[d], cell'[ScopesOf[d]].used, a)
                          /\ cell'[ScopesOf[d]].until <= a + Way + CacheFor
      BY <2>1, <2>5 DEF CellsSound
    <3>1. CASE ScopesOf[d] = ScopesOf[c]
      <4>1. Bound[d] = Bound[c]
        BY <3>1, SameBound
      <4>2. bill[c].asked \in Nat /\ bill[c].asked <= tick /\ tick <= bill[c].asked + Way
        BY <1>t, <1>u, <2>1 DEF BudgetInv, TimesAgree, BillRow
      <4>3. bill[c].asked \in 0 .. tick /\ tick + CacheFor <= bill[c].asked + Way + CacheFor
        BY <1>t, <4>2
      <4>4. Snapshot(Charges, sums, Bound[c], bill[c].read, bill[c].asked)
        BY <2>1 DEF BudgetInv, LoadsSound
      <4> QED
        BY <2>2, <2>4, <3>1, <4>1, <4>3, <4>4
    <3>2. CASE ScopesOf[d] # ScopesOf[c]
      BY <1>u, <2>4, <3>2 DEF BudgetInv, CellsSound
    <3> QED
      BY <3>1, <3>2
  <2> QED
    BY <1>t, <2>1, <2>3, <2>4, <2>6, BillMoves
<1>4. ASSUME NEW c \in Billed, UsageFails(c) PROVE BudgetInv'
  <2>1. /\ bill[c].charged = 0 /\ tick' = tick /\ budgets' = budgets /\ sums' = sums /\ cell' = cell
    BY <1>4, <1>f DEF UsageFails
  <2> DEFINE moved == [NewBill EXCEPT !.pc = "blind", !.began = tick]
  <2>2. bill' = [bill EXCEPT ![c] = moved]
    BY <1>4 DEF UsageFails
  <2>3. NewBill \in BillRow /\ NewBill.charged = 0
    BY NothingRead, BudgetAssumption DEF NewBill, BillRow
  <2>4. moved \in BillRow /\ moved.charged = 0 /\ moved.pc = "blind" /\ moved.began = tick
    BY <1>t, <2>3 DEF BillRow
  <2> HIDE DEF moved
  <2>5. CellsSound'
    BY <1>s, <2>1, <2>2, <2>4
  <2>6. moved.began <= tick
    BY <1>t, <2>4
  <2> QED
    BY <1>t, <2>1, <2>2, <2>4, <2>5, <2>6, BillMoves
<1>5. ASSUME NEW batch \in SUBSET Unpaid, Charge(batch) PROVE BudgetInv'
  BY <1>5, ChargeKeeps
<1>6. ASSUME BudgetTick PROVE BudgetInv'
  <2>1. /\ tick' = tick + 1 /\ tick < LastTick
        /\ \A c \in Billed : bill[c].pc \in {"loading", "loaded"} => tick < bill[c].asked + Way
        /\ cell' = [k \in CacheKeys |-> IF cell[k].until > tick' THEN cell[k] ELSE NoEntry]
        /\ budgets' = budgets /\ bill' = bill /\ sums' = sums
    BY <1>6 DEF BudgetTick
  <2>2. NoEntry \in CellRow /\ NoEntry.until = 0
    BY NothingRead DEF NoEntry, CellRow
  <2>3. BudgetTyped'
    <3>1. tick' \in 0 .. LastTick
      BY <1>t, <2>1
    <3>2. cell' \in [CacheKeys -> CellRow]
      BY <1>t, <2>1, <2>2
    <3> QED
      BY <2>1, <3>1, <3>2 DEF BudgetInv, BudgetTyped
  <2>4. Charges' = Charges /\ Bound' = Bound
    BY <2>1 DEF Charges, ChargedTo, BucketsOf, Bound, Binding, RowsOf
  <2>5. BooksMatch'
    BY <2>1, <2>4 DEF BudgetInv, BooksMatch
  <2>6. TimesAgree'
    <3> SUFFICES ASSUME NEW c \in Billed
                 PROVE  /\ bill[c].charged # 0 => /\ bill[c].charged <= tick + 1 + 1 /\ bill[c].began < bill[c].charged
                                                  /\ bill[c].pc \in {"served", "blind"}
                        /\ bill[c].pc \in {"served", "blind"} => bill[c].began <= tick + 1
                        /\ bill[c].pc \in {"loading", "loaded"} => bill[c].asked <= tick + 1 /\ tick + 1 <= bill[c].asked + Way
      BY <2>1 DEF TimesAgree
    <3>1. /\ bill[c].charged # 0 => /\ bill[c].charged <= tick + 1 /\ bill[c].began < bill[c].charged
                                    /\ bill[c].pc \in {"served", "blind"}
          /\ bill[c].pc \in {"served", "blind"} => bill[c].began <= tick
          /\ bill[c].pc \in {"loading", "loaded"} => bill[c].asked <= tick /\ tick < bill[c].asked + Way
      BY <2>1 DEF BudgetInv, TimesAgree
    <3>2. bill[c].asked \in Nat /\ bill[c].began \in Nat /\ bill[c].charged \in Nat /\ tick \in Nat
      BY <1>t, <1>u DEF BillRow
    <3>3. bill[c].charged # 0 => bill[c].charged <= tick + 1 + 1
      BY <3>1, <3>2
    <3>4. bill[c].pc \in {"served", "blind"} => bill[c].began <= tick + 1
      BY <3>1, <3>2
    <3>5. bill[c].pc \in {"loading", "loaded"} => bill[c].asked <= tick + 1 /\ tick + 1 <= bill[c].asked + Way
      BY <1>t, <3>1, <3>2
    <3> QED
      BY <3>1, <3>3, <3>4, <3>5
  <2>7. LoadsSound'
    BY <2>1, <2>4 DEF BudgetInv, LoadsSound
  <2>8. CellsSound'
    <3> SUFFICES ASSUME NEW c \in Billed, cell'[ScopesOf[c]].until # 0
                 PROVE  \E a \in 0 .. tick + 1 :
                          /\ Snapshot(Charges, sums, Bound[c], cell'[ScopesOf[c]].used, a)
                          /\ cell'[ScopesOf[c]].until <= a + Way + CacheFor
      BY <2>1, <2>4 DEF CellsSound
    <3>1. cell'[ScopesOf[c]] = cell[ScopesOf[c]]
      BY <1>u, <2>1, <2>2
    <3>2. PICK a \in 0 .. tick :
            /\ Snapshot(Charges, sums, Bound[c], cell[ScopesOf[c]].used, a)
            /\ cell[ScopesOf[c]].until <= a + Way + CacheFor
      BY <3>1 DEF BudgetInv, CellsSound
    <3>3. a \in 0 .. tick + 1
      BY <1>t
    <3> QED
      BY <3>1, <3>2, <3>3
  <2> QED
    BY <2>3, <2>5, <2>6, <2>7, <2>8 DEF BudgetInv
<1>7. CASE UNCHANGED budgetVars
  <2>1. /\ tick' = tick /\ budgets' = budgets /\ bill' = bill /\ cell' = cell /\ sums' = sums
    BY <1>7 DEF budgetVars
  <2>2. Charges' = Charges /\ Bound' = Bound
    BY <2>1 DEF Charges, ChargedTo, BucketsOf, Bound, Binding, RowsOf
  <2>3. BudgetTyped' /\ BooksMatch' /\ TimesAgree'
    BY <2>1, <2>2 DEF BudgetInv, BudgetTyped, BooksMatch, TimesAgree
  <2>4. LoadsSound' /\ CellsSound'
    BY <2>1, <2>2 DEF BudgetInv, LoadsSound, CellsSound
  <2> QED
    BY <2>3, <2>4 DEF BudgetInv
<1> QED
  BY <1>1, <1>2, <1>3, <1>4, <1>5, <1>6, <1>7 DEF BudgetNext

(* The sums u that were asked for at a let no call through in a window     *)
(* that was full before.                                                   *)
LEMMA ServedWithin ==
  ASSUME BudgetInv, NEW c \in Billed, NEW held \in Binding(c), NEW u \in Reads,
         NEW a \in 0 .. tick, NEW at \in 0 .. tick, a <= at, NEW upTo \in 0 .. tick, upTo < a,
         Snapshot(Charges, sums, Bound[c], u, a), ~ (Used(u, held, at) >= held.limit)
  PROVE  Spent(held, at, upTo) < held.limit
<1>1. /\ BudgetTyped /\ tick \in 0 .. LastTick /\ LastTick \in Nat /\ tick \in Nat
      /\ Bound[c] = Binding(c)
  BY BudgetAssumption DEF BudgetInv, BudgetTyped, Bound
<1>2. /\ a \in 0 .. LastTick /\ at \in 0 .. LastTick /\ upTo \in 0 .. LastTick
      /\ upTo + 1 \in 0 .. LastTick + 1 /\ a \in 0 .. LastTick + 1 /\ upTo + 1 <= a
  BY <1>1
<1>3. held.window \in Windows /\ held.limit \in Nat /\ Bucket(held, at) \in Buckets
  BY <1>1, <1>2, RowsTyped
<1>4. Spent(held, at, upTo) = Charges[Bucket(held, at)][upTo + 1]
  BY <1>1, <1>2, SpentIsCharged
<1>5. /\ Charges[Bucket(held, at)][upTo + 1] \in Nat /\ Charges[Bucket(held, at)][a] \in Nat
      /\ Charges[Bucket(held, at)][upTo + 1] <= Charges[Bucket(held, at)][a]
      /\ Charges[Bucket(held, at)][upTo + 1] = Cardinality(ChargedTo(Bucket(held, at), upTo + 1))
  BY <1>2, <1>3, ChargedGrows
<1>6. Used(u, held, at) \in Nat
  BY DEF Used, Reads
<1>7. CASE WindowKey(held.window, a) = WindowKey(held.window, at)
  <2>1. Bucket(held, a) = Bucket(held, at) /\ Used(u, held, a) = Used(u, held, at)
    BY <1>7 DEF Bucket, Used
  <2>2. Charges[Bucket(held, at)][a] <= Used(u, held, at)
    BY <1>1, <2>1 DEF Snapshot
  <2> QED
    BY <1>3, <1>4, <1>5, <1>6, <2>2
<1>8. CASE WindowKey(held.window, a) # WindowKey(held.window, at)
  <2>1. ASSUME NEW d \in ChargedTo(Bucket(held, at), upTo + 1) PROVE FALSE
    <3>1. d \in Billed /\ bill[d].charged \in 1 .. upTo + 1 /\ Bucket(held, at) \in BucketsOf(d)
      BY DEF ChargedTo
    <3>2. bill[d].began \in Nat /\ bill[d].began < bill[d].charged
      BY <1>1, <3>1 DEF BudgetInv, BudgetTyped, TimesAgree, BillRow
    <3>3. bill[d].began <= a /\ a \in Nat /\ at \in Nat
      BY <1>2, <3>1, <3>2
    <3>4. PICK w \in Windows : WindowKey(held.window, at) = WindowKey(w, bill[d].began)
      BY <3>1 DEF BucketsOf, Bucket
    <3>5. w = held.window
      BY <1>3, <3>4 DEF WindowKey, Windows
    <3>6. WindowKey(held.window, a) = WindowKey(held.window, at)
      BY <1>3, <3>2, <3>3, <3>4, <3>5, WindowsTurn
    <3> QED
      BY <1>8, <3>6
  <2>2. ChargedTo(Bucket(held, at), upTo + 1) = {}
    BY <2>1
  <2>3. Charges[Bucket(held, at)][upTo + 1] = 0
    BY <1>5, <2>2, FS_EmptySet
  <2> QED
    BY <1>3, <1>4, <1>6, <2>3
<1> QED
  BY <1>7, <1>8

(* A call is refused for what its own budgets were charged.                *)
LEMMA RefusedRightly ==
  ASSUME BudgetInv, NEW c \in Billed, NEW held \in Binding(c), NEW u \in Reads,
         NEW at \in 0 .. tick, \A b \in DOMAIN u : u[b] <= sums[b], Used(u, held, at) >= held.limit
  PROVE  Spent(held, at, tick) >= held.limit
<1>1. /\ BudgetTyped /\ tick \in 0 .. LastTick /\ LastTick \in Nat
      /\ sums \in [Buckets -> Nat] /\ bill \in [Billed -> BillRow]
  BY BudgetAssumption DEF BudgetInv, BudgetTyped
<1>2. at \in 0 .. LastTick /\ tick + 1 \in 0 .. LastTick + 1 /\ LastTick + 1 \in 0 .. LastTick + 1
  BY <1>1
<1>3. held.limit \in Nat /\ Bucket(held, at) \in Buckets
  BY <1>1, <1>2, RowsTyped
<1> DEFINE b == Bucket(held, at)
<1>4. Used(u, held, at) = IF b \in DOMAIN u THEN u[b] ELSE 0
  BY DEF Used, Bucket
<1>5. Spent(held, at, tick) = Charges[b][tick + 1]
  BY <1>1, <1>2, SpentIsCharged
<1> HIDE DEF b
<1>6. ChargedTo(b, tick + 1) = ChargedTo(b, LastTick + 1)
  <2>1. \A d \in Billed : bill[d].charged \in 1 .. tick + 1 <=> bill[d].charged \in 1 .. LastTick + 1
    <3> SUFFICES ASSUME NEW d \in Billed
                 PROVE  bill[d].charged \in 1 .. tick + 1 <=> bill[d].charged \in 1 .. LastTick + 1
      OBVIOUS
    <3>1. bill[d].charged \in Nat /\ (bill[d].charged # 0 => bill[d].charged <= tick + 1)
      BY <1>1 DEF BudgetInv, TimesAgree, BillRow
    <3> QED
      BY <1>1, <3>1
  <2> QED
    BY <2>1 DEF ChargedTo
<1>7. Charges[b][tick + 1] = sums[b] /\ sums[b] \in Nat
  BY <1>1, <1>2, <1>3, <1>6 DEF BudgetInv, BooksMatch, Charges, b
<1>8. CASE b \in DOMAIN u
  <2>1. u[b] \in Nat /\ u[b] <= sums[b]
    BY <1>8 DEF Reads
  <2> QED
    BY <1>3, <1>4, <1>5, <1>7, <1>8, <2>1
<1>9. CASE b \notin DOMAIN u
  BY <1>3, <1>4, <1>5, <1>7, <1>9
<1> QED
  BY <1>8, <1>9

(* Who decides about a call, from which sums, asked for when.              *)
LEMMA Decided ==
  ASSUME BudgetInv, [BudgetNext]_budgetVars, NEW c \in Billed,
         \/ bill[c].pc # "refused" /\ bill'[c].pc = "refused"
         \/ bill[c].pc # "served" /\ bill'[c].pc = "served"
  PROVE  \E u \in Reads, a \in 0 .. tick :
           /\ AskedAt(c) \in 0 .. tick /\ a <= AskedAt(c) /\ tick < a + Lag
           /\ Snapshot(Charges, sums, Bound[c], u, a)
           /\ bill'[c].pc = "refused" =>
                \E held \in Binding(c) : held.enforce /\ Used(u, held, AskedAt(c)) >= held.limit
           /\ bill'[c].pc = "served" =>
                ~ \E held \in Binding(c) : held.enforce /\ Used(u, held, AskedAt(c)) >= held.limit
<1>t. /\ tick \in 0 .. LastTick /\ LastTick \in Nat /\ bill \in [Billed -> BillRow]
      /\ cell \in [CacheKeys -> CellRow] /\ Way \in Nat /\ CacheFor \in Nat
  BY BudgetAssumption DEF BudgetInv, BudgetTyped
<1>u. \A d \in Billed : ScopesOf[d] \in CacheKeys /\ bill[d] \in BillRow
  BY <1>t DEF CacheKeys
<1>l. Lag = Way + (IF CacheFor = 0 THEN 1 ELSE CacheFor)
  BY DEF Lag
<1>1. ASSUME NEW d \in Billed, NEW u, NEW at, Decision(d, u, at)
      PROVE  /\ d = c
             /\ bill'[c].pc = "refused" =>
                  \E held \in Binding(c) : held.enforce /\ Used(u, held, at) >= held.limit
             /\ bill'[c].pc = "served" =>
                  ~ \E held \in Binding(c) : held.enforce /\ Used(u, held, at) >= held.limit
  <2>1. PICK moved \in BillRow :
          /\ bill' = [bill EXCEPT ![d] = moved] /\ moved.charged = 0
          /\ \/ moved.pc = "refused"
               /\ \E held \in Binding(d) : held.enforce /\ Used(u, held, at) >= held.limit
             \/ /\ moved.pc = "served" /\ moved.began <= tick
                /\ ~ \E held \in Binding(d) : held.enforce /\ Used(u, held, at) >= held.limit
    BY <1>1, DecisionRow
  <2>2. bill'[d] = moved /\ \A e \in Billed : e # d => bill'[e] = bill[e]
    BY <1>t, <2>1
  <2>3. d = c
    BY <2>2
  <2> QED
    BY <2>1, <2>2, <2>3
<1>2. ASSUME NEW d \in Billed, Check(d) PROVE Decision(d, cell[ScopesOf[d]].used, tick) /\ cell[ScopesOf[d]].until > tick /\ bill[d].pc = "idle"
  <2>1. CASE cell[ScopesOf[d]].until > tick
    BY <1>2, <2>1 DEF Check
  <2>2. CASE ~ (cell[ScopesOf[d]].until > tick)
    <3> DEFINE moved == [bill[d] EXCEPT !.pc = "loading", !.asked = tick]
    <3>1. bill' = [bill EXCEPT ![d] = moved]
      BY <1>2, <1>t, <2>2 DEF Check
    <3>2. moved.pc = "loading"
      BY <1>u DEF BillRow
    <3> HIDE DEF moved
    <3> QED
      BY <1>t, <3>1, <3>2
  <2> QED
    BY <2>1, <2>2
<1>3. ASSUME NEW d \in Billed, LoadUsage(d) PROVE FALSE
  <2> DEFINE moved == [bill[d] EXCEPT !.pc = "loaded", !.read = UsageOf(d)]
  <2>1. bill' = [bill EXCEPT ![d] = moved]
    BY <1>3, <1>t DEF LoadUsage
  <2>2. moved.pc = "loaded"
    BY <1>u DEF BillRow
  <2> HIDE DEF moved
  <2> QED
    BY <1>t, <2>1, <2>2
<1>4. ASSUME NEW d \in Billed, UsageFails(d) PROVE FALSE
  <2> DEFINE moved == [NewBill EXCEPT !.pc = "blind", !.began = tick]
  <2>1. bill' = [bill EXCEPT ![d] = moved]
    BY <1>4 DEF UsageFails
  <2>2. moved.pc = "blind"
    BY DEF NewBill
  <2> HIDE DEF moved
  <2> QED
    BY <1>t, <2>1, <2>2
<1>5. ASSUME NEW batch \in SUBSET Unpaid, Charge(batch) PROVE FALSE
  <2>1. bill'[c] = IF c \in batch THEN [bill[c] EXCEPT !.charged = tick + 1] ELSE bill[c]
    BY <1>5 DEF Charge
  <2>2. bill'[c].pc = bill[c].pc
    BY <1>u, <2>1 DEF BillRow
  <2> QED
    BY <2>2
<1>6. ASSUME BudgetTick \/ UNCHANGED budgetVars PROVE FALSE
  BY <1>6 DEF BudgetTick, budgetVars
<1>7. CASE Check(c)
  <2> DEFINE u == cell[ScopesOf[c]].used
  <2>1. Decision(c, u, tick) /\ cell[ScopesOf[c]].until > tick /\ AskedAt(c) = tick
    BY <1>2, <1>7 DEF AskedAt
  <2>2. u \in Reads /\ cell[ScopesOf[c]].until \in Nat
    BY <1>t, <1>u DEF CellRow
  <2>3. PICK a \in 0 .. tick :
          Snapshot(Charges, sums, Bound[c], u, a) /\ cell[ScopesOf[c]].until <= a + Way + CacheFor
    <3>1. cell[ScopesOf[c]].until # 0
      BY <1>t, <2>1, <2>2
    <3> QED
      BY <3>1 DEF BudgetInv, CellsSound
  <2>4. AskedAt(c) \in 0 .. tick /\ a <= AskedAt(c) /\ tick < a + Lag
    BY <1>t, <1>l, <2>1, <2>2, <2>3
  <2> HIDE DEF u
  <2> QED
    BY <1>1, <2>1, <2>2, <2>3, <2>4
<1>8. CASE FillEntry(c)
  <2> DEFINE u == bill[c].read
  <2>1. Decision(c, u, bill[c].asked) /\ bill[c].pc = "loaded" /\ AskedAt(c) = bill[c].asked
    BY <1>8 DEF FillEntry, AskedAt
  <2>2. u \in Reads /\ bill[c].asked \in 0 .. LastTick
    BY <1>u DEF BillRow
  <2>3. /\ Snapshot(Charges, sums, Bound[c], u, bill[c].asked)
        /\ bill[c].asked <= tick /\ tick <= bill[c].asked + Way
    BY <2>1 DEF BudgetInv, LoadsSound, TimesAgree
  <2>4. AskedAt(c) \in 0 .. tick /\ AskedAt(c) <= AskedAt(c) /\ tick < AskedAt(c) + Lag
    BY <1>t, <1>l, <2>1, <2>2, <2>3
  <2> HIDE DEF u
  <2> QED
    BY <1>1, <2>1, <2>2, <2>3, <2>4
<1>9. PICK d \in Billed : Check(d) \/ FillEntry(d)
  BY <1>3, <1>4, <1>5, <1>6 DEF BudgetNext
<1>10. d = c
  BY <1>1, <1>2, <1>9 DEF FillEntry
<1> QED
  BY <1>7, <1>8, <1>9, <1>10

(* Who is refused was held to a budget that is full, and who is let in to  *)
(* none that had long been: the budget gate of the router.                 *)
THEOREM BudgetAlwaysHolds == BudgetSpec => BudgetHolds
<1>1. ASSUME BudgetInv, [BudgetNext]_budgetVars, NEW c \in Billed
      PROVE  /\ bill[c].pc # "refused" /\ bill'[c].pc = "refused" =>
                  \E held \in HeldTo(c) : Spent(held, AskedAt(c), tick) >= held.limit
             /\ bill[c].pc # "served" /\ bill'[c].pc = "served" =>
                  \A held \in HeldTo(c) :
                    tick >= Lag => Spent(held, AskedAt(c), tick - Lag) < held.limit
  <2>0. \A held : held \in HeldTo(c) <=> held \in Binding(c) /\ held.enforce
    BY NearestBinds
  <2>t. tick \in Nat /\ Lag \in Nat /\ Lag # 0 /\ Bound[c] = Binding(c)
    <3>1. tick \in 0 .. LastTick
      BY <1>1 DEF BudgetInv, BudgetTyped
    <3> QED
      BY <3>1, BudgetAssumption DEF Lag, Bound
  <2>1. ASSUME bill[c].pc # "refused", bill'[c].pc = "refused"
        PROVE  \E held \in HeldTo(c) : Spent(held, AskedAt(c), tick) >= held.limit
    <3>1. PICK u \in Reads, a \in 0 .. tick :
            /\ AskedAt(c) \in 0 .. tick /\ Snapshot(Charges, sums, Bound[c], u, a)
            /\ \E held \in Binding(c) : held.enforce /\ Used(u, held, AskedAt(c)) >= held.limit
      BY <1>1, <2>1, Decided
    <3>2. PICK held \in Binding(c) : held.enforce /\ Used(u, held, AskedAt(c)) >= held.limit
      BY <3>1
    <3>3. \A b \in DOMAIN u : u[b] <= sums[b]
      BY <3>1 DEF Snapshot
    <3>4. Spent(held, AskedAt(c), tick) >= held.limit
      BY <1>1, <3>1, <3>2, <3>3, RefusedRightly
    <3> QED
      BY <2>0, <3>2, <3>4
  <2>2. ASSUME bill[c].pc # "served", bill'[c].pc = "served", NEW held \in HeldTo(c), tick >= Lag
        PROVE  Spent(held, AskedAt(c), tick - Lag) < held.limit
    <3>1. PICK u \in Reads, a \in 0 .. tick :
            /\ AskedAt(c) \in 0 .. tick /\ a <= AskedAt(c) /\ tick < a + Lag
            /\ Snapshot(Charges, sums, Bound[c], u, a)
            /\ ~ \E moved \in Binding(c) : moved.enforce /\ Used(u, moved, AskedAt(c)) >= moved.limit
      BY <1>1, <2>2, Decided
    <3>2. held \in Binding(c) /\ ~ (Used(u, held, AskedAt(c)) >= held.limit)
      BY <2>0, <2>2, <3>1
    <3>3. tick - Lag \in 0 .. tick /\ tick - Lag < a
      BY <2>t, <2>2, <3>1
    <3> QED
      BY <1>1, <3>1, <3>2, <3>3, ServedWithin
  <2> QED
    BY <2>1, <2>2
<1>2. BudgetInv /\ [BudgetNext]_budgetVars =>
        [ \A c \in Billed :
            /\ bill[c].pc # "refused" /\ bill'[c].pc = "refused" =>
                 \E held \in HeldTo(c) : Spent(held, AskedAt(c), tick) >= held.limit
            /\ bill[c].pc # "served" /\ bill'[c].pc = "served" =>
                 \A held \in HeldTo(c) :
                   tick >= Lag => Spent(held, AskedAt(c), tick - Lag) < held.limit ]_budgetVars
  BY <1>1
<1> QED
  BY <1>2, BudgetInitInv, BudgetStep, PTL DEF BudgetSpec, BudgetHolds

-----------------------------------------------------------------------------
(* Credentials. *)

(* The call that has counted holds the lock, and its count still holds. *)
CapInv ==
  /\ creator \in [Creators -> {"idle", "locked", "counted", "done"}]
  /\ IsFiniteSet(tokens)
  /\ \A c \in Creators : creator[c] \in {"locked", "counted"} => capLock = c
  /\ \A c \in Creators : creator[c] = "counted" => Cardinality(tokens) < Cap
  /\ TokenCapHolds

CredentialInv == CapInv /\ (scope = "project" => OneEntryPerName)

LEMMA CredentialInitInv == CredentialInit => CredentialInv
<1> SUFFICES ASSUME CredentialInit PROVE CredentialInv
  OBVIOUS
<1>1. IsFiniteSet(tokens) /\ Cardinality(tokens) = 0
  BY FS_EmptySet DEF CredentialInit
<1> QED
  BY <1>1, CredentialAssumption DEF CredentialInit, CredentialInv, CapInv, TokenCapHolds, OneEntryPerName

LEMMA ServiceTokenStep ==
  ASSUME CapInv, ServiceTokenNext
  PROVE  CapInv'
<1> USE CredentialAssumption DEF CapInv, TokenCapHolds
<1>1. ASSUME NEW c \in Creators, LockOwner(c) PROVE CapInv'
  BY <1>1 DEF LockOwner
<1>2. ASSUME NEW c \in Creators, CountTokens(c) PROVE CapInv'
  BY <1>2 DEF CountTokens, EndCreate
<1>3. ASSUME NEW c \in Creators, InsertToken(c) PROVE CapInv'
  <2>1. Cardinality(tokens) \in Nat /\ Cardinality(tokens) < Cap
    BY <1>3, FS_CardinalityType DEF InsertToken
  <2>2. IsFiniteSet(tokens') /\ Cardinality(tokens') <= Cardinality(tokens) + 1 /\ Cardinality(tokens') \in Nat
    <3>1. IsFiniteSet(tokens \cup {c})
          /\ Cardinality(tokens \cup {c}) = IF c \in tokens THEN Cardinality(tokens) ELSE Cardinality(tokens) + 1
      BY FS_AddElement
    <3>2. tokens' = tokens \/ tokens' = tokens \cup {c}
      BY <1>3 DEF InsertToken
    <3> QED
      BY <2>1, <3>1, <3>2
  <2>3. creator' \in [Creators -> {"idle", "locked", "counted", "done"}]
        /\ \A d \in Creators : creator'[d] \notin {"locked", "counted"}
    BY <1>3 DEF InsertToken, EndCreate
  <2> QED
    BY <2>1, <2>2, <2>3
<1>4. ASSUME NEW c \in Creators, RevokeToken(c) PROVE CapInv'
  <2>1. IsFiniteSet(tokens') /\ Cardinality(tokens') <= Cardinality(tokens)
        /\ Cardinality(tokens) \in Nat /\ Cardinality(tokens') \in Nat
    <3>1. IsFiniteSet(tokens \ {c})
          /\ Cardinality(tokens \ {c}) = IF c \in tokens THEN Cardinality(tokens) - 1 ELSE Cardinality(tokens)
      BY FS_RemoveElement
    <3>2. Cardinality(tokens) \in Nat /\ Cardinality(tokens \ {c}) \in Nat
      BY <3>1, FS_CardinalityType
    <3> QED
      BY <1>4, <3>1, <3>2 DEF RevokeToken
  <2> QED
    BY <1>4, <2>1 DEF RevokeToken
<1> QED
  BY <1>1, <1>2, <1>3, <1>4 DEF ServiceTokenNext

LEMMA CredentialStep == CredentialInv /\ [CredentialNext]_credentialVars => CredentialInv'
<1> SUFFICES ASSUME CredentialInv, [CredentialNext]_credentialVars PROVE CredentialInv'
  OBVIOUS
<1> USE DEF CredentialInv
<1>1. CASE ServiceTokenNext
  <2>1. UNCHANGED <<scope, entries>>
    BY <1>1 DEF ServiceTokenNext, LockOwner, CountTokens, InsertToken, RevokeToken, EndCreate, VaultUnchanged
  <2> QED
    BY <1>1, <2>1, ServiceTokenStep DEF OneEntryPerName
<1>2. CASE VaultNext
  <2>1. UNCHANGED <<tokens, capLock, creator, scope>>
    BY <1>2 DEF VaultNext, FindEntry, CountEntries, UpsertEntry, RemoveEntry, StoreStep
  <2>2. scope = "project" => OneEntryPerName'
    BY <1>2 DEF VaultNext, FindEntry, CountEntries, UpsertEntry, RemoveEntry, OneEntryPerName, Named
  <2> QED
    BY <2>1, <2>2 DEF CapInv, TokenCapHolds
<1>3. CASE UNCHANGED credentialVars
  BY <1>3 DEF credentialVars, CapInv, TokenCapHolds, OneEntryPerName
<1> QED
  BY <1>1, <1>2, <1>3 DEF CredentialNext

(* An owner never has more active tokens than the cap, and a project never *)
(* has two entries of one name, however the calls interleave.              *)
THEOREM CredentialsAlwaysSound == CredentialSpec => []CredentialsSound
<1>1. CredentialInv => CredentialsSound
  BY DEF CredentialInv, CapInv, CredentialsSound
<1> QED
  BY <1>1, CredentialInitInv, CredentialStep, PTL DEF CredentialSpec

-----------------------------------------------------------------------------
(* Agent definitions (AgentDefinition). *)

Whom == Patchers \cup OldClients \cup {Nobody}
Values == [Fields -> Whom]
Row == [version: Nat, fields: Values, archived: Nat, drift: SUBSET Fields]

DefinitionTyped ==
  /\ row \in Row
  /\ locked \in Patchers \cup {Nobody}
  /\ client \in [Patchers \cup OldClients -> [pc: {"idle", "read", "locked", "done"}, seen: Nat, copy: Row]]

(* The patch that is past its checks holds the row it read. *)
RowHeld ==
  \A p \in Patchers :
    /\ client[p].pc \in {"read", "locked"} => row.version > 0
    /\ client[p].pc = "locked" => /\ locked = p /\ client[p].copy = row
                                  /\ client[p].seen = row.version /\ row.archived = 0

(* A version after the first is by a patch that has read the one before. *)
Authors ==
  \A n \in DOMAIN versions : n # 1 =>
    /\ versions[n].by \in Patchers
    /\ client[versions[n].by].pc = "done" /\ client[versions[n].by].seen = n - 1

(* Only the older API changes a field without a version. *)
Drifted == \A f \in row.drift : row.fields[f] \in OldClients

DefinitionInv == DefinitionTyped /\ RowHeld /\ Authors /\ Drifted /\ HistorySound

LEMMA DefinitionInitInv == DefinitionInit => DefinitionInv
<1> SUFFICES ASSUME DefinitionInit PROVE DefinitionInv
  OBVIOUS
<1> USE DEF DefinitionInit, NoRow, Blank
<1>1. DefinitionTyped
  BY DEF DefinitionTyped, Row, Values, Whom
<1>2. RowHeld /\ Authors /\ Drifted
  BY DEF RowHeld, Authors, Drifted
<1>3. HistorySound
  <2>1. DOMAIN versions = {} /\ row.version = 0 /\ row.archived = 0 /\ 1 .. 0 = {}
    OBVIOUS
  <2> QED
    BY <2>1 DEF HistorySound, NoLostPatch, HistoryComplete
<1> QED
  BY <1>1, <1>2, <1>3 DEF DefinitionInv

(* A step that leaves the history and the version alone, changes fields    *)
(* only as the older API does, and clients that saved nothing.             *)
LEMMA HistoryStays ==
  ASSUME DefinitionInv, DefinitionTyped', versions' = versions,
         row'.version = row.version,
         row'.archived = row.archived \/ (row.archived = 0 /\ row'.archived = row.version),
         row.drift \subseteq row'.drift,
         \A f \in Fields \ row'.drift : row'.fields[f] = row.fields[f],
         \A p \in Patchers : client[p].pc = "done" => client'[p].pc = "done" /\ client'[p].seen = client[p].seen
  PROVE  Authors' /\ HistorySound'
<1> USE DEF DefinitionInv, HistorySound
<1>1. Authors'
  BY DEF Authors
<1>2. NoLostPatch'
  <2> SUFFICES ASSUME NEW n \in DOMAIN versions, n - 1 \in DOMAIN versions
               PROVE  /\ client'[versions[n].by].seen = n - 1
                      /\ \A f \in Fields : versions[n].fields[f] # versions[n - 1].fields[f] =>
                           versions[n].fields[f] \in OldClients \cup {versions[n].by}
    BY DEF NoLostPatch
  <2>1. n # 1
    BY DEF HistoryComplete, DefinitionTyped, Row
  <2> QED
    BY <1>1, <2>1 DEF Authors, NoLostPatch
<1>3. HistoryComplete'
  BY DEF HistoryComplete, DefinitionTyped, Row
<1> QED
  BY <1>1, <1>2, <1>3

LEMMA SaveKeeps ==
  ASSUME DefinitionInv, NEW p \in Patchers, NEW f \in Fields, Save(p, f)
  PROVE  DefinitionInv'
<1> USE DEF DefinitionInv
<1> DEFINE v == row.version
           saved == [row.fields EXCEPT ![f] = p]
<1>1. /\ locked = p /\ client[p].copy = row /\ client[p].seen = v /\ v \in Nat /\ v > 0 /\ row.archived = 0
      /\ client[p].pc = "locked"
  BY DEF Save, RowHeld, DefinitionTyped, Row
<1>2. /\ v + 1 \notin DOMAIN versions
      /\ versions' = Version(v + 1, saved, p)
      /\ row' = [row EXCEPT !.fields[f] = p, !.version = v + 1, !.drift = {}]
      /\ locked' = Nobody /\ client' = [client EXCEPT ![p].pc = "done"]
  BY <1>1 DEF Save, Released
<1>3. /\ row'.version = v + 1 /\ row'.fields = saved /\ row'.drift = {} /\ row'.archived = 0
      /\ row' \in Row /\ saved \in Values
  <2>1. saved \in Values
    BY DEF DefinitionTyped, Row, Values, Whom
  <2>2. row'.version = v + 1 /\ row'.fields = saved /\ row'.drift = {} /\ row'.archived = 0
    BY <1>1, <1>2 DEF DefinitionTyped, Row
  <2>3. row' \in Row
    <3>1. row' = [row EXCEPT !.fields = saved, !.version = v + 1, !.drift = {}]
      BY <1>2 DEF DefinitionTyped, Row
    <3>2. row \in Row /\ v + 1 \in Nat /\ {} \in SUBSET Fields
      BY <1>1 DEF DefinitionTyped
    <3> HIDE DEF saved
    <3> QED
      BY <2>1, <3>1, <3>2 DEF Row
  <2> QED
    BY <2>1, <2>2, <2>3
<1>4. /\ DOMAIN versions' = DOMAIN versions \cup {v + 1}
      /\ versions'[v + 1] = [fields |-> saved, by |-> p]
      /\ \A n \in DOMAIN versions : versions'[n] = versions[n]
  BY <1>2 DEF Version
<1>5. /\ \A c \in Patchers \cup OldClients : c # p => client'[c] = client[c]
      /\ client'[p].pc = "done" /\ client'[p].seen = v
  BY <1>1, <1>2 DEF DefinitionTyped
<1>6. DefinitionTyped'
  BY <1>2, <1>3 DEF DefinitionTyped
<1>7. RowHeld' /\ Drifted'
  <2>1. \A q \in Patchers : client'[q].pc # "locked"
    BY <1>1, <1>5 DEF RowHeld
  <2> QED
    BY <1>1, <1>3, <2>1 DEF RowHeld, Drifted
<1>8. DOMAIN versions \subseteq 1 .. v
  BY <1>1 DEF HistorySound, HistoryComplete
<1>9. Authors'
  <2> SUFFICES ASSUME NEW n \in DOMAIN versions', n # 1
               PROVE  /\ versions'[n].by \in Patchers
                      /\ client'[versions'[n].by].pc = "done" /\ client'[versions'[n].by].seen = n - 1
    BY DEF Authors
  <2>1. CASE n = v + 1
    BY <1>1, <1>4, <1>5, <2>1
  <2>2. CASE n \in DOMAIN versions
    BY <1>1, <1>4, <1>5, <2>2 DEF Authors
  <2> QED BY <1>4, <2>1, <2>2
<1>10. NoLostPatch'
  <2> SUFFICES ASSUME NEW n \in DOMAIN versions', n - 1 \in DOMAIN versions'
               PROVE  /\ client'[versions'[n].by].seen = n - 1
                      /\ \A g \in Fields : versions'[n].fields[g] # versions'[n - 1].fields[g] =>
                           versions'[n].fields[g] \in OldClients \cup {versions'[n].by}
    BY DEF NoLostPatch
  <2>1. n # 1 /\ n \in Nat
    BY <1>1, <1>4, <1>8
  <2>2. CASE n = v + 1
    <3>1. n - 1 = v /\ v \in DOMAIN versions /\ versions'[v] = versions[v]
      BY <1>1, <1>4, <2>2
    <3>2. \A g \in Fields \ row.drift : row.fields[g] = versions[v].fields[g]
      BY <3>1 DEF HistorySound, HistoryComplete
    <3>3. \A g \in Fields : g # f => saved[g] = row.fields[g]
      BY DEF DefinitionTyped, Row, Values
    <3>4. saved[f] = p
      BY DEF DefinitionTyped, Row, Values
    <3>5. ASSUME NEW g \in Fields, saved[g] # versions[v].fields[g] PROVE saved[g] \in OldClients \cup {p}
      BY <3>2, <3>3, <3>4, <3>5 DEF Drifted
    <3> QED
      <4>1. versions'[n].by = p /\ versions'[n].fields = saved /\ versions'[n - 1].fields = versions[v].fields
        BY <1>4, <2>2, <3>1
      <4> QED
        BY <1>5, <3>1, <3>5, <4>1
  <2>3. CASE n \in DOMAIN versions
    <3>1. n - 1 \in DOMAIN versions /\ versions'[n] = versions[n] /\ versions'[n - 1] = versions[n - 1]
      BY <1>1, <1>4, <1>8, <2>3
    <3> QED
      BY <1>9, <2>1, <2>3, <3>1 DEF Authors, HistorySound, NoLostPatch
  <2> QED BY <1>4, <2>2, <2>3
<1>11. HistoryComplete'
  <2>1. DOMAIN versions' \in {1 .. v + 1, 2 .. v + 1}
    <3>1. CASE DOMAIN versions = 1 .. v
      BY <1>1, <1>4, <3>1
    <3>2. CASE DOMAIN versions = 2 .. v
      BY <1>1, <1>4, <3>2
    <3> QED
      BY <3>1, <3>2 DEF HistorySound, HistoryComplete
  <2> QED
    BY <1>3, <1>4, <2>1 DEF HistoryComplete
<1> QED
  BY <1>6, <1>7, <1>9, <1>10, <1>11 DEF HistorySound

LEMMA DefinitionStep == DefinitionInv /\ [DefinitionNext]_definitionVars => DefinitionInv'
<1> SUFFICES ASSUME DefinitionInv, [DefinitionNext]_definitionVars PROVE DefinitionInv'
  OBVIOUS
<1> USE DEF DefinitionInv
<1>1. CASE Create \/ CreateWithoutVersion
  <2>1. /\ row.version = 0 /\ row' = FirstRow /\ UNCHANGED <<locked, client>>
        /\ versions' = versions \/ versions' = Version(1, Blank, Nobody)
    BY <1>1 DEF Create, CreateWithoutVersion
  <2>2. FirstRow = [version |-> 1, fields |-> Blank, archived |-> 0, drift |-> {}]
    BY DEF FirstRow, NoRow
  <2>3. DOMAIN versions = {}
    BY <2>1 DEF HistorySound, HistoryComplete
  <2>4. DefinitionTyped'
    BY <2>1, <2>2 DEF DefinitionTyped, Row, Values, Blank, Whom
  <2>5. RowHeld' /\ Drifted'
    BY <2>1, <2>2 DEF RowHeld, Drifted
  <2>6. \/ DOMAIN versions' = {}
        \/ DOMAIN versions' = {1} /\ versions'[1] = [fields |-> Blank, by |-> Nobody]
    BY <2>1, <2>3 DEF Version
  <2>7. Authors' /\ NoLostPatch'
    BY <2>6 DEF Authors, NoLostPatch
  <2>8. HistoryComplete'
    BY <2>1, <2>2, <2>6 DEF HistoryComplete
  <2> QED
    BY <2>4, <2>5, <2>7, <2>8 DEF HistorySound
<1>2. CASE Archive
  <2>1. /\ row' = [row EXCEPT !.archived = row.version] /\ row.archived = 0 /\ locked = Nobody
        /\ UNCHANGED <<versions, locked, client>>
    BY <1>2 DEF Archive, DefinitionTyped, Row
  <2>2. DefinitionTyped'
    BY <2>1 DEF DefinitionTyped, Row
  <2>3. RowHeld' /\ Drifted'
    BY <2>1, ClientsAssumption DEF RowHeld, Drifted, DefinitionTyped, Row
  <2>4. Authors' /\ HistorySound'
    BY <2>1, <2>2, HistoryStays DEF DefinitionTyped, Row
  <2> QED
    BY <2>2, <2>3, <2>4
<1>3. ASSUME NEW p \in Patchers, ReadVersion(p) \/ LockRow(p) \/ Fail(p) PROVE DefinitionInv'
  <2>1. UNCHANGED <<row, versions>>
    BY <1>3 DEF ReadVersion, LockRow, Fail
  <2>2. DefinitionTyped'
    BY <1>3 DEF ReadVersion, LockRow, Fail, Released, DefinitionTyped, Row
  <2>3. RowHeld' /\ Drifted'
    <3>1. CASE ReadVersion(p)
      BY <3>1 DEF ReadVersion, RowHeld, Drifted, DefinitionTyped
    <3>2. CASE LockRow(p)
      <4>1. \A q \in Patchers : client[q].pc # "locked"
        BY <3>2, ClientsAssumption DEF LockRow, RowHeld
      <4>2. \A q \in Patchers : q # p => client'[q].pc # "locked"
        BY <3>2, <4>1 DEF LockRow, DefinitionTyped
      <4>3. client'[p].pc = "locked" => /\ locked' = p /\ client'[p].copy = row
                                        /\ client'[p].seen = row.version /\ row.archived = 0
        BY <3>2 DEF LockRow, MayPatch, DefinitionTyped
      <4>4. row.version > 0
        BY <3>2 DEF LockRow, RowHeld
      <4> QED
        BY <2>1, <4>2, <4>3, <4>4 DEF RowHeld, Drifted
    <3>3. CASE Fail(p)
      BY <3>3 DEF Fail, Released, RowHeld, Drifted, DefinitionTyped
    <3> QED
      BY <1>3, <3>1, <3>2, <3>3
  <2>4. \A q \in Patchers : client[q].pc = "done" => client'[q].pc = "done" /\ client'[q].seen = client[q].seen
    BY <1>3 DEF ReadVersion, LockRow, Fail, Released, DefinitionTyped
  <2>5. Authors' /\ HistorySound'
    BY <2>1, <2>2, <2>4, HistoryStays
  <2> QED
    BY <2>2, <2>3, <2>5
<1>4. ASSUME NEW p \in Patchers, NEW f \in Fields, Save(p, f) PROVE DefinitionInv'
  BY <1>4, SaveKeeps
<1>5. ASSUME NEW c \in OldClients, NEW f \in Fields, EditInPlace(c, f) PROVE DefinitionInv'
  <2>1. /\ row' = [row EXCEPT !.fields[f] = c, !.drift = @ \cup {f}] /\ locked = Nobody
        /\ client' = [client EXCEPT ![c].pc = "done"] /\ UNCHANGED <<versions, locked>>
    BY <1>5 DEF EditInPlace
  <2>2. /\ row'.fields = [row.fields EXCEPT ![f] = c] /\ row'.drift = row.drift \cup {f}
        /\ row'.version = row.version /\ row'.archived = row.archived
    BY <2>1 DEF DefinitionTyped, Row
  <2>3. DefinitionTyped'
    BY <2>1, ZenonT(30) DEF DefinitionTyped, Row, Values, Whom
  <2>4. RowHeld' /\ Drifted'
    BY <2>1, <2>2, ClientsAssumption DEF RowHeld, Drifted, DefinitionTyped, Row, Values
  <2>5. \A q \in Patchers : client[q].pc = "done" => client'[q].pc = "done" /\ client'[q].seen = client[q].seen
    BY <2>1 DEF DefinitionTyped
  <2>6. \A g \in Fields \ row'.drift : row'.fields[g] = row.fields[g]
    BY <2>2 DEF DefinitionTyped, Row, Values
  <2>7. Authors' /\ HistorySound'
    BY <2>1, <2>2, <2>3, <2>5, <2>6, HistoryStays
  <2> QED
    BY <2>3, <2>4, <2>7
<1>6. CASE UNCHANGED definitionVars
  BY <1>6 DEF definitionVars, DefinitionTyped, RowHeld, Authors, Drifted, HistorySound, NoLostPatch, HistoryComplete
<1> QED
  BY <1>1, <1>2, <1>3, <1>4, <1>5, <1>6 DEF DefinitionNext

(* Whatever patches, archives and edits of the older API interleave, no    *)
(* patch overwrites what its author had not read, and the versions are     *)
(* without gaps, up to the current one, and none comes after the archive.  *)
THEOREM HistoryAlwaysSound == DefinitionSpec => []HistorySound
<1>1. DefinitionInv => HistorySound
  BY DEF DefinitionInv
<1> QED
  BY <1>1, DefinitionInitInv, DefinitionStep, PTL DEF DefinitionSpec

-----------------------------------------------------------------------------
(* Tasks (AgentTask). *)

TaskRow == [status: {"active", "cancelled"}, active: {First, NoRun},
            head: Posters \cup {First, NoRun}, version: Versions]
RunRow == [status: {"queued", "active"} \cup Terminal, version: Versions,
           move: {"none", "active"} \cup Terminal, ended: BOOLEAN]
CallerRow == [pc: {"idle", "loaded", "cancel", "mark", "answer", "done"}, row: TaskRow,
              answer: {"none", "refused", "created", "error", "deleted"}]

TaskTyped ==
  /\ task \in TaskRow
  /\ DOMAIN taskRun \subseteq Posters \cup {First}
  /\ taskRun \in [DOMAIN taskRun -> RunRow]
  /\ caller \in [Callers -> CallerRow]
  /\ late \subseteq Posters

(* The first run has ended, if there was one. *)
FirstEnded == First \in DOMAIN taskRun => taskRun[First].ended

(* What the rows say of each other. *)
RowsAgree ==
  /\ task.active = First => First \in DOMAIN taskRun
  /\ task.active = NoRun => FirstEnded
  /\ task.status = "cancelled" => task.active = NoRun
  /\ \A r \in DOMAIN taskRun : /\ taskRun[r].status \in Terminal => taskRun[r].ended
                               /\ taskRun[r].version = task.version

(* What a call knows of the rows at the step it has reached. *)
CallerKnows(c) ==
  /\ caller[c].row.version = task.version
  /\ caller[c].pc = "cancel" => caller[c].row.active = First /\ First \in DOMAIN taskRun
  /\ caller[c].pc = "mark" => FirstEnded
  /\ caller[c].pc = "answer" \/ caller[c].answer = "deleted" => task.status = "cancelled"
  /\ c \in Posters \cap DOMAIN taskRun => caller[c].pc = "done"
  /\ c \in late => caller[c].pc = "done" /\ c \notin DOMAIN taskRun

TaskInv == TaskTyped /\ RowsAgree /\ \A c \in Callers : CallerKnows(c)

LEMMA TaskInitInv == TaskInit => TaskInv
<1> SUFFICES ASSUME TaskInit PROVE TaskInv
  OBVIOUS
<1>1. PICK v \in Versions, run \in {First, NoRun} :
        /\ task = [status |-> "active", active |-> run, head |-> run, version |-> v]
        /\ taskRun = [r \in {run} \ {NoRun} |-> NewRun(v)]
  BY DEF TaskInit
<1>2. caller = [c \in Callers |-> [pc |-> "idle", row |-> task, answer |-> "none"]] /\ late = {}
  BY DEF TaskInit
<1>3. task \in TaskRow
  BY <1>1 DEF TaskRow
<1>4. DOMAIN taskRun \subseteq {First} /\ (run = First => DOMAIN taskRun = {First})
  BY <1>1, RunIdsAssumption
<1>5. TaskTyped
  <2>1. NewRun(v) \in RunRow
    BY DEF NewRun, RunRow
  <2>2. taskRun \in [DOMAIN taskRun -> RunRow]
    BY <1>1, <2>1
  <2>3. caller \in [Callers -> CallerRow]
    BY <1>2, <1>3 DEF CallerRow
  <2> QED
    BY <1>2, <1>3, <1>4, <2>2, <2>3 DEF TaskTyped
<1>6. RowsAgree
  <2>1. run = NoRun => DOMAIN taskRun = {}
    BY <1>1
  <2> QED
    BY <1>1, <1>4, <2>1 DEF RowsAgree, FirstEnded, NewRun, Terminal
<1>7. \A c \in Callers : CallerKnows(c)
  <2> SUFFICES ASSUME NEW c \in Callers PROVE CallerKnows(c)
    OBVIOUS
  <2>1. caller[c] = [pc |-> "idle", row |-> task, answer |-> "none"]
    BY <1>2
  <2>2. c \notin Posters \cap DOMAIN taskRun
    BY <1>4, RunIdsAssumption
  <2> QED
    BY <1>2, <2>1, <2>2 DEF CallerKnows
<1> QED
  BY <1>5, <1>6, <1>7 DEF TaskInv

(* A change of the rows of runs that adds none, forgets no end and leaves   *)
(* a run with a terminal status ended.                                     *)
RunsGoOn ==
  /\ taskRun' \in [DOMAIN taskRun -> RunRow]
  /\ \A r \in DOMAIN taskRun : /\ taskRun'[r].version = taskRun[r].version
                               /\ taskRun[r].ended => taskRun'[r].ended
                               /\ taskRun'[r].status \in Terminal => taskRun'[r].ended

LEMMA RunChanges ==
  ASSUME TaskInv, RunsGoOn, task' = task
  PROVE  RowsAgree' /\ (FirstEnded => FirstEnded')
<1> USE DEF TaskInv
<1>1. DOMAIN taskRun' = DOMAIN taskRun
  BY DEF RunsGoOn
<1>2. FirstEnded => FirstEnded'
  BY <1>1 DEF RunsGoOn, FirstEnded
<1> QED
  BY <1>1, <1>2 DEF RunsGoOn, RowsAgree

LEMMA StatusWritten ==
  ASSUME TaskTyped, NEW r \in DOMAIN taskRun, NEW status \in {"queued", "active"} \cup Terminal
  PROVE  /\ WithStatus(r, status) \in [DOMAIN taskRun -> RunRow]
         /\ \A q \in DOMAIN taskRun : q # r => WithStatus(r, status)[q] = taskRun[q]
         /\ WithStatus(r, status)[r].status = status
         /\ WithStatus(r, status)[r].version = taskRun[r].version
         /\ taskRun[r].ended \/ status \in Terminal => WithStatus(r, status)[r].ended
<1>1. taskRun[r] \in RunRow
  BY DEF TaskTyped
<1>2. WithStatus(r, status)[r] =
        [status |-> status, version |-> taskRun[r].version, move |-> "none",
         ended |-> taskRun[r].ended \/ status \in Terminal]
  BY <1>1 DEF WithStatus, TaskTyped, RunRow
<1>3. \A q \in DOMAIN taskRun : q # r => WithStatus(r, status)[q] = taskRun[q]
  BY DEF WithStatus, TaskTyped
<1>4. WithStatus(r, status)[r] \in RunRow
  BY <1>1, <1>2 DEF RunRow
<1>5. WithStatus(r, status) \in [DOMAIN taskRun -> RunRow]
  <2>1. WithStatus(r, status) = [q \in DOMAIN taskRun |-> WithStatus(r, status)[q]]
    BY DEF WithStatus, TaskTyped
  <2> QED
    BY <1>3, <1>4, <2>1 DEF TaskTyped
<1>6. taskRun[r].ended \/ status \in Terminal => WithStatus(r, status)[r].ended
  <2>1. WithStatus(r, status)[r].ended = (taskRun[r].ended \/ status \in Terminal)
    <3> DEFINE over == taskRun[r].ended \/ status \in Terminal
    <3>1. WithStatus(r, status) = [taskRun EXCEPT ![r].status = status, ![r].move = "none", ![r].ended = over]
      BY DEF WithStatus
    <3>2. over \in BOOLEAN
      OBVIOUS
    <3> HIDE DEF over
    <3>3. WithStatus(r, status)[r].ended = over
      BY <1>1, <3>1, <3>2 DEF TaskTyped, RunRow
    <3> QED
      BY <3>3 DEF over
  <2> QED
    BY <2>1, Zenon
<1> QED
  BY <1>2, <1>3, <1>5, <1>6

LEMMA WrittenGoesOn ==
  ASSUME TaskInv, NEW r \in DOMAIN taskRun, NEW status \in {"queued", "active"} \cup Terminal,
         taskRun' = WithStatus(r, status)
  PROVE  RunsGoOn
<1>1. \A q \in DOMAIN taskRun : taskRun[q].status \in Terminal => taskRun[q].ended
  BY DEF TaskInv, RowsAgree
<1>2. TaskTyped /\ taskRun[r] \in RunRow
  BY DEF TaskInv, TaskTyped
<1>3. /\ taskRun' \in [DOMAIN taskRun -> RunRow]
      /\ \A q \in DOMAIN taskRun : q # r => taskRun'[q] = taskRun[q]
      /\ taskRun'[r].status = status /\ taskRun'[r].version = taskRun[r].version
      /\ taskRun[r].ended \/ status \in Terminal => taskRun'[r].ended
  BY <1>2, StatusWritten
<1> QED
  BY <1>1, <1>2, <1>3 DEF RunsGoOn

LEMMA CancelledGoesOn ==
  ASSUME TaskInv, NEW r \in DOMAIN taskRun, taskRun' = Cancelled(r)
  PROVE  RunsGoOn /\ taskRun'[r].ended
<1> DEFINE W == WithStatus(r, "failed")
<1>1. "failed" \in {"queued", "active"} \cup Terminal
  BY DEF Terminal
<1>2. /\ W \in [DOMAIN taskRun -> RunRow]
      /\ \A q \in DOMAIN taskRun : q # r => W[q] = taskRun[q]
      /\ W[r].version = taskRun[r].version /\ W[r].ended /\ W[r] \in RunRow
  <2>1. "failed" \in Terminal
    BY DEF Terminal
  <2> QED
    <3>1. TaskTyped /\ taskRun[r] \in RunRow
      BY DEF TaskInv, TaskTyped
    <3>2. /\ W \in [DOMAIN taskRun -> RunRow]
          /\ \A q \in DOMAIN taskRun : q # r => W[q] = taskRun[q]
          /\ W[r].version = taskRun[r].version
          /\ taskRun[r].ended \/ "failed" \in Terminal => W[r].ended
      BY <1>1, <3>1, StatusWritten
    <3> HIDE DEF W
    <3> QED
      BY <2>1, <3>2
<1>3. taskRun' = [W EXCEPT ![r].move = taskRun[r].move]
  BY DEF Cancelled
<1>4. taskRun[r].move \in {"none", "active"} \cup Terminal
  BY DEF TaskInv, TaskTyped, RunRow
<1> HIDE DEF W
<1>5. /\ taskRun'[r] \in RunRow /\ taskRun'[r].version = W[r].version /\ taskRun'[r].ended
      /\ \A q \in DOMAIN taskRun : q # r => taskRun'[q] = W[q]
      /\ taskRun' = [q \in DOMAIN taskRun |-> taskRun'[q]]
  <2>1. taskRun'[r] = [W[r] EXCEPT !.move = taskRun[r].move]
    BY <1>2, <1>3
  <2>2. taskRun'[r] \in RunRow /\ taskRun'[r].version = W[r].version /\ taskRun'[r].ended
    BY <1>2, <1>4, <2>1 DEF RunRow
  <2> QED
    BY <1>2, <1>3, <2>2
<1>6. \A q \in DOMAIN taskRun : taskRun[q].status \in Terminal => taskRun[q].ended
  BY DEF TaskInv, RowsAgree
<1> QED
  BY <1>2, <1>5, <1>6 DEF RunsGoOn

LEMMA TaskStep == TaskInv /\ [TaskNext]_taskVars => TaskInv'
<1> SUFFICES ASSUME TaskInv, [TaskNext]_taskVars PROVE TaskInv'
  OBVIOUS
<1> USE DEF TaskInv
<1>1. ASSUME NEW p \in Posters, LoadForPost(p) PROVE TaskInv'
  <2>1. p \in Callers /\ caller[p].pc = "idle" /\ task' = task /\ taskRun' = taskRun
    BY <1>1 DEF LoadForPost, Callers
  <2>2. /\ \A c \in Callers : c # p => caller'[c] = caller[c]
        /\ caller'[p].row.version = task.version
        /\ IF task.status = "cancelled" THEN caller'[p].pc = "done" /\ caller'[p].answer = "refused"
             ELSE caller'[p].pc = "loaded" /\ caller'[p].answer = caller[p].answer
        /\ caller' \in [Callers -> CallerRow]
    BY <1>1, <2>1 DEF LoadForPost, Answer, TaskTyped, CallerRow, CallerKnows
  <2>3. Deleted => task.status = "cancelled"
    BY DEF Deleted, CallerKnows, Callers
  <2>4. late' \subseteq late \cup {p} /\ late \subseteq late' /\ (p \in late' \ late => task.status = "cancelled")
    BY <1>1, <2>3 DEF LoadForPost
  <2>5. TaskTyped' /\ RowsAgree'
    BY <2>1, <2>2, <2>4 DEF TaskTyped, RowsAgree, FirstEnded
  <2>6. CallerKnows(p)'
    BY <2>1, <2>2, <2>4 DEF CallerKnows
  <2>7. \A c \in Callers : c # p => CallerKnows(c)'
    BY <2>1, <2>2, <2>4 DEF CallerKnows, FirstEnded
  <2> QED
    BY <2>5, <2>6, <2>7
<1>2. ASSUME NEW p \in Posters, PostRun(p) PROVE TaskInv'
  <2>1. p \in Callers /\ caller[p].pc = "loaded" /\ task' = task /\ late' = late /\ p \notin late
    BY <1>2 DEF PostRun, Callers, CallerKnows
  <2>2. /\ \A c \in Callers : c # p => caller'[c] = caller[c]
        /\ caller'[p].row = caller[p].row /\ caller'[p].pc = "done" /\ caller'[p].answer = "created"
        /\ caller' \in [Callers -> CallerRow]
    BY <1>2, <2>1 DEF PostRun, Answer, TaskTyped, CallerRow
  <2> DEFINE v == caller[p].row.version
  <2>3. v = task.version /\ p \notin DOMAIN taskRun /\ p # First /\ v \in Versions
    BY <2>1, RunIdsAssumption DEF CallerKnows, TaskTyped, TaskRow
  <2>4. /\ taskRun' = [r \in DOMAIN taskRun \cup {p} |-> IF r = p THEN NewRun(v) ELSE taskRun[r]]
        /\ NewRun(v) \in RunRow /\ NewRun(v).version = v /\ NewRun(v).status \notin Terminal
    BY <1>2, <2>3 DEF PostRun, WithRun, NewRun, RunRow, Terminal
  <2>5. /\ DOMAIN taskRun' = DOMAIN taskRun \cup {p} /\ taskRun'[p] = NewRun(v)
        /\ \A r \in DOMAIN taskRun : taskRun'[r] = taskRun[r]
        /\ taskRun' \in [DOMAIN taskRun' -> RunRow]
    BY <2>3, <2>4 DEF TaskTyped
  <2>6. TaskTyped'
    BY <2>1, <2>2, <2>5 DEF TaskTyped
  <2>7. FirstEnded' <=> FirstEnded
    BY <2>3, <2>5 DEF FirstEnded
  <2>8. RowsAgree'
    BY <2>1, <2>3, <2>4, <2>5, <2>7 DEF RowsAgree
  <2>9. ASSUME NEW c \in Callers PROVE CallerKnows(c)'
    <3>1. CASE c = p
      BY <2>1, <2>2, <2>3, <3>1 DEF CallerKnows
    <3>2. CASE c # p
      BY <2>1, <2>2, <2>5, <2>7, <3>2 DEF CallerKnows
    <3> QED
      BY <3>1, <3>2
  <2> QED
    BY <2>6, <2>8, <2>9
<1>3. ASSUME NEW d \in Deleters, LoadForDelete(d) PROVE TaskInv'
  <2>1. d \in Callers /\ caller[d].pc = "idle" /\ task' = task /\ taskRun' = taskRun /\ late' = late
    BY <1>3 DEF LoadForDelete, Callers
  <2>2. /\ \A c \in Callers : c # d => caller'[c] = caller[c]
        /\ caller'[d].row = task /\ caller'[d].answer = caller[d].answer
        /\ \/ caller'[d].pc = "answer" /\ task.status = "cancelled"
           \/ caller'[d].pc = "mark" /\ task.active = NoRun
           \/ caller'[d].pc = "cancel" /\ task.active = First
        /\ caller' \in [Callers -> CallerRow]
    <3> DEFINE next == IF task.status = "cancelled" THEN "answer"
                       ELSE IF task.active = NoRun THEN "mark" ELSE "cancel"
    <3>1. \/ next = "answer" /\ task.status = "cancelled"
          \/ next = "mark" /\ task.active = NoRun
          \/ next = "cancel" /\ task.active = First
      <4>1. task.active \in {First, NoRun} /\ (task.status = "cancelled" => task.active = NoRun)
        BY DEF TaskTyped, TaskRow, RowsAgree
      <4> QED
        BY <4>1
    <3>2. caller' = [caller EXCEPT ![d].pc = next, ![d].row = task]
      BY <1>3 DEF LoadForDelete
    <3> HIDE DEF next
    <3> QED
      BY <2>1, <3>1, <3>2 DEF TaskTyped, CallerRow
  <2>3. TaskTyped' /\ RowsAgree'
    BY <2>1, <2>2 DEF TaskTyped, RowsAgree, FirstEnded
  <2>4. CallerKnows(d)'
    BY <2>1, <2>2 DEF CallerKnows, RowsAgree, FirstEnded
  <2>5. \A c \in Callers : c # d => CallerKnows(c)'
    BY <2>1, <2>2 DEF CallerKnows, FirstEnded
  <2> QED
    BY <2>3, <2>4, <2>5
<1>4. ASSUME NEW d \in Deleters, CancelActive(d) PROVE TaskInv'
  <2> DEFINE r == caller[d].row.active
  <2>1. /\ d \in Callers /\ caller[d].pc = "cancel" /\ task' = task /\ late' = late
        /\ r = First /\ First \in DOMAIN taskRun
    BY <1>4 DEF CancelActive, Callers, CallerKnows
  <2>2. /\ \A c \in Callers : c # d => caller'[c] = caller[c]
        /\ caller'[d].row = caller[d].row
        /\ \/ caller'[d].pc = "mark" /\ caller'[d].answer = caller[d].answer
           \/ caller'[d].pc = "done" /\ caller'[d].answer = "error"
        /\ caller' \in [Callers -> CallerRow]
    BY <1>4, <2>1 DEF CancelActive, Answer, TaskTyped, CallerRow
  <2>3. /\ taskRun' = taskRun \/ taskRun' = Cancelled(First)
        /\ caller'[d].pc = "mark" /\ taskRun' = taskRun => taskRun[First].status \in Terminal
    <3>1. CASE caller' = [caller EXCEPT ![d].pc = "mark"] /\
               taskRun' = IF taskRun[r].status \in Terminal THEN taskRun ELSE Cancelled(r)
      <4>1. CASE taskRun[First].status \in Terminal
        BY <2>1, <3>1, <4>1
      <4>2. CASE taskRun[First].status \notin Terminal
        <5>1. taskRun' = Cancelled(First)
          BY <2>1, <3>1, <4>2
        <5>2. taskRun'[First].ended /\ taskRun'[First].status = "failed"
          <6>1. "failed" \in {"queued", "active"} \cup Terminal
            BY DEF Terminal
          <6>2. WithStatus(First, "failed")[First].status = "failed"
            <7>1. TaskTyped /\ First \in DOMAIN taskRun
              BY <2>1
            <7>2. WithStatus(First, "failed")[First].status = "failed"
              BY <6>1, <7>1, StatusWritten
            <7> QED
              BY <7>2
          <6>3. taskRun'[First].status = "failed"
            BY <2>1, <5>1, <6>2, <6>1, StatusWritten DEF Cancelled
          <6> QED
            BY <2>1, <5>1, <6>3, CancelledGoesOn
        <5>3. taskRun' # taskRun
          BY <4>2, <5>2 DEF Terminal
        <5> QED
          BY <5>1, <5>3
      <4> QED
        BY <4>1, <4>2
    <3>2. CASE taskRun' \in {taskRun, Cancelled(r)} /\ Answer(d, "error")
      BY <2>1, <3>2 DEF Answer, TaskTyped, CallerRow
    <3> QED
      BY <1>4, <3>1, <3>2 DEF CancelActive
  <2>4. RunsGoOn
    <3>1. CASE taskRun' = taskRun
      BY <3>1 DEF RunsGoOn, RowsAgree, TaskTyped
    <3> QED
      BY <2>1, <2>3, <3>1, CancelledGoesOn
  <2>5. RowsAgree' /\ (FirstEnded => FirstEnded') /\ DOMAIN taskRun' = DOMAIN taskRun
    BY <2>1, <2>4, RunChanges DEF RunsGoOn
  <2>6. caller'[d].pc = "mark" => FirstEnded'
    BY <2>1, <2>3, CancelledGoesOn DEF FirstEnded, RowsAgree
  <2>7. TaskTyped'
    BY <2>1, <2>2, <2>4, <2>5 DEF TaskTyped, RunsGoOn
  <2>8. CallerKnows(d)'
    BY <2>1, <2>2, <2>5, <2>6 DEF CallerKnows
  <2>9. \A c \in Callers : c # d => CallerKnows(c)'
    BY <2>1, <2>2, <2>5 DEF CallerKnows
  <2> QED
    BY <2>5, <2>7, <2>8, <2>9
<1>5. ASSUME NEW d \in Deleters, MarkCancelled(d) PROVE TaskInv'
  <2> DEFINE marked == [task EXCEPT !.status = "cancelled", !.active = NoRun]
  <2>1. d \in Callers /\ caller[d].pc = "mark" /\ taskRun' = taskRun /\ late' = late /\ FirstEnded
    BY <1>5 DEF MarkCancelled, Callers, CallerKnows
  <2>2. /\ marked \in TaskRow /\ marked.version = task.version
        /\ marked.status = "cancelled" /\ marked.active = NoRun
    BY DEF TaskTyped, TaskRow
  <2>3. task' = task \/ task' = marked
    BY <1>5 DEF MarkCancelled
  <2>4. /\ \A c \in Callers : c # d => caller'[c] = caller[c]
        /\ caller'[d].row = caller[d].row
        /\ \/ caller'[d].pc = "answer" /\ task' = marked
           \/ caller'[d].pc = "done" /\ caller'[d].answer = "error"
        /\ caller' \in [Callers -> CallerRow]
    BY <1>5, <2>1 DEF MarkCancelled, Answer, TaskTyped, CallerRow
  <2> HIDE DEF marked
  <2>5. /\ task' \in TaskRow /\ task'.version = task.version
        /\ task.status = "cancelled" => task'.status = "cancelled"
    BY <2>2, <2>3 DEF TaskTyped
  <2>6. TaskTyped'
    BY <2>1, <2>4, <2>5 DEF TaskTyped
  <2>7. FirstEnded'
    BY <2>1 DEF FirstEnded
  <2>8. RowsAgree'
    BY <2>1, <2>2, <2>3, <2>7, RunIdsAssumption DEF RowsAgree
  <2>9. CallerKnows(d)'
    BY <2>1, <2>2, <2>4, <2>5 DEF CallerKnows
  <2>10. \A c \in Callers : c # d => CallerKnows(c)'
    BY <2>1, <2>4, <2>5, <2>7 DEF CallerKnows
  <2> QED
    BY <2>6, <2>8, <2>9, <2>10
<1>6. ASSUME NEW d \in Deleters, AnswerDelete(d) PROVE TaskInv'
  <2>1. d \in Callers /\ caller[d].pc = "answer" /\ task' = task /\ taskRun' = taskRun /\ late' = late
    BY <1>6 DEF AnswerDelete, Callers
  <2>2. /\ \A c \in Callers : c # d => caller'[c] = caller[c]
        /\ caller'[d].row = caller[d].row /\ caller'[d].pc = "done"
        /\ caller' \in [Callers -> CallerRow]
    BY <1>6, <2>1 DEF AnswerDelete, Answer, TaskTyped, CallerRow
  <2>3. TaskTyped' /\ RowsAgree'
    BY <2>1, <2>2 DEF TaskTyped, RowsAgree, FirstEnded
  <2>4. CallerKnows(d)' /\ \A c \in Callers : c # d => CallerKnows(c)'
    BY <2>1, <2>2 DEF CallerKnows, FirstEnded
  <2> QED
    BY <2>3, <2>4
<1>7. ASSUME RunsGoOn, UNCHANGED <<task, caller, late>> PROVE TaskInv'
  <2>1. RowsAgree' /\ (FirstEnded => FirstEnded') /\ DOMAIN taskRun' = DOMAIN taskRun
    BY <1>7, RunChanges DEF RunsGoOn
  <2>2. TaskTyped'
    BY <1>7, <2>1 DEF TaskTyped, RunsGoOn
  <2>3. \A c \in Callers : CallerKnows(c)'
    BY <1>7, <2>1 DEF CallerKnows
  <2> QED
    BY <2>1, <2>2, <2>3
<1>8. ASSUME NEW r \in DOMAIN taskRun, RunChecked(r) PROVE TaskInv'
  <2>1. PICK status \in {"active"} \cup Terminal : taskRun' = [taskRun EXCEPT ![r].move = status]
    BY <1>8 DEF RunChecked, Terminal
  <2>2. \A q \in DOMAIN taskRun : taskRun[q].status \in Terminal => taskRun[q].ended
    BY DEF RowsAgree
  <2>3. taskRun'[r] = [taskRun[r] EXCEPT !.move = status] /\ taskRun[r] \in RunRow
    BY <2>1 DEF TaskTyped
  <2>4. /\ taskRun'[r] \in RunRow /\ taskRun'[r].version = taskRun[r].version
        /\ taskRun'[r].status = taskRun[r].status /\ taskRun'[r].ended = taskRun[r].ended
    BY <2>3 DEF RunRow
  <2>5. RunsGoOn
    BY <2>1, <2>2, <2>4 DEF RunsGoOn, TaskTyped
  <2> QED
    BY <1>7, <1>8, <2>5 DEF RunChecked
<1>9. ASSUME NEW r \in DOMAIN taskRun, RunWritten(r) PROVE TaskInv'
  <2>1. taskRun[r].move \in {"queued", "active"} \cup Terminal
    BY <1>9 DEF RunWritten, TaskTyped, RunRow
  <2>2. RunsGoOn
    BY <1>9, <2>1, WrittenGoesOn DEF RunWritten
  <2> QED
    BY <1>7, <1>9, <2>2 DEF RunWritten
<1>10. ASSUME NEW r \in DOMAIN taskRun, ReleaseTask(r) PROVE TaskInv'
  <2>1. /\ taskRun' = taskRun /\ caller' = caller /\ late' = late
        /\ task.active = r /\ taskRun[r].ended
    BY <1>10 DEF ReleaseTask, RowsAgree
  <2>2. /\ task'.active = NoRun /\ task'.status = task.status /\ task'.version = task.version
        /\ task' \in TaskRow
    BY <1>10, <2>1 DEF ReleaseTask, TaskTyped, TaskRow
  <2>3. FirstEnded' /\ (FirstEnded' <=> FirstEnded)
    BY <2>1 DEF FirstEnded, RowsAgree, TaskTyped, TaskRow
  <2>4. TaskTyped'
    BY <2>1, <2>2 DEF TaskTyped
  <2>5. RowsAgree'
    BY <2>1, <2>2, <2>3, RunIdsAssumption DEF RowsAgree
  <2>6. \A c \in Callers : CallerKnows(c)'
    BY <2>1, <2>2, <2>3 DEF CallerKnows
  <2> QED
    BY <2>4, <2>5, <2>6
<1>11. CASE UNCHANGED taskVars
  BY <1>11 DEF taskVars, TaskTyped, RowsAgree, FirstEnded, CallerKnows
<1> QED
  BY <1>1, <1>2, <1>3, <1>4, <1>5, <1>6, <1>8, <1>9, <1>10, <1>11 DEF TaskNext

(* The guarantee of DELETE /api/v1/agents/:id.                             *)
THEOREM AgentsCancelledForGood == TaskSpec => []CancelledForGood
<1>1. TaskInv => CancelledForGood
  <2> SUFFICES ASSUME TaskInv PROVE CancelledForGood
    OBVIOUS
  <2>1. Deleted => task.status = "cancelled"
    BY DEF TaskInv, Deleted, CallerKnows, Callers
  <2>2. late \cap DOMAIN taskRun = {}
    BY DEF TaskInv, TaskTyped, CallerKnows, Callers
  <2> QED
    BY <2>1, <2>2 DEF TaskInv, RowsAgree, FirstEnded, CancelledForGood
<1> QED
  BY <1>1, TaskInitInv, TaskStep, PTL DEF TaskSpec

-----------------------------------------------------------------------------
(* Current agent, members, stars (ProjectAgents, Members, Stars). *)

SetterRow == [pc: {"idle", "begin", "found", "unset", "written", "done"}, agent: Agents \cup {NoAgent}, found: SUBSET Agents]

(* At most one transaction has written a current row, and no other         *)
(* committed row is current beside those it wrote.                         *)
SetterInv ==
  /\ setter \in [Setters -> SetterRow]
  /\ \A s \in Setters : WroteCurrent(s) =>
       /\ Rivals(s) = {}
       /\ \A t \in Setters : WroteCurrent(t) => t = s
  /\ CurrentIsLastSet

LEMMA SetterInit == ProjectInit => SetterInv
<1> SUFFICES ASSUME ProjectInit PROVE SetterInv
  OBVIOUS
<1>1. setter \in [Setters -> SetterRow] /\ \A s \in Setters : setter[s].pc = "idle"
  BY DEF ProjectInit, SetterRow
<1>2. last = NoAgent
  BY DEF ProjectInit
<1> QED
  BY <1>1, <1>2 DEF SetterInv, WroteCurrent, Written, InStep, CurrentIsLastSet

LEMMA SetterStep == SetterInv /\ [ProjectNext]_projectVars => SetterInv'
<1> SUFFICES ASSUME SetterInv, [ProjectNext]_projectVars PROVE SetterInv'
  OBVIOUS
<1> USE DEF SetterInv, WroteCurrent, Written, InStep
(* Whatever does not commit and leaves the rows of the others alone. *)
<1>1. ASSUME NEW s \in Setters, binding' = binding, last' = last, setter' \in [Setters -> SetterRow],
             \A t \in Setters : t # s => setter'[t] = setter[t],
             setter'[s].pc = "written" /\ setter'[s].agent # NoAgent =>
               /\ Rivals(s)' = {}
               /\ \A t \in Setters : t # s => ~ WroteCurrent(t)
      PROVE  SetterInv'
  <2>1. \A t \in Setters : t # s => (WroteCurrent(t)' <=> WroteCurrent(t)) /\ Rivals(t)' = Rivals(t)
    BY <1>1 DEF Rivals, Current
  <2>2. CurrentIsLastSet'
    BY <1>1 DEF CurrentIsLastSet, Current
  <2> QED
    BY <1>1, <2>1, <2>2
<1>2. ASSUME NEW s \in Setters, NEW a \in Agents \cup {NoAgent}, InStep(s, "idle"), BeginsSet(s, a)
      PROVE  SetterInv'
  <2>1. /\ setter' \in [Setters -> SetterRow] /\ setter'[s].pc # "written"
        /\ \A t \in Setters : t # s => setter'[t] = setter[t]
    BY <1>2 DEF BeginsSet, SetterRow
  <2> QED
    BY <1>1, <1>2, <2>1 DEF BeginsSet
<1>3. ASSUME NEW s \in Setters, FindRows(s) \/ AbortSet(s) PROVE SetterInv'
  <2>1. /\ setter' \in [Setters -> SetterRow] /\ setter'[s].pc # "written"
        /\ \A t \in Setters : t # s => setter'[t] = setter[t]
    BY <1>3 DEF FindRows, AbortSet, SetterRow
  <2> QED
    BY <1>1, <1>3, <2>1 DEF FindRows, AbortSet
<1>4. ASSUME NEW s \in Setters, UnsetRows(s) PROVE SetterInv'
  <2>1. setter' \in [Setters -> SetterRow]
    BY <1>4 DEF UnsetRows, SetterRow
  <2>2. /\ setter'[s].agent = setter[s].agent /\ (setter'[s].pc = "written" => setter[s].agent = NoAgent)
        /\ \A t \in Setters : t # s => setter'[t] = setter[t]
    BY <1>4 DEF UnsetRows, SetterRow
  <2> QED
    BY <1>1, <1>4, <2>1, <2>2 DEF UnsetRows
<1>5. ASSUME NEW s \in Setters, WriteCurrent(s) PROVE SetterInv'
  <2>1. Rivals(s)' = {} /\ \A t \in Setters : t # s => ~ WroteCurrent(t)
    BY <1>5 DEF WriteCurrent, Rivals, Current, Others
  <2> QED
    BY <1>1, <1>5, <2>1 DEF WriteCurrent, SetterRow
<1>6. ASSUME NEW s \in Setters, CommitSet(s) PROVE SetterInv'
  <2>1. /\ Written(s) /\ last' = setter[s].agent /\ setter' \in [Setters -> SetterRow]
        /\ setter'[s].pc = "done"
        /\ \A t \in Setters : t # s => setter'[t] = setter[t]
        /\ \A a \in Agents : binding'[a] = "on" <=>
             a = setter[s].agent \/ (a \notin setter[s].found /\ binding[a] = "on")
    BY <1>6 DEF CommitSet, SetterRow
  <2>2. CASE setter[s].agent = NoAgent
    <3>1. Current' \subseteq Current
      BY <2>1, <2>2, NoAgentAssumption DEF Current
    <3>2. \A t \in Setters : WroteCurrent(t)' => WroteCurrent(t) /\ Rivals(t)' \subseteq Rivals(t)
      BY <2>1, <3>1 DEF Rivals
    <3> QED
      BY <2>1, <2>2, <3>2 DEF CurrentIsLastSet
  <2>3. CASE setter[s].agent # NoAgent
    <3>1. WroteCurrent(s) /\ Rivals(s) = {}
      BY <2>1, <2>3
    <3>2. \A t \in Setters : ~ WroteCurrent(t)'
      BY <2>1, <3>1
    <3>3. Current' \subseteq {setter[s].agent}
      BY <2>1, <3>1 DEF Rivals, Current
    <3>4. Current' = {setter[s].agent}
      BY <2>1, <2>3, <3>3 DEF Current, SetterRow
    <3> QED
      BY <2>1, <3>2, <3>4 DEF CurrentIsLastSet
  <2> QED
    BY <2>2, <2>3
<1>7. CASE UNCHANGED projectVars
  BY <1>7 DEF projectVars, Rivals, Current, CurrentIsLastSet
<1>8. ASSUME NEW s \in Setters, NEW a \in Agents,
             SetCurrent(s, a) \/ SetIfNone(s, a) \/ \E b \in Agents \cup {NoAgent} : Rebind(s, a, b)
      PROVE  SetterInv'
  BY <1>2, <1>8 DEF SetCurrent, SetIfNone, Rebind
<1>9. ASSUME NEW s \in Setters, ClearCurrent(s) PROVE SetterInv'
  BY <1>2, <1>9 DEF ClearCurrent
<1> QED
  BY <1>3, <1>4, <1>5, <1>6, <1>7, <1>8, <1>9 DEF ProjectNext

(* A PUT that was answered with success stays what the project shows.      *)
THEOREM CurrentAlwaysLastSet == ProjectSpec => []CurrentIsLastSet
<1>1. SetterInv => CurrentIsLastSet
  BY DEF SetterInv
<1> QED
  BY <1>1, SetterInit, SetterStep, PTL DEF ProjectSpec

-----------------------------------------------------------------------------
ChangeRow == [pc: {"idle", "find", "count", "write"}, user: Users,
              to: {"owner", "admin", "none"}, owners: Nat, stale: BOOLEAN]

(* A request about to write, whose check nobody has overtaken, leaves an   *)
(* owner; the owners it counted are there.                                 *)
LeavesOwner(x) ==
  change[x].pc # "idle" /\ ~ change[x].stale =>
    /\ change[x].pc = "find" => change[x].owners <= Cardinality(Owners)
    /\ change[x].pc = "write" /\ change[x].to # "owner" => Owners \ {change[x].user} # {} \/ change[x].user \notin Owners

MembersInv ==
  /\ role \in [Users -> {"owner", "admin", "none"}]
  /\ change \in [Changes -> ChangeRow]
  /\ owned \in BOOLEAN /\ raced \in BOOLEAN
  /\ \A x \in Changes : LeavesOwner(x)
  /\ (\E u \in Users : role[u] = "owner") => owned
  /\ KeepsAnOwner

LEMMA MembersInitInv == MembersInit => MembersInv
<1> SUFFICES ASSUME MembersInit PROVE MembersInv
  OBVIOUS
<1>1. /\ role \in [Users -> {"owner", "admin", "none"}]
      /\ \A u \in Users : role[u] = "owner" => u = Creator
      /\ owned = (role[Creator] = "owner") /\ raced = FALSE
  BY DEF MembersInit
<1>2. change \in [Changes -> ChangeRow] /\ \A x \in Changes : change[x].pc = "idle"
  BY CreatorAssumption DEF MembersInit, NoChange, ChangeRow
<1>3. KeepsAnOwner
  BY <1>1, CreatorAssumption DEF KeepsAnOwner, Owners
<1> QED
  BY <1>1, <1>2, <1>3 DEF MembersInv, LeavesOwner

(* The owners are finitely many; who is not the only one leaves another.   *)
LEMMA OwnersCounted ==
  /\ IsFiniteSet(Owners) /\ Cardinality(Owners) \in Nat
  /\ \A u \in Owners : ~ (Cardinality(Owners) <= 1) => Owners \ {u} # {}
<1>1. IsFiniteSet(Owners)
  <2>1. Owners \subseteq Users
    BY DEF Owners
  <2> QED
    BY <2>1, CreatorAssumption, FS_Subset
<1>2. Cardinality(Owners) \in Nat
  BY <1>1, FS_CardinalityType
<1>3. ASSUME NEW u \in Owners, Owners \ {u} = {} PROVE Cardinality(Owners) <= 1
  <2>1. Owners = {u}
    BY <1>3
  <2>2. Cardinality({u}) = 1
    BY FS_Singleton
  <2> QED
    BY <2>1, <2>2
<1> QED
  BY <1>1, <1>2, <1>3

LEMMA OwnersGrow ==
  ASSUME Owners \subseteq Owners'
  PROVE  Cardinality(Owners) <= Cardinality(Owners') /\ Cardinality(Owners) \in Nat /\ Cardinality(Owners') \in Nat
<1>1. Owners' \subseteq Users
  BY DEF Owners
<1>2. IsFiniteSet(Owners')
  BY <1>1, CreatorAssumption, FS_Subset
<1>3. Cardinality(Owners) <= Cardinality(Owners')
  BY <1>2, FS_Subset
<1> QED
  BY <1>2, <1>3, OwnersCounted, FS_CardinalityType

LEMMA MembersStep == MembersInv /\ [MembersNext]_memberVars => MembersInv'
<1> SUFFICES ASSUME MembersInv, [MembersNext]_memberVars PROVE MembersInv'
  OBVIOUS
<1> USE DEF MembersInv
<1>1. ASSUME NEW u \in Users, NEW to \in {"owner", "admin"}, AddMember(u, to) PROVE MembersInv'
  <2>1. /\ role[u] = "none" /\ raced' = raced
        /\ role' \in [Users -> {"owner", "admin", "none"}]
        /\ role'[u] = to /\ \A w \in Users : w # u => role'[w] = role[w]
        /\ owned' = (owned \/ to = "owner")
    BY <1>1 DEF AddMember
  <2>2. Owners \subseteq Owners' /\ Owners' \subseteq Owners \cup {u}
    BY <2>1 DEF Owners
  <2>3. ASSUME NEW x \in Changes
        PROVE  /\ change'[x] \in ChangeRow
               /\ change'[x].pc = change[x].pc /\ change'[x].user = change[x].user
               /\ change'[x].to = change[x].to /\ change'[x].owners = change[x].owners
               /\ change[x].pc # "idle" /\ ~ change'[x].stale => ~ change[x].stale /\ change[x].user # u
    <3> DEFINE stale == change[x].stale \/ (change[x].pc # "idle" /\ change[x].user = u)
    <3>1. change'[x] = [change[x] EXCEPT !.stale = stale]
      BY <1>1 DEF AddMember
    <3>2. stale \in BOOLEAN /\ (change[x].pc # "idle" /\ ~ stale => ~ change[x].stale /\ change[x].user # u)
      OBVIOUS
    <3>3. change[x] \in ChangeRow
      OBVIOUS
    <3> HIDE DEF stale
    <3>4. /\ change'[x] \in ChangeRow /\ change'[x].stale = stale
          /\ change'[x].pc = change[x].pc /\ change'[x].user = change[x].user
          /\ change'[x].to = change[x].to /\ change'[x].owners = change[x].owners
      BY <3>1, <3>2, <3>3 DEF ChangeRow
    <3> QED
      BY <3>2, <3>4
  <2>4. change' \in [Changes -> ChangeRow]
    BY <1>1, <2>3 DEF AddMember
  <2>5. ASSUME NEW x \in Changes, change[x].pc # "idle", ~ change'[x].stale
        PROVE  LeavesOwner(x)'
    <3>1. /\ change'[x].pc = change[x].pc /\ change'[x].user = change[x].user
          /\ change'[x].to = change[x].to /\ change'[x].owners = change[x].owners
          /\ ~ change[x].stale /\ change[x].user # u
      BY <2>3, <2>5
    <3>2. change[x].pc = "find" => change[x].owners <= Cardinality(Owners')
      BY <2>2, <2>5, <3>1, OwnersGrow DEF LeavesOwner, ChangeRow
    <3>3. change[x].pc = "write" /\ change[x].to # "owner" =>
            Owners' \ {change[x].user} # {} \/ change[x].user \notin Owners'
      BY <2>2, <2>5, <3>1 DEF LeavesOwner
    <3> QED
      BY <3>1, <3>2, <3>3 DEF LeavesOwner
  <2>6. \A x \in Changes : LeavesOwner(x)'
    BY <2>3, <2>5 DEF LeavesOwner
  <2>7. KeepsAnOwner'
    BY <2>1, <2>2 DEF KeepsAnOwner, Owners
  <2>8. owned' \in BOOLEAN /\ ((\E w \in Users : role'[w] = "owner") => owned')
    BY <2>1
  <2> QED
    BY <2>1, <2>4, <2>6, <2>7, <2>8
(* A step of a request that writes nothing.                                *)
<1>2. ASSUME NEW x \in Changes, UNCHANGED <<role, owned, raced>>,
             change' \in [Changes -> ChangeRow],
             \A y \in Changes : y # x => change'[y] = change[y], LeavesOwner(x)'
      PROVE  MembersInv'
  <2>1. Owners' = Owners
    BY <1>2 DEF Owners
  <2>2. \A y \in Changes : y # x => LeavesOwner(y)'
    BY <1>2, <2>1 DEF LeavesOwner
  <2> QED
    BY <1>2, <2>1, <2>2 DEF KeepsAnOwner
<1>3. ASSUME NEW x \in Changes, NEW u \in Users, NEW to \in {"owner", "admin", "none"}, Request(x, u, to)
      PROVE  MembersInv'
  <2> DEFINE pc == IF to = "none" THEN "find" ELSE IF to = "owner" THEN "write" ELSE "count"
  <2>1. change' = [change EXCEPT ![x] = [NoChange EXCEPT !.pc = pc, !.user = u, !.to = to]]
    BY <1>3 DEF Request
  <2>2. pc \in {"find", "write", "count"} /\ (pc = "write" => to = "owner")
    OBVIOUS
  <2> HIDE DEF pc
  <2>3. NoChange \in ChangeRow /\ NoChange.owners = 0
    BY CreatorAssumption DEF NoChange, ChangeRow
  <2>4. /\ change' \in [Changes -> ChangeRow]
        /\ \A y \in Changes : y # x => change'[y] = change[y]
        /\ change'[x].pc = pc /\ change'[x].to = to /\ change'[x].owners = 0
    <3> DEFINE new == [NoChange EXCEPT !.pc = pc, !.user = u, !.to = to]
    <3>1. new \in ChangeRow /\ new.pc = pc /\ new.to = to /\ new.owners = 0
      BY <2>2, <2>3 DEF ChangeRow
    <3>2. change' = [change EXCEPT ![x] = new]
      BY <2>1
    <3> HIDE DEF new
    <3> QED
      BY <3>1, <3>2
  <2>5. LeavesOwner(x)'
    <3>1. Owners' = Owners
      BY <1>3 DEF Request, Owners
    <3> QED
      BY <2>2, <2>4, <3>1, OwnersCounted DEF LeavesOwner
  <2> QED
    BY <1>2, <1>3, <2>4, <2>5 DEF Request
<1>4. ASSUME NEW x \in Changes, NEW pc \in {"idle", "count", "write"}, Step(x, pc), UNCHANGED <<role, owned, raced>>,
             pc = "write" /\ change[x].to # "owner" =>
               Owners \ {change[x].user} # {} \/ change[x].user \notin Owners
      PROVE  MembersInv'
  <2>1. Owners' = Owners
    BY <1>4 DEF Owners
  <2>2. NoChange \in ChangeRow /\ NoChange.pc = "idle"
    BY CreatorAssumption DEF NoChange, ChangeRow
  <2>3. CASE pc = "idle"
    <3>1. change' = [change EXCEPT ![x] = NoChange]
      BY <1>4, <2>3 DEF Step
    <3>2. /\ change' \in [Changes -> ChangeRow] /\ change'[x].pc = "idle"
          /\ \A y \in Changes : y # x => change'[y] = change[y]
      BY <2>2, <3>1
    <3> QED
      BY <1>2, <1>4, <3>2 DEF LeavesOwner
  <2>4. CASE pc # "idle"
    <3>1. change' = [change EXCEPT ![x].pc = pc]
      BY <1>4, <2>4 DEF Step
    <3>2. /\ change' \in [Changes -> ChangeRow] /\ change'[x].pc = pc
          /\ change'[x].user = change[x].user /\ change'[x].to = change[x].to
          /\ \A y \in Changes : y # x => change'[y] = change[y]
      BY <2>4, <3>1 DEF ChangeRow
    <3>3. LeavesOwner(x)'
      BY <1>4, <2>1, <2>4, <3>2 DEF LeavesOwner
    <3> QED
      BY <1>2, <1>4, <3>2, <3>3
  <2> QED
    BY <2>3, <2>4
<1>5. ASSUME NEW x \in Changes, CountOwners(x) PROVE MembersInv'
  <2>1. CASE change[x].to = "none"
    <3>1. Step(x, IF Cardinality(Owners) <= 1 THEN "idle" ELSE "write")
      BY <1>5, <2>1 DEF CountOwners
    <3>2. CASE Cardinality(Owners) <= 1
      BY <1>4, <1>5, <3>1, <3>2 DEF CountOwners
    <3>3. CASE ~ (Cardinality(Owners) <= 1)
      <4>1. Owners \ {change[x].user} # {} \/ change[x].user \notin Owners
        BY <3>3, OwnersCounted
      <4> QED
        BY <1>4, <1>5, <3>1, <3>3, <4>1 DEF CountOwners
    <3> QED
      BY <3>2, <3>3
  <2>2. CASE change[x].to # "none"
    <3>1. change' = [change EXCEPT ![x].pc = "find", ![x].owners = Cardinality(Owners)]
      BY <1>5, <2>2 DEF CountOwners
    <3>2. Cardinality(Owners) \in Nat
      BY OwnersCounted
    <3> DEFINE n == Cardinality(Owners)
    <3>3. n \in Nat /\ change' = [change EXCEPT ![x].pc = "find", ![x].owners = n]
      BY <3>1, <3>2
    <3>4. Owners' = Owners /\ n = Cardinality(Owners)
      BY <1>5 DEF CountOwners, Owners
    <3> HIDE DEF n
    <3>5. /\ change' \in [Changes -> ChangeRow] /\ change'[x].pc = "find" /\ change'[x].owners = n
          /\ \A y \in Changes : y # x => change'[y] = change[y]
      BY <3>3 DEF ChangeRow
    <3>6. LeavesOwner(x)'
      BY <3>3, <3>4, <3>5 DEF LeavesOwner
    <3> QED
      BY <1>2, <1>5, <3>5, <3>6 DEF CountOwners
  <2> QED
    BY <2>1, <2>2, Zenon
<1>6. ASSUME NEW x \in Changes, FindMember(x) PROVE MembersInv'
  <2> DEFINE u == change[x].user
             was == role[u]
  <2>1. CASE change[x].to = "none"
    <3>1. Step(x, IF was = "none" THEN "idle" ELSE IF was = "owner" THEN "count" ELSE "write")
      BY <1>6, <2>1 DEF FindMember
    <3>2. was \notin {"none", "owner"} => u \notin Owners
      BY DEF Owners
    <3>3. PICK pc \in {"idle", "count", "write"} : Step(x, pc) /\ (pc = "write" => u \notin Owners)
      BY <3>1, <3>2
    <3> QED
      BY <1>4, <1>6, <3>3 DEF FindMember
  <2>2. CASE change[x].to # "none"
    <3>1. Step(x, IF was = "owner" /\ change[x].owners <= 1 THEN "idle" ELSE "write")
      BY <1>6, <2>2 DEF FindMember
    <3>2. CASE change[x].stale
      <4>1. PICK pc \in {"idle", "write"} : Step(x, pc)
        BY <3>1
      <4>2. change[x] \in ChangeRow
        OBVIOUS
      <4>3. LeavesOwner(x)'
        BY <3>2, <4>1, <4>2 DEF Step, LeavesOwner, NoChange, ChangeRow
      <4>4. /\ change' \in [Changes -> ChangeRow]
            /\ \A y \in Changes : y # x => change'[y] = change[y]
        <5>1. NoChange \in ChangeRow
          BY CreatorAssumption DEF NoChange, ChangeRow
        <5> QED
          BY <4>1, <4>2, <5>1 DEF Step, ChangeRow
      <4> QED
        BY <1>2, <1>6, <4>3, <4>4 DEF FindMember
    <3>3. CASE ~ change[x].stale
      <4>1. change[x].owners <= Cardinality(Owners) /\ change[x].owners \in Nat
        BY <1>6, <3>3 DEF FindMember, LeavesOwner, ChangeRow
      <4>2. u \in Owners /\ ~ (change[x].owners <= 1) => Owners \ {u} # {}
        BY <4>1, OwnersCounted
      <4>3. was = "owner" <=> u \in Owners
        BY DEF Owners, ChangeRow
      <4>4. PICK pc \in {"idle", "write"} :
              Step(x, pc) /\ (pc = "write" => Owners \ {u} # {} \/ u \notin Owners)
        BY <3>1, <4>2, <4>3
      <4> QED
        BY <1>4, <1>6, <4>4 DEF FindMember
    <3> QED
      BY <3>2, <3>3, Zenon
  <2> QED
    BY <2>1, <2>2, Zenon
<1>7. ASSUME NEW x \in Changes, WriteRole(x) PROVE MembersInv'
  <2> DEFINE u == change[x].user
             to == change[x].to
  <2>1. /\ change[x].pc = "write" /\ u \in Users /\ to \in {"owner", "admin", "none"}
        /\ role' = IF role[u] = "none" THEN role ELSE [role EXCEPT ![u] = to]
        /\ owned' = (owned \/ role'[u] = "owner") /\ raced' = (raced \/ change[x].stale)
    BY <1>7 DEF WriteRole, ChangeRow
  <2>2. /\ role' \in [Users -> {"owner", "admin", "none"}]
        /\ \A w \in Users : w # u => role'[w] = role[w]
        /\ role'[u] = role[u] \/ role'[u] = to
    BY <2>1
  <2>3. owned' \in BOOLEAN /\ raced' \in BOOLEAN
    BY <2>1
  <2>4. (\E w \in Users : role'[w] = "owner") => owned'
    BY <2>1, <2>2
  <2>5. ASSUME NEW y \in Changes
        PROVE  change'[y] \in ChangeRow /\ (change'[y].pc # "idle" => change'[y].stale)
    <3>1. CASE y = x
      BY <1>7, <3>1, CreatorAssumption DEF WriteRole, NoChange, ChangeRow
    <3>2. CASE y # x
      <4> DEFINE stale == change[y].stale \/ change[y].pc # "idle"
      <4>1. change'[y] = [change[y] EXCEPT !.stale = stale]
        BY <1>7, <3>2 DEF WriteRole
      <4>2. stale \in BOOLEAN /\ (change[y].pc # "idle" => stale) /\ change[y] \in ChangeRow
        OBVIOUS
      <4> HIDE DEF stale
      <4>3. change'[y] \in ChangeRow /\ change'[y].stale = stale /\ change'[y].pc = change[y].pc
        BY <4>1, <4>2 DEF ChangeRow
      <4> QED
        BY <4>2, <4>3
    <3> QED
      BY <3>1, <3>2
  <2>6. change' \in [Changes -> ChangeRow]
    BY <1>7, <2>5 DEF WriteRole
  <2>7. \A y \in Changes : LeavesOwner(y)'
    BY <2>5 DEF LeavesOwner
  <2>8. KeepsAnOwner'
    <3> SUFFICES ASSUME owned', ~ raced' PROVE Owners' # {}
      BY DEF KeepsAnOwner
    <3>1. ~ raced /\ ~ change[x].stale
      BY <2>1
    <3>2. CASE role'[u] = "owner"
      BY <2>1, <3>2 DEF Owners
    <3>3. CASE role'[u] # "owner"
      <4>1. owned /\ Owners # {}
        BY <2>1, <3>1, <3>3 DEF KeepsAnOwner
      <4>2. Owners' = Owners \ {u}
        BY <2>1, <2>2, <3>3 DEF Owners
      <4>3. u \in Owners => to # "owner"
        BY <2>1, <3>3 DEF Owners
      <4>4. Owners \ {u} # {}
        BY <2>1, <3>1, <4>1, <4>3 DEF LeavesOwner
      <4> QED
        BY <4>2, <4>4
    <3> QED
      BY <3>2, <3>3
  <2> QED
    BY <2>2, <2>3, <2>4, <2>6, <2>7, <2>8
<1>8. CASE UNCHANGED memberVars
  <2>1. Owners' = Owners
    BY <1>8 DEF memberVars, Owners
  <2> QED
    BY <1>8, <2>1 DEF memberVars, LeavesOwner, KeepsAnOwner
<1> QED
  BY <1>1, <1>3, <1>5, <1>6, <1>7, <1>8 DEF MembersNext

(* The last owner of a project is not taken from it, but by a race.        *)
THEOREM AlwaysAnOwner == MembersSpec => []KeepsAnOwner
<1>1. MembersInv => KeepsAnOwner
  BY DEF MembersInv
<1> QED
  BY <1>1, MembersInitInv, MembersStep, PTL DEF MembersSpec

-----------------------------------------------------------------------------
ToggleRow == [pc: {"idle", "insert", "delete", "up", "down"},
              user: Stargazers \cup {CHOOSE u \in Stargazers : TRUE}]

StarsInv ==
  /\ toggle \in [Toggles -> ToggleRow]
  /\ IsFiniteSet(stars) /\ count \in Nat
  /\ miscounted \in BOOLEAN /\ listed \in BOOLEAN
  /\ StarsCounted

Ups == Cardinality(Toggling("up"))
Downs == Cardinality(Toggling("down"))

(* What one call that goes from a statement to another changes.            *)
LEMMA TogglingFinite ==
  ASSUME NEW pc
  PROVE  IsFiniteSet(Toggling(pc)) /\ Cardinality(Toggling(pc)) \in Nat
<1>1. Toggling(pc) \subseteq Toggles
  BY DEF Toggling
<1>2. IsFiniteSet(Toggling(pc))
  BY <1>1, TogglesAssumption, FS_Subset
<1> QED
  BY <1>2, FS_CardinalityType

LEMMA TogglingMoves ==
  ASSUME NEW t \in Toggles, \A u \in Toggles : u # t => toggle'[u] = toggle[u],
         NEW pc
  PROVE  /\ Cardinality(Toggling(pc)') \in Nat
         /\ (toggle[t].pc = pc <=> toggle'[t].pc = pc) => Toggling(pc)' = Toggling(pc)
         /\ toggle[t].pc # pc /\ toggle'[t].pc = pc =>
              Cardinality(Toggling(pc)') = Cardinality(Toggling(pc)) + 1
         /\ toggle[t].pc = pc /\ toggle'[t].pc # pc =>
              Cardinality(Toggling(pc)') = Cardinality(Toggling(pc)) - 1
<1>1. IsFiniteSet(Toggling(pc))
  BY TogglingFinite
<1>2. (toggle[t].pc = pc <=> toggle'[t].pc = pc) => Toggling(pc)' = Toggling(pc)
  BY DEF Toggling
<1>3. ASSUME toggle[t].pc # pc, toggle'[t].pc = pc
      PROVE  Cardinality(Toggling(pc)') = Cardinality(Toggling(pc)) + 1
  <2>1. Toggling(pc)' = Toggling(pc) \cup {t} /\ t \notin Toggling(pc)
    BY <1>3 DEF Toggling
  <2>2. Cardinality(Toggling(pc) \cup {t}) = Cardinality(Toggling(pc)) + 1
    BY <1>1, <2>1, FS_AddElement
  <2> QED
    BY <2>1, <2>2
<1>4. ASSUME toggle[t].pc = pc, toggle'[t].pc # pc
      PROVE  Cardinality(Toggling(pc)') = Cardinality(Toggling(pc)) - 1
  <2>1. Toggling(pc)' = Toggling(pc) \ {t} /\ t \in Toggling(pc)
    BY <1>4 DEF Toggling
  <2>2. Cardinality(Toggling(pc) \ {t}) = Cardinality(Toggling(pc)) - 1
    BY <1>1, <2>1, FS_RemoveElement
  <2> QED
    BY <2>1, <2>2
<1>5. Cardinality(Toggling(pc)') \in Nat
  <2>1. Toggling(pc)' \subseteq Toggles
    BY DEF Toggling
  <2>2. IsFiniteSet(Toggling(pc)')
    BY <2>1, TogglesAssumption, FS_Subset
  <2> QED
    BY <2>2, FS_CardinalityType
<1> QED
  BY <1>2, <1>3, <1>4, <1>5

LEMMA StarMoves ==
  /\ \A s : IsFiniteSet(stars) /\ s \notin stars =>
       /\ IsFiniteSet(stars \cup {s})
       /\ Cardinality(stars \cup {s}) = Cardinality(stars) + 1
  /\ \A s : IsFiniteSet(stars) /\ s \in stars =>
       Cardinality(stars \ {s}) = Cardinality(stars) - 1
  /\ \A s : IsFiniteSet(stars) => IsFiniteSet(stars \ {s})
  /\ IsFiniteSet(stars) => Cardinality(stars) \in Nat
<1>1. ASSUME IsFiniteSet(stars), NEW s, s \notin stars
      PROVE  IsFiniteSet(stars \cup {s}) /\ Cardinality(stars \cup {s}) = Cardinality(stars) + 1
  BY <1>1, FS_AddElement
<1>2. ASSUME IsFiniteSet(stars), NEW s, s \in stars
      PROVE  Cardinality(stars \ {s}) = Cardinality(stars) - 1
  BY <1>2, FS_RemoveElement
<1>3. ASSUME IsFiniteSet(stars), NEW s PROVE IsFiniteSet(stars \ {s})
  BY <1>3, FS_Subset
<1>4. ASSUME IsFiniteSet(stars) PROVE Cardinality(stars) \in Nat
  BY <1>4, FS_CardinalityType
<1> QED
  BY <1>1, <1>2, <1>3, <1>4

LEMMA StarsInitInv == StarsInit => StarsInv
<1> SUFFICES ASSUME StarsInit PROVE StarsInv
  OBVIOUS
<1>1. toggle \in [Toggles -> ToggleRow] /\ \A t \in Toggles : toggle[t].pc = "idle"
  BY DEF StarsInit, ToggleRow
<1>2. Toggling("up") = {} /\ Toggling("down") = {} /\ stars = {} /\ count = 0
  BY <1>1 DEF Toggling, StarsInit
<1>3. IsFiniteSet({}) /\ Cardinality({}) = 0
  BY FS_EmptySet
<1>4. StarsCounted
  BY <1>2, <1>3 DEF StarsCounted
<1>5. miscounted = FALSE /\ listed = TRUE
  BY DEF StarsInit
<1> QED
  BY <1>1, <1>2, <1>3, <1>4, <1>5 DEF StarsInv

LEMMA StarsStep == StarsInv /\ [StarsNext]_starVars => StarsInv'
<1> SUFFICES ASSUME StarsInv, [StarsNext]_starVars PROVE StarsInv'
  OBVIOUS
<1> USE DEF StarsInv
<1>1. Ups \in Nat /\ Downs \in Nat /\ Cardinality(stars) \in Nat
  BY TogglingFinite, StarMoves DEF Ups, Downs
(* A call goes from one statement to another.                              *)
<1>2. ASSUME NEW t \in Toggles, toggle' \in [Toggles -> ToggleRow],
             \A u \in Toggles : u # t => toggle'[u] = toggle[u]
      PROVE  /\ Ups' \in Nat /\ Downs' \in Nat
             /\ Ups' = IF toggle[t].pc = "up" THEN IF toggle'[t].pc = "up" THEN Ups ELSE Ups - 1
                       ELSE IF toggle'[t].pc = "up" THEN Ups + 1 ELSE Ups
             /\ Downs' = IF toggle[t].pc = "down" THEN IF toggle'[t].pc = "down" THEN Downs ELSE Downs - 1
                         ELSE IF toggle'[t].pc = "down" THEN Downs + 1 ELSE Downs
  <2>1. Ups' \in Nat /\ Ups' = IF toggle[t].pc = "up" THEN IF toggle'[t].pc = "up" THEN Ups ELSE Ups - 1
                       ELSE IF toggle'[t].pc = "up" THEN Ups + 1 ELSE Ups
    BY <1>2, TogglingMoves DEF Ups
  <2>2. Downs' \in Nat /\ Downs' = IF toggle[t].pc = "down" THEN IF toggle'[t].pc = "down" THEN Downs ELSE Downs - 1
                         ELSE IF toggle'[t].pc = "down" THEN Downs + 1 ELSE Downs
    BY <1>2, TogglingMoves DEF Downs
  <2> QED
    BY <2>1, <2>2
<1>3. ASSUME NEW t \in Toggles, NEW u \in Stargazers, ReadStar(t, u) PROVE StarsInv'
  <2> DEFINE pc == IF u \in stars THEN "delete" ELSE "insert"
  <2>1. pc \in {"delete", "insert"} /\ toggle' = [toggle EXCEPT ![t] = [pc |-> pc, user |-> u]]
    BY <1>3 DEF ReadStar
  <2> HIDE DEF pc
  <2>2. /\ toggle' \in [Toggles -> ToggleRow] /\ toggle'[t].pc \notin {"up", "down"} /\ toggle[t].pc = "idle"
        /\ \A v \in Toggles : v # t => toggle'[v] = toggle[v]
    BY <1>3, <2>1 DEF ToggleRow, ReadStar
  <2>3. Ups' = Ups /\ Downs' = Downs
    BY <1>2, <2>2
  <2> QED
    BY <1>3, <2>2, <2>3 DEF ReadStar, StarsCounted, Ups, Downs
<1>4. ASSUME NEW t \in Toggles, InsertStar(t) PROVE StarsInv'
  <2>1. CASE toggle[t].user \in stars \/ (registry = "mcp" /\ ~listed)
    <3>1. toggle' = [toggle EXCEPT ![t].pc = "idle"] /\ stars' = stars /\ toggle[t].pc = "insert"
      BY <1>4, <2>1 DEF InsertStar
    <3>2. /\ toggle' \in [Toggles -> ToggleRow] /\ toggle'[t].pc = "idle"
          /\ \A v \in Toggles : v # t => toggle'[v] = toggle[v]
      BY <3>1 DEF ToggleRow
    <3>3. Ups' = Ups /\ Downs' = Downs
      BY <1>2, <3>1, <3>2
    <3> QED
      BY <1>4, <3>1, <3>2, <3>3 DEF InsertStar, StarsCounted, Ups, Downs
  <2>2. CASE ~ (toggle[t].user \in stars \/ (registry = "mcp" /\ ~listed))
    <3>1. /\ toggle' = [toggle EXCEPT ![t].pc = "up"] /\ toggle[t].pc = "insert"
          /\ stars' = stars \cup {toggle[t].user} /\ toggle[t].user \notin stars
      BY <1>4, <2>2 DEF InsertStar
    <3>2. /\ toggle' \in [Toggles -> ToggleRow] /\ toggle'[t].pc = "up"
          /\ \A v \in Toggles : v # t => toggle'[v] = toggle[v]
      BY <3>1 DEF ToggleRow
    <3>3. Ups' = Ups + 1 /\ Downs' = Downs
      BY <1>2, <3>1, <3>2
    <3>4. IsFiniteSet(stars') /\ Cardinality(stars') = Cardinality(stars) + 1
      BY <3>1, StarMoves
    <3>5. /\ listed' = listed /\ count' = count /\ miscounted' = miscounted
      BY <1>4 DEF InsertStar
    <3>6. StarsCounted'
      BY <1>1, <3>3, <3>4, <3>5 DEF StarsCounted, Ups, Downs
    <3> QED
      BY <3>2, <3>4, <3>5, <3>6
  <2> QED
    BY <2>1, <2>2, Zenon
<1>5. ASSUME NEW t \in Toggles, DeleteStar(t) PROVE StarsInv'
  <2>1. /\ toggle' = [toggle EXCEPT ![t].pc = "down"] /\ toggle[t].pc = "delete"
        /\ stars' = stars \ {toggle[t].user} /\ listed' = listed /\ count' = count
        /\ miscounted' = (miscounted \/ (listed /\ toggle[t].user \notin stars))
    BY <1>5 DEF DeleteStar
  <2>2. /\ toggle' \in [Toggles -> ToggleRow] /\ toggle'[t].pc = "down"
        /\ \A v \in Toggles : v # t => toggle'[v] = toggle[v]
    BY <2>1 DEF ToggleRow
  <2>3. Ups' = Ups /\ Downs' = Downs + 1
    BY <1>2, <2>1, <2>2
  <2>4. /\ miscounted' \in BOOLEAN
        /\ listed /\ ~ miscounted' => ~ miscounted /\ toggle[t].user \in stars
    BY <2>1
  <2>5. IsFiniteSet(stars') /\ (toggle[t].user \in stars => Cardinality(stars') = Cardinality(stars) - 1)
    BY <2>1, StarMoves
  <2>6. StarsCounted'
    BY <1>1, <2>1, <2>3, <2>4, <2>5 DEF StarsCounted, Ups, Downs
  <2> QED
    BY <2>1, <2>2, <2>4, <2>5, <2>6
<1>6. ASSUME NEW t \in Toggles, UpdateCount(t) PROVE StarsInv'
  <2>1. /\ toggle' = [toggle EXCEPT ![t].pc = "idle"] /\ toggle[t].pc \in {"up", "down"}
        /\ stars' = stars /\ listed' = listed
        /\ miscounted' = (miscounted \/ (listed /\ toggle[t].pc = "down" /\ count = 0))
        /\ count' = IF ~listed THEN count
              ELSE IF toggle[t].pc = "up" THEN count + 1 ELSE IF count > 0 THEN count - 1 ELSE 0
    BY <1>6 DEF UpdateCount
  <2>2. /\ toggle' \in [Toggles -> ToggleRow] /\ toggle'[t].pc = "idle"
        /\ \A v \in Toggles : v # t => toggle'[v] = toggle[v]
    BY <2>1 DEF ToggleRow
  <2>3. /\ toggle[t].pc = "up" => Ups' = Ups - 1 /\ Downs' = Downs
        /\ toggle[t].pc = "down" => Ups' = Ups /\ Downs' = Downs - 1
    BY <1>2, <2>1, <2>2
  <2>4. miscounted' \in BOOLEAN /\ (listed /\ ~ miscounted' => ~ miscounted /\ ~ (toggle[t].pc = "down" /\ count = 0))
    BY <2>1
  <2>5. /\ count' \in Nat
        /\ listed /\ toggle[t].pc = "up" => count' = count + 1
        /\ listed /\ toggle[t].pc = "down" /\ count # 0 => count' = count - 1
    BY <2>1
  <2>6. StarsCounted'
    <3> SUFFICES ASSUME listed, ~ miscounted'
                 PROVE  count' + Ups' = Cardinality(stars) + Downs'
      BY <2>1 DEF StarsCounted, Ups, Downs
    <3>1. count + Ups = Cardinality(stars) + Downs
      BY <2>4 DEF StarsCounted, Ups, Downs
    <3> QED
      BY <1>1, <2>1, <2>3, <2>4, <2>5, <3>1
  <2> QED
    BY <2>1, <2>2, <2>4, <2>5, <2>6
<1>7. ASSUME NEW t \in Toggles, ToggleFails(t) PROVE StarsInv'
  <2>1. /\ toggle' = [toggle EXCEPT ![t].pc = "idle"]
        /\ stars' = stars /\ listed' = listed /\ count' = count
        /\ miscounted' = (miscounted \/ (listed /\ toggle[t].pc \in {"up", "down"}))
    BY <1>7 DEF ToggleFails
  <2>2. /\ toggle' \in [Toggles -> ToggleRow] /\ toggle'[t].pc = "idle"
        /\ \A v \in Toggles : v # t => toggle'[v] = toggle[v]
    BY <2>1 DEF ToggleRow
  <2>3. toggle[t].pc \notin {"up", "down"} => Ups' = Ups /\ Downs' = Downs
    BY <1>2, <2>2
  <2>4. miscounted' \in BOOLEAN /\ (listed /\ ~ miscounted' => ~ miscounted /\ toggle[t].pc \notin {"up", "down"})
    BY <2>1
  <2>5. StarsCounted'
    BY <2>1, <2>3, <2>4 DEF StarsCounted, Ups, Downs
  <2> QED
    BY <2>1, <2>2, <2>4, <2>5
<1>8. ASSUME Unpublish PROVE StarsInv'
  <2>1. IsFiniteSet({})
    BY FS_EmptySet
  <2> QED
    BY <1>8, <2>1 DEF Unpublish, StarsCounted
<1>9. ASSUME Publish PROVE StarsInv'
  <2>1. /\ stars' = stars /\ toggle' = toggle /\ count' = 0 /\ listed' = TRUE
        /\ miscounted' = (stars # {} \/ Toggling("up") \cup Toggling("down") # {})
    BY <1>9 DEF Publish
  <2>2. Cardinality({}) = 0
    BY FS_EmptySet
  <2>3. StarsCounted'
    <3> SUFFICES ASSUME ~ miscounted' PROVE StarsCounted'
      BY DEF StarsCounted
    <3>1. stars' = {} /\ Toggling("up")' = {} /\ Toggling("down")' = {}
      BY <2>1 DEF Toggling
    <3> QED
      BY <2>1, <2>2, <3>1 DEF StarsCounted
  <2>4. miscounted' \in BOOLEAN
    BY <2>1
  <2> QED
    BY <2>1, <2>3, <2>4
<1>10. CASE UNCHANGED starVars
  BY <1>10 DEF starVars, StarsCounted, Toggling
<1> QED
  BY <1>3, <1>4, <1>5, <1>6, <1>7, <1>8, <1>9, <1>10 DEF StarsNext

(* The count kept beside the stars is theirs.                              *)
THEOREM StarsAlwaysCounted == StarsSpec => []StarsCounted
<1>1. StarsInv => StarsCounted
  BY DEF StarsInv
<1> QED
  BY <1>1, StarsInitInv, StarsStep, PTL DEF StarsSpec

-----------------------------------------------------------------------------
(* Walking a list (Listing), with a cursor of milliseconds and row ids.    *)

\* The order of the list in milliseconds, and the place of a row in it.
RowBefore(x, y) ==
  Milli(x) > Milli(y) \/ (Milli(x) = Milli(y) /\ x.id > y.id)

RankIn(S, x) == Cardinality({y \in S : RowBefore(y, x)})

RowsApart(S) == \A x, y \in S : x.id = y.id => x = y

LEMMA MilliType == \A x \in TableRows : Milli(x) \in Int /\ x.id \in Nat
<1> SUFFICES ASSUME NEW x \in TableRows PROVE Milli(x) \in Int /\ x.id \in Nat
  OBVIOUS
<1>1. x.at \in Micros /\ x.id \in Ids
  BY DEF TableRows
<1>2. Ids \subseteq Nat /\ Micros \subseteq Nat /\ PerMilli \in Nat \ {0}
  BY ListingAssumption
<1>3. x.at \in Nat /\ x.id \in Nat
  BY <1>1, <1>2
<1>4. x.at \div PerMilli \in Int
  BY <1>2, <1>3
<1> QED
  BY <1>3, <1>4 DEF Milli

(* A strict order, total on the rows of a table.                           *)
LEMMA RowOrder ==
  /\ \A x, y, z \in TableRows : RowBefore(x, y) /\ RowBefore(y, z) => RowBefore(x, z)
  /\ \A x \in TableRows : ~ RowBefore(x, x)
  /\ \A x, y \in TableRows : x.id # y.id => RowBefore(x, y) \/ RowBefore(y, x)
  BY MilliType DEF RowBefore

LEMMA RankFacts ==
  ASSUME NEW S, S \subseteq TableRows, IsFiniteSet(S)
  PROVE  /\ \A x \in S : RankIn(S, x) \in Nat
         /\ \A x, y \in S : RowBefore(x, y) => RankIn(S, x) < RankIn(S, y)
<1>1. ASSUME NEW x \in S
      PROVE  IsFiniteSet({y \in S : RowBefore(y, x)}) /\ RankIn(S, x) \in Nat
  <2>1. IsFiniteSet({y \in S : RowBefore(y, x)})
    BY FS_Subset
  <2> QED
    BY <2>1, FS_CardinalityType DEF RankIn
<1>2. ASSUME NEW x \in S, NEW y \in S, RowBefore(x, y)
      PROVE  RankIn(S, x) < RankIn(S, y)
  <2> DEFINE A == {z \in S : RowBefore(z, x)}
  <2> DEFINE B == {z \in S : RowBefore(z, y)}
  <2>1. IsFiniteSet(A) /\ IsFiniteSet(B) /\ Cardinality(A) \in Nat /\ Cardinality(B) \in Nat
    BY <1>1 DEF RankIn
  <2>2. x \notin A /\ A \cup {x} \subseteq B
    BY <1>2, RowOrder
  <2>3. RankIn(S, x) = Cardinality(A) /\ RankIn(S, y) = Cardinality(B)
    BY DEF RankIn
  <2> HIDE DEF A, B
  <2>4. Cardinality(A \cup {x}) = Cardinality(A) + 1
    BY <2>1, <2>2, FS_AddElement
  <2>5. Cardinality(A \cup {x}) <= Cardinality(B)
    BY <2>1, <2>2, FS_Subset
  <2> QED
    BY <2>1, <2>3, <2>4, <2>5
<1> QED
  BY <1>1, <1>2

(* The rows of a page have the ranks 0, 1, 2, ... of it, one each.         *)
LEMMA PageDense ==
  ASSUME NEW S, S \subseteq TableRows, IsFiniteSet(S), RowsApart(S), NEW n \in Nat,
         NEW P, P = {x \in S : RankIn(S, x) < n}
  PROVE  /\ IsFiniteSet(P) /\ Cardinality(P) \in Nat
         /\ \A x \in P : RankIn(S, x) \in 0 .. Cardinality(P) - 1
         /\ \A i \in 0 .. Cardinality(P) - 1 : \E x \in P : RankIn(S, x) = i
         /\ \A x, y \in P : RankIn(S, x) = RankIn(S, y) => x = y
<1> DEFINE rank == [x \in P |-> RankIn(S, x)]
<1> DEFINE m == Cardinality(P)
<1>1. /\ P \subseteq S /\ \A x \in S : RankIn(S, x) \in Nat
      /\ \A x, y \in S : RowBefore(x, y) => RankIn(S, x) < RankIn(S, y)
  BY RankFacts
<1>2. IsFiniteSet(P)
  BY <1>1, FS_Subset
<1>3. m \in Nat
  BY <1>2, FS_CardinalityType
<1>4. \A x, y \in S : RankIn(S, x) = RankIn(S, y) => x = y
  <2> SUFFICES ASSUME NEW x \in S, NEW y \in S, x # y PROVE RankIn(S, x) # RankIn(S, y)
    OBVIOUS
  <2>1. RowBefore(x, y) \/ RowBefore(y, x)
    BY RowOrder DEF RowsApart
  <2>2. RankIn(S, x) < RankIn(S, y) \/ RankIn(S, y) < RankIn(S, x)
    BY <1>1, <2>1
  <2> QED
    BY <1>1, <2>2
<1>5. \A x \in P : RankIn(S, x) \in 0 .. m - 1
  <2> SUFFICES ASSUME NEW x \in P PROVE RankIn(S, x) \in 0 .. m - 1
    OBVIOUS
  <2> DEFINE A == {y \in S : RowBefore(y, x)}
  <2>1. A \subseteq P \ {x}
    <3> SUFFICES ASSUME NEW y \in S, RowBefore(y, x) PROVE y \in P /\ y # x
      OBVIOUS
    <3>1. RankIn(S, y) < RankIn(S, x) /\ RankIn(S, x) < n
      BY <1>1
    <3> QED
      BY <1>1, <3>1
  <2>2. IsFiniteSet(P \ {x}) /\ Cardinality(P \ {x}) = m - 1
    BY <1>2, FS_RemoveElement
  <2>3. RankIn(S, x) = Cardinality(A)
    BY DEF RankIn
  <2> HIDE DEF A, m
  <2>4. Cardinality(A) <= m - 1
    BY <2>1, <2>2, FS_Subset
  <2> QED
    BY <1>1, <1>3, <2>3, <2>4
<1>6. \A i \in 0 .. m - 1 : \E x \in P : RankIn(S, x) = i
  <2>1. rank \in Injection(P, 0 .. m - 1)
    BY <1>1, <1>4, <1>5 DEF Injection, IsInjective
  <2>2. IsFiniteSet(0 .. m - 1) /\ Cardinality(0 .. m - 1) = m
    <3>1. m - 1 \in Int /\ 0 \in Int
      BY <1>3
    <3>2. IsFiniteSet(0 .. m - 1) /\ Cardinality(0 .. m - 1) = IF 0 > m - 1 THEN 0 ELSE (m - 1) - 0 + 1
      BY <3>1, FS_Interval
    <3> HIDE DEF m
    <3> QED
      BY <1>3, <3>2
  <2>3. rank \in Surjection(P, 0 .. m - 1)
    BY <2>1, <2>2, FS_Injection
  <2> QED
    BY <2>3 DEF Surjection
<1> QED
  BY <1>1, <1>2, <1>3, <1>4, <1>5, <1>6

-----------------------------------------------------------------------------
(* What was given is not behind the cursor, and what has been there all    *)
(* the time was given or is.                                               *)

Gave(x) == \E i \in 1 .. Len(got) : got[i] = x

ListingInv ==
  /\ exact = FALSE
  /\ table \subseteq TableRows /\ RowsApart(table) /\ steady \subseteq table
  /\ got \in Seq(TableRows)
  /\ cursor.page \in {"first", "next", "end"}
  /\ \A i, j \in 1 .. Len(got) : got[i].id = got[j].id => i = j
  /\ \A x \in table, i \in 1 .. Len(got) : got[i].id = x.id => got[i] = x
  /\ cursor.page = "first" => got = <<>>
  /\ cursor.page = "next" =>
       /\ cursor.milli \in Int /\ cursor.id \in Nat
       /\ \A i \in 1 .. Len(got) : ~ Behind(got[i], cursor)
  /\ \A x \in steady : \/ Gave(x) \/ cursor.page = "first"
                       \/ cursor.page = "next" /\ Behind(x, cursor)

LEMMA ListingInitInv == TRUE \notin Exactness /\ ListingInit => ListingInv
<1> SUFFICES ASSUME TRUE \notin Exactness, ListingInit PROVE ListingInv
  OBVIOUS
<1>1. exact = FALSE
  BY ListingAssumption DEF ListingInit
<1>2. /\ table \subseteq TableRows /\ RowsApart(table) /\ steady = table
      /\ cursor.page = "first" /\ got = <<>>
  BY DEF ListingInit, RowsApart
<1> QED
  BY <1>1, <1>2 DEF ListingInv

LEMMA TableFinite == ASSUME NEW S, S \subseteq TableRows PROVE IsFiniteSet(S)
<1>1. IsFiniteSet(TableRows)
  BY ListingAssumption DEF TableRows
<1> QED
  BY <1>1, FS_Subset

(* One page: the rows that are given, the last of them, and the cursor     *)
(* they leave.                                                             *)
NewRows == [i \in 1 .. Cardinality(PageRows) |-> CHOOSE x \in PageRows : Rank(x) = i - 1]

LEMMA PageFacts ==
  ASSUME ListingInv, Walking
  PROVE  /\ PageRows \subseteq Matching /\ Matching \subseteq table
         /\ NewRows \in Seq(PageRows)
         /\ \A x \in PageRows : \E i \in 1 .. Len(NewRows) : NewRows[i] = x
         /\ \A i, j \in 1 .. Len(NewRows) : NewRows[i] = NewRows[j] => i = j
         /\ PageRows # Matching =>
              /\ LastOf(PageRows) \in PageRows
              /\ \A x \in PageRows : x = LastOf(PageRows) \/ RowBefore(x, LastOf(PageRows))
              /\ \A x \in Matching \ PageRows : RowBefore(LastOf(PageRows), x)
<1> DEFINE S == Matching
<1> DEFINE P == PageRows
<1> DEFINE m == Cardinality(P)
<1>1. S \subseteq table /\ S \subseteq TableRows /\ RowsApart(S)
  BY DEF ListingInv, Matching, RowsApart
<1>2. IsFiniteSet(S) /\ PageSize \in Nat /\ PageSize > 0
  BY <1>1, TableFinite, ListingAssumption
<1>3. \A x, y : Precedes(x, y) <=> RowBefore(x, y)
  BY DEF ListingInv, Precedes, RowBefore
<1>4. \A x : Rank(x) = RankIn(S, x)
  <2> SUFFICES ASSUME NEW x PROVE Rank(x) = RankIn(S, x)
    OBVIOUS
  <2>1. {y \in Matching : Precedes(y, x)} = {y \in S : RowBefore(y, x)}
    BY <1>3
  <2> QED
    BY <2>1 DEF Rank, RankIn
<1>5. P = {x \in S : RankIn(S, x) < PageSize}
  BY <1>4 DEF PageRows
<1>6. P \subseteq S
  BY <1>5
<1> HIDE DEF S, P
<1>7. /\ IsFiniteSet(P) /\ m \in Nat
      /\ \A x \in P : RankIn(S, x) \in 0 .. m - 1
      /\ \A i \in 0 .. m - 1 : \E x \in P : RankIn(S, x) = i
      /\ \A x, y \in P : RankIn(S, x) = RankIn(S, y) => x = y
  BY <1>1, <1>2, <1>5, PageDense
<1> HIDE DEF m
<1>8. /\ \A x \in S : RankIn(S, x) \in Nat
      /\ \A x, y \in S : RowBefore(x, y) => RankIn(S, x) < RankIn(S, y)
  BY <1>1, <1>2, RankFacts
<1>9. \A i \in 1 .. m : NewRows[i] \in P /\ RankIn(S, NewRows[i]) = i - 1
  <2> SUFFICES ASSUME NEW i \in 1 .. m
               PROVE  NewRows[i] \in P /\ RankIn(S, NewRows[i]) = i - 1
    OBVIOUS
  <2>1. i - 1 \in 0 .. m - 1
    BY <1>7
  <2>2. \E x \in P : Rank(x) = i - 1
    BY <1>4, <1>7, <2>1
  <2>3. NewRows[i] = CHOOSE x \in P : Rank(x) = i - 1
    BY DEF NewRows, P, m
  <2> QED
    BY <1>4, <2>2, <2>3
<1>10. NewRows \in Seq(P) /\ Len(NewRows) = m
  <2>1. NewRows = [i \in 1 .. m |-> NewRows[i]]
    BY DEF NewRows, P, m
  <2>2. NewRows \in [1 .. m -> P]
    BY <1>9, <2>1
  <2> QED
    BY <1>7, <2>2
<1>11. \A x \in P : \E i \in 1 .. m : NewRows[i] = x
  <2> SUFFICES ASSUME NEW x \in P PROVE \E i \in 1 .. m : NewRows[i] = x
    OBVIOUS
  <2>1. RankIn(S, x) + 1 \in 1 .. m /\ (RankIn(S, x) + 1) - 1 = RankIn(S, x)
    BY <1>7
  <2>2. NewRows[RankIn(S, x) + 1] = x
    BY <1>7, <1>9, <2>1
  <2> QED
    BY <2>1, <2>2
<1>12. \A i, j \in 1 .. m : NewRows[i] = NewRows[j] => i = j
  <2> SUFFICES ASSUME NEW i \in 1 .. m, NEW j \in 1 .. m, NewRows[i] = NewRows[j] PROVE i = j
    OBVIOUS
  <2>1. i - 1 = j - 1
    BY <1>9
  <2> QED
    BY <1>7, <2>1
<1>13. ASSUME P # S
       PROVE  /\ LastOf(P) \in P
              /\ \A x \in P : x = LastOf(P) \/ RowBefore(x, LastOf(P))
              /\ \A x \in S \ P : RowBefore(LastOf(P), x)
  <2>1. PICK z \in S : z \notin P
    BY <1>6, <1>13
  \* A row of the smallest rank is on the page, so the page is not empty.
  <2>2. P # {}
    <3> DEFINE Q == {x \in S : RankIn(S, x) < PageSize + RankIn(S, z) + 1}
    <3>1. z \in Q /\ RankIn(S, z) \in Nat
      BY <1>2, <1>8
    <3>2. PageSize + RankIn(S, z) + 1 \in Nat
      BY <1>2, <3>1
    <3>3. /\ IsFiniteSet(Q) /\ Cardinality(Q) \in Nat
          /\ \A i \in 0 .. Cardinality(Q) - 1 : \E x \in Q : RankIn(S, x) = i
      BY <1>1, <1>2, <3>2, PageDense
    <3>4. Cardinality(Q) # 0
      BY <3>1, <3>3, FS_EmptySet
    <3>5. 0 \in 0 .. Cardinality(Q) - 1
      <4> HIDE DEF Q
      <4> QED
        BY <3>3, <3>4
    <3>6. \E x \in S : RankIn(S, x) = 0
      BY <3>3, <3>5
    <3> QED
      BY <1>2, <1>5, <3>6
  <2>3. m > 0
    <3>1. m # 0
      BY <1>7, <2>2, FS_EmptySet DEF m
    <3> QED
      BY <1>7, <3>1
  <2>4. PICK l \in P : RankIn(S, l) = m - 1
    <3>1. m - 1 \in 0 .. m - 1
      BY <1>7, <2>3
    <3> QED
      BY <1>7, <3>1
  <2>5. \A x \in S, y \in S : RankIn(S, x) < RankIn(S, y) => RowBefore(x, y)
    <3> SUFFICES ASSUME NEW x \in S, NEW y \in S, RankIn(S, x) < RankIn(S, y)
                 PROVE  RowBefore(x, y)
      OBVIOUS
    <3>1. x # y /\ ~ RowBefore(y, x)
      BY <1>8
    <3> QED
      BY <1>1, <3>1, RowOrder DEF RowsApart
  <2>6. \A x \in P : x = l \/ RowBefore(x, l)
    <3> SUFFICES ASSUME NEW x \in P, x # l PROVE RowBefore(x, l)
      OBVIOUS
    <3>1. RankIn(S, x) # RankIn(S, l) /\ RankIn(S, x) \in 0 .. m - 1
      BY <1>7
    <3>2. RankIn(S, x) < RankIn(S, l)
      BY <1>7, <2>4, <3>1
    <3> QED
      BY <1>6, <2>5, <3>2
  <2>7. LastOf(P) = l
    <3>1. l \in P /\ \A y \in P \ {l} : Precedes(y, l)
      BY <1>3, <2>6
    <3>2. LastOf(P) \in P /\ \A y \in P \ {LastOf(P)} : Precedes(y, LastOf(P))
      BY <3>1 DEF LastOf
    <3>3. CASE LastOf(P) # l
      <4>1. RowBefore(l, LastOf(P)) /\ RowBefore(LastOf(P), l)
        BY <1>3, <3>1, <3>2, <3>3
      <4>2. l \in TableRows /\ LastOf(P) \in TableRows
        BY <1>1, <1>6, <3>2
      <4> QED
        BY <4>1, <4>2, RowOrder
    <3> QED
      BY <3>3
  <2>8. \A x \in S \ P : RowBefore(l, x)
    <3> SUFFICES ASSUME NEW x \in S, x \notin P PROVE RowBefore(l, x)
      OBVIOUS
    <3>1. ~ RankIn(S, x) < PageSize /\ RankIn(S, l) < PageSize /\ l \in S
      BY <1>5
    <3>2. RankIn(S, l) < RankIn(S, x)
      BY <1>2, <1>8, <3>1
    <3> QED
      BY <2>5, <3>1, <3>2
  <2> QED
    BY <2>6, <2>7, <2>8
<1> QED
  BY <1>1, <1>6, <1>10, <1>11, <1>12, <1>13 DEF S, P


(* Appending the rows of a page. *)
LEMMA GivenAfter ==
  ASSUME ListingInv, Walking, GetPage
  PROVE  /\ got' \in Seq(TableRows) /\ Len(got') = Len(got) + Len(NewRows)
         /\ Len(got) \in Nat /\ Len(NewRows) \in Nat
         /\ \A i \in 1 .. Len(got) : i \in 1 .. Len(got') /\ got'[i] = got[i]
         /\ \A i \in 1 .. Len(NewRows) :
              Len(got) + i \in 1 .. Len(got') /\ got'[Len(got) + i] = NewRows[i]
         /\ \A i \in 1 .. Len(got') :
              \/ i \in 1 .. Len(got)
              \/ i - Len(got) \in 1 .. Len(NewRows) /\ got'[i] = NewRows[i - Len(got)]
<1>1. got' = got \o NewRows
  BY DEF GetPage, NewRows
<1>2. got \in Seq(TableRows) /\ NewRows \in Seq(TableRows)
  <2>1. PageRows \subseteq TableRows
    BY PageFacts DEF ListingInv
  <2>2. NewRows \in Seq(PageRows)
    BY PageFacts
  <2> HIDE DEF NewRows
  <2>3. NewRows \in Seq(TableRows)
    BY <2>1, <2>2
  <2> QED
    BY <2>3 DEF ListingInv
<1> HIDE DEF NewRows
<1> QED
  BY <1>1, <1>2, ConcatProperties, LenProperties

LEMMA GetPageStep == ListingInv /\ GetPage => ListingInv'
<1> SUFFICES ASSUME ListingInv, GetPage PROVE ListingInv'
  OBVIOUS
<1> DEFINE l == LastOf(PageRows)
<1> DEFINE n == Len(got)
<1>0. Walking
  BY DEF GetPage
<1>1. /\ PageRows \subseteq Matching /\ Matching \subseteq table
      /\ \A x \in PageRows : \E i \in 1 .. Len(NewRows) : NewRows[i] = x
      /\ \A i, j \in 1 .. Len(NewRows) : NewRows[i] = NewRows[j] => i = j
      /\ \A i \in 1 .. Len(NewRows) : NewRows[i] \in PageRows
  BY <1>0, PageFacts, ElementOfSeq
<1>2. PageRows # Matching =>
        /\ l \in PageRows
        /\ \A x \in PageRows : x = l \/ RowBefore(x, l)
        /\ \A x \in Matching \ PageRows : RowBefore(l, x)
  BY <1>0, PageFacts
<1>3. /\ got' \in Seq(TableRows) /\ Len(got') = n + Len(NewRows)
      /\ n \in Nat /\ Len(NewRows) \in Nat
      /\ \A i \in 1 .. n : i \in 1 .. Len(got') /\ got'[i] = got[i]
      /\ \A i \in 1 .. Len(NewRows) : n + i \in 1 .. Len(got') /\ got'[n + i] = NewRows[i]
      /\ \A i \in 1 .. Len(got') :
           \/ i \in 1 .. n
           \/ i - n \in 1 .. Len(NewRows) /\ got'[i] = NewRows[i - n]
  BY <1>0, GivenAfter
<1>4. /\ UNCHANGED <<exact, table, steady>> /\ cursor.page # "end"
      /\ cursor' = IF PageRows = Matching THEN [page |-> "end"]
                   ELSE [page |-> "next", milli |-> Milli(l), id |-> l.id]
  BY <1>0 DEF GetPage, Walking
<1> HIDE DEF l, n
<1>5. \/ cursor'.page = "end" /\ PageRows = Matching
      \/ /\ cursor'.page = "next" /\ PageRows # Matching
         /\ cursor'.milli = Milli(l) /\ cursor'.id = l.id
  BY <1>4
<1>6. \A x \in table : (x \in Matching) <=> (cursor.page = "first" \/ Behind(x, cursor))
  BY DEF Matching
<1>7. table \subseteq TableRows /\ RowsApart(table) /\ exact = FALSE /\ steady \subseteq table
  BY DEF ListingInv
<1>8. \A i \in 1 .. n : got[i] \in TableRows
  BY ElementOfSeq DEF ListingInv, n
\* A row that was given before is not on this page.
<1>9. \A i \in 1 .. n, x \in Matching : got[i].id # x.id
  <2> SUFFICES ASSUME NEW i \in 1 .. n, NEW x \in Matching, got[i].id = x.id PROVE FALSE
    OBVIOUS
  <2>1. x \in table /\ got[i] = x
    BY <1>1 DEF ListingInv, n
  <2>2. cursor.page # "first"
    <3>1. n # 0
      BY <1>3
    <3> QED
      BY <3>1 DEF ListingInv, n
  <2>3. cursor.page = "next"
    BY <1>4, <2>2 DEF ListingInv
  <2> QED
    BY <1>6, <2>1, <2>3 DEF ListingInv, n
\* The new cursor is the last row, and it is behind the old one.
<1>10. PageRows # Matching => \A x : Behind(x, cursor)' <=> RowBefore(l, x)
  BY <1>4, <1>5, <1>7 DEF Behind, RowBefore
<1>11. \A i, j \in 1 .. Len(got') : got'[i].id = got'[j].id => i = j
  <2> SUFFICES ASSUME NEW i \in 1 .. Len(got'), NEW j \in 1 .. Len(got'), got'[i].id = got'[j].id
               PROVE  i = j
    OBVIOUS
  <2>1. CASE i \in 1 .. n /\ j \in 1 .. n
    BY <1>3, <2>1 DEF ListingInv, n
  <2>2. CASE i \in 1 .. n /\ j \notin 1 .. n
    <3>1. got'[i] = got[i] /\ got'[j] \in Matching
      BY <1>1, <1>3, <2>2
    <3> QED
      BY <1>9, <2>2, <3>1
  <2>3. CASE i \notin 1 .. n /\ j \in 1 .. n
    <3>1. got'[j] = got[j] /\ got'[i] \in Matching
      BY <1>1, <1>3, <2>3
    <3> QED
      BY <1>9, <2>3, <3>1
  <2>4. CASE i \notin 1 .. n /\ j \notin 1 .. n
    <3>1. /\ i - n \in 1 .. Len(NewRows) /\ j - n \in 1 .. Len(NewRows)
          /\ NewRows[i - n].id = NewRows[j - n].id
      BY <1>3, <2>4
    <3>2. NewRows[i - n] = NewRows[j - n]
      BY <1>1, <1>7, <3>1 DEF RowsApart
    <3>3. i - n = j - n
      BY <1>1, <3>1, <3>2
    <3> QED
      BY <1>3, <3>3
  <2> QED
    BY <2>1, <2>2, <2>3, <2>4
<1>12. \A x \in table, i \in 1 .. Len(got') : got'[i].id = x.id => got'[i] = x
  <2> SUFFICES ASSUME NEW x \in table, NEW i \in 1 .. Len(got'), got'[i].id = x.id
               PROVE  got'[i] = x
    OBVIOUS
  <2>1. CASE i \in 1 .. n
    BY <1>3, <2>1 DEF ListingInv, n
  <2>2. CASE i \notin 1 .. n
    <3>1. got'[i] \in table
      BY <1>1, <1>3, <2>2
    <3> QED
      BY <1>7, <3>1 DEF RowsApart
  <2> QED
    BY <2>1, <2>2
<1>13. cursor'.page = "next" =>
         /\ cursor'.milli \in Int /\ cursor'.id \in Nat
         /\ \A i \in 1 .. Len(got') : ~ Behind(got[i], cursor)'
  <2> SUFFICES ASSUME PageRows # Matching
               PROVE  /\ Milli(l) \in Int /\ l.id \in Nat
                      /\ \A i \in 1 .. Len(got') : ~ RowBefore(l, got'[i])
    <3>0. PageRows # Matching => exact' = FALSE /\ cursor'.milli = Milli(l) /\ cursor'.id = l.id
      BY <1>4, <1>5, <1>7
    <3>1. ASSUME NEW i \in 1 .. Len(got'), PageRows # Matching
          PROVE  (Behind(got[i], cursor))' <=> RowBefore(l, got'[i])
      BY <3>0, <3>1 DEF Behind, RowBefore, Milli
    <3> QED
      BY <1>5, <3>1
  <2>1. l \in PageRows /\ l \in Matching /\ l \in table /\ l \in TableRows
    BY <1>1, <1>2, <1>7
  <2>2. ASSUME NEW i \in 1 .. Len(got') PROVE ~ RowBefore(l, got'[i])
    <3>1. CASE i \in 1 .. n
      <4>0. got'[i] = got[i] /\ got[i] \in TableRows
        BY <1>3, <1>8, <3>1
      <4>1. CASE cursor.page = "first"
        BY <1>3, <3>1, <4>1 DEF ListingInv, n
      <4>2. CASE cursor.page = "next"
        <5>1. Behind(l, cursor) /\ ~ Behind(got[i], cursor)
          BY <1>6, <2>1, <3>1, <4>2 DEF ListingInv, n
        <5>2. /\ Milli(l) \in Int /\ l.id \in Nat /\ Milli(got[i]) \in Int /\ got[i].id \in Nat
              /\ cursor.milli \in Int /\ cursor.id \in Nat
          BY <2>1, <4>0, <4>2, MilliType DEF ListingInv
        <5> QED
          BY <1>7, <4>0, <5>1, <5>2 DEF Behind, RowBefore
      <4> QED
        BY <1>4, <4>1, <4>2 DEF ListingInv
    <3>2. CASE i \notin 1 .. n
      <4>1. got'[i] \in PageRows
        BY <1>1, <1>3, <3>2
      <4>2. got'[i] = l \/ RowBefore(got'[i], l)
        BY <1>2, <4>1
      <4>3. got'[i] \in TableRows
        BY <1>1, <1>7, <4>1
      <4> QED
        BY <2>1, <4>2, <4>3, RowOrder
    <3> QED
      BY <3>1, <3>2
  <2> QED
    BY <2>1, <2>2, MilliType
<1>14. \A x \in steady : \/ Gave(x)' \/ cursor'.page = "first"
                         \/ cursor'.page = "next" /\ Behind(x, cursor)'
  <2> SUFFICES ASSUME NEW x \in steady
               PROVE  Gave(x)' \/ (cursor'.page = "next" /\ Behind(x, cursor)')
    OBVIOUS
  <2>1. CASE Gave(x)
    BY <1>3, <2>1 DEF Gave, n
  <2>2. CASE x \in PageRows
    BY <1>1, <1>3, <2>2 DEF Gave
  <2>3. CASE ~ Gave(x) /\ x \notin PageRows
    <3>1. x \in Matching
      BY <1>4, <1>6, <1>7, <2>3 DEF ListingInv
    <3> QED
      BY <1>2, <1>5, <1>10, <2>3, <3>1
  <2> QED
    BY <2>1, <2>2, <2>3
<1> QED
  BY <1>3, <1>4, <1>5, <1>7, <1>11, <1>12, <1>13, <1>14 DEF ListingInv

LEMMA ListingStep == ListingInv /\ [ListingNext]_listingVars => ListingInv'
<1> SUFFICES ASSUME ListingInv, [ListingNext]_listingVars PROVE ListingInv'
  OBVIOUS
<1>1. ASSUME NEW x \in TableRows, AddRow(x) PROVE ListingInv'
  <2>1. /\ \A y \in table : y.id # x.id
        /\ \A i \in 1 .. Len(got) : got[i].id # x.id
        /\ table' = table \cup {x} /\ UNCHANGED <<exact, cursor, got, steady>>
    <3>1. DOMAIN got = 1 .. Len(got)
      BY DEF ListingInv
    <3> QED
      BY <1>1, <3>1 DEF AddRow
  <2>2. table' \subseteq TableRows /\ RowsApart(table') /\ steady' \subseteq table'
    BY <2>1 DEF ListingInv, RowsApart
  <2>3. \A y \in table', i \in 1 .. Len(got') : got'[i].id = y.id => got'[i] = y
    BY <2>1 DEF ListingInv
  <2> QED
    BY <2>1, <2>2, <2>3 DEF ListingInv, Behind, Gave
<1>2. ASSUME NEW x \in table, DropRow(x) PROVE ListingInv'
  <2>1. table' = table \ {x} /\ steady' = steady \ {x} /\ UNCHANGED <<exact, cursor, got>>
    BY <1>2 DEF DropRow
  <2>2. table' \subseteq TableRows /\ RowsApart(table') /\ steady' \subseteq table'
    BY <2>1 DEF ListingInv, RowsApart
  <2> QED
    BY <2>1, <2>2 DEF ListingInv, Behind, Gave
<1>3. CASE UNCHANGED listingVars
  BY <1>3 DEF listingVars, ListingInv, RowsApart, Behind, Gave
<1> QED
  BY <1>1, <1>2, <1>3, GetPageStep DEF ListingNext

(* A list whose cursor keeps all that its order looks at gives each row    *)
(* that was there all the time exactly once, and no row twice, whatever is *)
(* created or deleted during the walk: any number of rows, pages of any    *)
(* size, any number of rows in one millisecond.                            *)
THEOREM RowsAlwaysOnce ==
  ASSUME TRUE \notin Exactness
  PROVE  ListingSpec => []EachRowOnce
<1>1. ListingInv => EachRowOnce
  <2> SUFFICES ASSUME ListingInv PROVE EachRowOnce
    OBVIOUS
  <2>0. DOMAIN got = 1 .. Len(got) /\ Len(got) \in Nat
    BY DEF ListingInv
  <2>1. ASSUME NEW x \in TableRows
        PROVE  /\ Given(x) <= 1
               /\ Gave(x) => Given(x) = 1
    <3> DEFINE G == {i \in DOMAIN got : got[i].id = x.id}
    <3>1. CASE G = {}
      <4>1. Cardinality(G) = 0
        BY <3>1, FS_EmptySet
      <4>2. ~ Gave(x)
        BY <2>0, <3>1 DEF Gave
      <4> QED
        BY <4>1, <4>2 DEF Given
    <3>2. CASE G # {}
      <4>1. PICK i \in G : TRUE
        BY <3>2
      <4>2. G = {i}
        BY <2>0, <4>1 DEF ListingInv
      <4>3. Cardinality(G) = 1
        BY <4>2, FS_Singleton
      <4> QED
        BY <4>3 DEF Given
    <3> QED
      BY <3>1, <3>2
  <2>2. ASSUME ~ Walking, NEW x \in steady PROVE Given(x) = 1
    <3>1. Gave(x) /\ x \in TableRows
      BY <2>2 DEF Walking, ListingInv
    <3> QED
      BY <2>1, <3>1
  <2> QED
    BY <2>1, <2>2 DEF EachRowOnce
<1>2. ListingInit => ListingInv
  BY ListingInitInv
<1> QED
  BY <1>1, <1>2, ListingStep, PTL DEF ListingSpec
=============================================================================
