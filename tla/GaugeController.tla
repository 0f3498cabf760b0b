-------------------------- MODULE GaugeController ---------------------------
(***************************************************************************)
(* contracts/dao/GaugeController.vy with the emissions of YB.vy: users     *)
(* spread the votes of their locks over gauges, and every gauge earns the  *)
(* share of the emissions that its weight, adjusted by what is staked in   *)
(* it, has in the total.  The locks are those of the abstract module       *)
(* VeLocks; the controller is their transfer clearance checker.            *)
(*                                                                         *)
(* The mint of YB, reserve * (1 - exp(- rate * dt)), is replaced by its    *)
(* linear part, and 10**18 by WAD.  The cap of 500 weeks on _get_weight is *)
(* left out: every vote has ended by then, and a point no longer changes.  *)
(***************************************************************************)
EXTENDS VeLocks, Sequences, Sums

CONSTANTS
    Gauges,
    WAD,                \* 10**18
    BPS,                \* all of a user's voting power: 10000
    Weights,            \* powers users give to gauges
    WEIGHT_VOTE_DELAY,
    Adjustments,        \* what Gauge.get_adjustment answers
    RATE,               \* YB minted per unit of time at full rate
    RESERVE,            \* YB that can be minted
    MaxAmount           \* bound on the amount of a lock

ASSUME ControllerAssumption ==
    /\ IsFiniteSet(Users)
    /\ IsFiniteSet(Gauges)
    /\ WAD \in Nat \ {0}
    /\ BPS \in Nat \ {0}
    /\ Weights \subseteq 0..BPS
    /\ WEIGHT_VOTE_DELAY \in Nat \ {0}
    /\ Adjustments \subseteq Nat
    /\ RATE \in Nat
    /\ RESERVE \in Nat
    /\ MaxAmount \in Nat
    /\ StartTime >= WEIGHT_VOTE_DELAY

VARIABLES
    vote_user_slopes,  \* by user and gauge
    vote_user_power,   \* by user
    last_user_vote,    \* by user and gauge
    is_killed,         \* by gauge
    gc,                \* weights and emissions, see GcInit
    overcredited       \* history: the head starts that gauges got, times WAD

userVars == <<vote_user_slopes, vote_user_power, last_user_vote>>
vars == <<veVars, userVars, is_killed, gc, overcredited>>

NoVote == [slope |-> 0, bias |-> 0, power |-> 0, end |-> 0]

Smaller(a, b) == IF a <= b THEN a ELSE b
Larger(a, b) == IF a >= b THEN a ELSE b

\* unsafe_div: the EVM divides by zero to zero.
unsafe_div(a, b) == IF b = 0 THEN 0 ELSE a \div b

Added(s, g) == s.time_weight[g] > 0

\* The gauges of a ballot.
Chosen(gauges) == {gauges[i] : i \in DOMAIN gauges}

-----------------------------------------------------------------------------
(***************************************************************************)
(* Checkpoints.  Operators on a state s of the controller, so that a vote  *)
(* can chain them.                                                         *)
(***************************************************************************)
\* A point dt later, where the slope drops by change.
Decayed(pt, dt, change) ==
    LET bias == pt.bias - Smaller(pt.slope * dt, pt.bias)
    IN  [bias |-> bias,
         slope |-> IF bias = 0 THEN 0 ELSE pt.slope - Smaller(change, pt.slope)]

\* The last checkpoint, at t, and the starts of the weeks after it.
TimeAt(t, k) == IF k = 0 THEN t ELSE RoundToWeek(t) + k * WEEK

WeeksSince(t) == (RoundToWeek(now) - RoundToWeek(t)) \div WEEK

GetWeight(s, g) ==
    LET t == s.time_weight[g]
        changes == s.changes_weight[g]
        weeks == WeeksSince(t)
        pt[k \in 0..weeks] ==
            IF k = 0 THEN s.point_weight[g]
            ELSE Decayed(pt[k - 1], TimeAt(t, k) - TimeAt(t, k - 1), changes[TimeAt(t, k)])
    IN  IF ~Added(s, g) THEN [bias |-> 0, slope |-> 0]
        ELSE IF now = TimeAt(t, weeks) THEN pt[weeks]
        ELSE Decayed(pt[weeks], now - TimeAt(t, weeks), changes[now])

\* The share of the full rate that the gauges earn, in units of 1 / WAD.
rate_factor(s) == unsafe_div(s.adjusted_gauge_weight_sum * WAD, s.gauge_weight_sum)

\* YB.emit: what is minted since last_minted, at the rate the gauges earned.
\* Its assertion rate_factor <= 10**18 is the theorem RateFactorAtMostOne of
\* module GaugeController_proofs.
Emission(s) ==
    IF s.last_minted = 0 THEN 0
    ELSE Smaller((RATE * (now - s.last_minted) * rate_factor(s)) \div WAD,
                 RESERVE - s.minted)

\* Mutant: what the gauge was credited with before is credited again.
Credit_Again(s, g, specific_emissions) ==
    (specific_emissions * s.adjusted_gauge_weight[g]) \div WAD

\* What a gauge has earned since its last checkpoint, at its weight then.
Credit(s, g, specific_emissions) ==
    ((specific_emissions - s.specific_emissions_per_gauge[g])
        * s.adjusted_gauge_weight[g]) \div WAD

\* The gauge's point and weights, and the sums over all gauges.
WeighedGauge(s, g, pt, aw) ==
    [s EXCEPT !.point_weight[g] = pt,
              !.gauge_weight[g] = pt.bias,
              !.gauge_weight_sum = @ + pt.bias - s.gauge_weight[g],
              !.adjusted_gauge_weight[g] = aw,
              !.adjusted_gauge_weight_sum = @ + aw - s.adjusted_gauge_weight[g]]

AdjustedWeight(bias, get_adjustment) == (bias * Smaller(get_adjustment, WAD)) \div WAD

\* The emissions since the last mint are shared at the weights before.
CheckpointGauge(s, g, get_adjustment) ==
    LET pt == GetWeight(s, g)
        aw == AdjustedWeight(pt.bias, get_adjustment)
        d_emissions == Emission(s)
        specific == s.specific_emissions
                        + unsafe_div(d_emissions * WAD, s.adjusted_gauge_weight_sum)
        minted == [WeighedGauge(s, g, pt, aw) EXCEPT
            !.minted = @ + d_emissions,
            !.last_minted = IF @ = 0 THEN 0 ELSE now,
            !.time_weight[g] = now,
            !.specific_emissions = specific]
    IN  IF now > s.time_weight[g]
        THEN [minted EXCEPT !.weighted_emissions_per_gauge[g] = @ + Credit(s, g, specific),
                            !.specific_emissions_per_gauge[g] = specific]
        ELSE minted

-----------------------------------------------------------------------------
(***************************************************************************)
(* Votes                                                                   *)
(***************************************************************************)
\* What a vote weighs now.
VoteBias(vote) ==
    IF vote.end = MaxUint THEN vote.bias
    ELSE vote.slope * (Larger(vote.end, now) - now)

NewVote(u, weight) ==
    LET slope == (Slope(locked[u], now) * weight) \div BPS
        end == locked[u].end
    IN  [slope |-> slope,
         bias |-> IF end = MaxUint THEN (votes[u] * weight) \div BPS ELSE slope * (end - now),
         power |-> weight,
         end |-> end]

\* Mutant: the change scheduled for the old vote is not cancelled.
Replaced_NotCancelled(s, g, old, new) ==
    LET pt == s.point_weight[g]
        live == old.end > now
        changes == s.changes_weight[g]
    IN  [s EXCEPT
            !.point_weight[g] =
                [bias |-> Larger(pt.bias + new.bias, VoteBias(old)) - VoteBias(old),
                 slope |-> IF live THEN Larger(pt.slope + new.slope, old.slope) - old.slope
                           ELSE pt.slope + new.slope],
            !.changes_weight[g] = [changes EXCEPT ![new.end] = @ + new.slope]]

\* Replacing a user's vote for a gauge in its point and its scheduled changes.
Replaced(s, g, old, new) ==
    LET pt == s.point_weight[g]
        live == old.end > now
        changes == IF live THEN [s.changes_weight[g] EXCEPT ![old.end] = @ - old.slope]
                   ELSE s.changes_weight[g]
    IN  [s EXCEPT
            !.point_weight[g] =
                [bias |-> Larger(pt.bias + new.bias, VoteBias(old)) - VoteBias(old),
                 slope |-> IF live THEN Larger(pt.slope + new.slope, old.slope) - old.slope
                           ELSE pt.slope + new.slope],
            !.changes_weight[g] = [changes EXCEPT ![new.end] = @ + new.slope]]

CastVote(s, u, g, weight, get_adjustment) ==
    LET before == CheckpointGauge(s, g, get_adjustment)
        voted == Replaced(before, g, vote_user_slopes[u][g], NewVote(u, weight))
    IN  CheckpointGauge(voted, g, get_adjustment)

MayVote(u, g, weight) ==
    LET old == vote_user_slopes[u][g]
    IN  /\ weight # 0 => ~is_killed[g]
        /\ Added(gc, g)
        /\ now >= last_user_vote[u][g] + WEIGHT_VOTE_DELAY
        /\ old.end > now => gc.changes_weight[g][old.end] >= old.slope

\* The controller after all votes of a ballot.
Cast(u, gauges, weights, adjustments) ==
    LET voted[i \in 0..Len(gauges)] ==
            IF i = 0 THEN gc
            ELSE CastVote(voted[i - 1], u, gauges[i], weights[gauges[i]],
                          adjustments[gauges[i]])
    IN  voted[Len(gauges)]

\* Mutant: the power of the vote that is replaced is not released.
VoteForGaugeWeights_OldPowerKept(u, gauges, weights, adjustments) ==
    LET chosen == Chosen(gauges)
        power_used == vote_user_power[u] + Total([g \in chosen |-> weights[g]])
    IN  /\ locked[u].end > now
        /\ \A g \in chosen : MayVote(u, g, weights[g])
        /\ power_used <= BPS
        /\ gc' = Cast(u, gauges, weights, adjustments)
        /\ vote_user_power' = [vote_user_power EXCEPT ![u] = power_used]
        /\ vote_user_slopes' = [vote_user_slopes EXCEPT ![u] =
               [g \in Gauges |-> IF g \in chosen THEN NewVote(u, weights[g]) ELSE @[g]]]
        /\ last_user_vote' = [last_user_vote EXCEPT ![u] =
               [g \in Gauges |-> IF g \in chosen THEN now ELSE @[g]]]
        /\ UNCHANGED <<veVars, is_killed>>

\* vote_for_gauge_weights: a ballot is a sequence of gauges and the weights
\* given to them.  A gauge named twice fails the vote delay.
VoteForGaugeWeights(u, gauges, weights, adjustments) ==
    LET chosen == Chosen(gauges)
        power_used == vote_user_power[u] + Total([g \in chosen |-> weights[g]])
                        - Total([g \in chosen |-> vote_user_slopes[u][g].power])
    IN  /\ locked[u].end > now
        /\ \A g \in chosen : MayVote(u, g, weights[g])
        /\ power_used <= BPS
        /\ gc' = Cast(u, gauges, weights, adjustments)
        /\ vote_user_power' = [vote_user_power EXCEPT ![u] = power_used]
        /\ vote_user_slopes' = [vote_user_slopes EXCEPT ![u] =
               [g \in Gauges |-> IF g \in chosen THEN NewVote(u, weights[g]) ELSE @[g]]]
        /\ last_user_vote' = [last_user_vote EXCEPT ![u] =
               [g \in Gauges |-> IF g \in chosen THEN now ELSE @[g]]]
        /\ UNCHANGED <<veVars, is_killed>>

-----------------------------------------------------------------------------
(***************************************************************************)
(* Other operations                                                        *)
(***************************************************************************)
AddGauge(g) ==
    /\ ~Added(gc, g)
    /\ gc' = [gc EXCEPT !.time_weight[g] = now,
                        !.specific_emissions_per_gauge[g] = gc.specific_emissions]
    /\ UNCHANGED <<veVars, userVars, is_killed>>

SetKilled(g, k) ==
    /\ Added(gc, g)
    /\ is_killed' = [is_killed EXCEPT ![g] = k]
    /\ UNCHANGED <<veVars, userVars, gc>>

\* checkpoint, callable by anyone.
Checkpoint(g, get_adjustment) ==
    /\ Added(gc, g)
    /\ gc' = CheckpointGauge(gc, g, get_adjustment)
    /\ UNCHANGED <<veVars, userVars, is_killed>>

\* emit, called by a gauge for itself: pays out what it has earned.
Emit(g, get_adjustment) ==
    LET s == CheckpointGauge(gc, g, get_adjustment)
        to_send == s.weighted_emissions_per_gauge[g] - s.sent_emissions_per_gauge[g]
    IN  /\ Added(gc, g)
        /\ to_send <= s.minted - s.sent
        /\ gc' = [s EXCEPT !.sent_emissions_per_gauge[g] = s.weighted_emissions_per_gauge[g],
                           !.sent = @ + to_send]
        /\ UNCHANGED <<veVars, userVars, is_killed>>

\* YB.start_emissions by its owner.
StartEmissions ==
    /\ gc.last_minted = 0
    /\ gc' = [gc EXCEPT !.last_minted = now]
    /\ UNCHANGED <<veVars, userVars, is_killed>>

\* Mutant: locks with votes can be moved.
ve_transfer_allowed_Always(u) == TRUE

\* The operations of the VotingEscrow.  It asks the controller before a lock
\* is transferred or made finite.
ve_transfer_allowed(u) == vote_user_power[u] = 0

EscrowStep ==
    /\ \/ \E u \in Users : Locking(u) \/ Withdraw(u)
       \/ \E u \in Users :
              /\ locked[u].end = MaxUint => ve_transfer_allowed(u)
              /\ InfiniteLockToggle(u)
       \/ \E owner, to \in Users : ve_transfer_allowed(owner) /\ Transfer(owner, to)
       \/ Tick
    /\ \A u \in Users : locked'[u].amount <= MaxAmount
    /\ UNCHANGED <<userVars, is_killed, gc>>

-----------------------------------------------------------------------------
GcInit ==
    LET zero == [g \in Gauges |-> 0]
    IN  [point_weight |-> [g \in Gauges |-> [bias |-> 0, slope |-> 0]],
         changes_weight |-> [g \in Gauges |-> [t \in Times \cup {MaxUint} |-> 0]],
         time_weight |-> zero,
         gauge_weight |-> zero,
         gauge_weight_sum |-> 0,
         adjusted_gauge_weight |-> zero,
         adjusted_gauge_weight_sum |-> 0,
         specific_emissions |-> 0,
         specific_emissions_per_gauge |-> zero,
         weighted_emissions_per_gauge |-> zero,
         sent_emissions_per_gauge |-> zero,
         sent |-> 0,         \* YB.transfer so far
         minted |-> 0,       \* YB.emit so far
         last_minted |-> 0]

Init ==
    /\ VeInit
    /\ vote_user_slopes = [u \in Users |-> [g \in Gauges |-> NoVote]]
    /\ vote_user_power = [u \in Users |-> 0]
    /\ last_user_vote = [u \in Users |-> [g \in Gauges |-> 0]]
    /\ is_killed = [g \in Gauges |-> FALSE]
    /\ gc = GcInit
    /\ overcredited = 0

\* The gauges of a ballot, none named twice.
Ballots ==
    {b \in UNION {[1..n -> Gauges] : n \in 1..Cardinality(Gauges)} :
        \A i, j \in DOMAIN b : i # j => b[i] # b[j]}

ControllerStep ==
    \/ EscrowStep
    \/ \E u \in Users, b \in Ballots :
          \E w \in [Chosen(b) -> Weights], a \in [Chosen(b) -> Adjustments] :
              VoteForGaugeWeights(u, b, w, a)
    \/ \E g \in Gauges :
          \/ AddGauge(g)
          \/ SetKilled(g, ~is_killed[g])
          \/ \E a \in Adjustments : Checkpoint(g, a) \/ Emit(g, a)
    \/ StartEmissions

\* What the gauges last visited in this very second would be credited with, but
\* for the condition on the time.  A checkpoint leaves nothing: no more is
\* minted in its second.  A gauge only added gets a head start, if a vote for
\* it, in the same second, is the first to mint since an earlier one: it will
\* share in what was minted before it had any weight.
HeadStarts(s) ==
    [g \in Gauges |->
        IF s.time_weight[g] = now
        THEN (s.specific_emissions - s.specific_emissions_per_gauge[g])
                 * s.adjusted_gauge_weight[g]
        ELSE 0]

\* Head starts are booked when their second is over.  Nothing reads them.
BookHeadStarts ==
    overcredited' = IF now' = now THEN overcredited
                    ELSE overcredited + Total(HeadStarts(gc))

Next == ControllerStep /\ BookHeadStarts

Spec == Init /\ [][Next]_vars

-----------------------------------------------------------------------------
(***************************************************************************)
(* Properties                                                              *)
(***************************************************************************)
Vote == [slope : Nat, bias : Nat, power : 0..BPS, end : Times \cup {MaxUint}]
WeightPoint == [bias : Nat, slope : Nat]

\* The states of gc at time t.
GcState(t) ==
    [point_weight : [Gauges -> WeightPoint],
     changes_weight : [Gauges -> [Times \cup {MaxUint} -> Nat]],
     time_weight : [Gauges -> 0..t],
     gauge_weight : [Gauges -> Nat],
     gauge_weight_sum : Nat,
     adjusted_gauge_weight : [Gauges -> Nat],
     adjusted_gauge_weight_sum : Nat,
     specific_emissions : Nat,
     specific_emissions_per_gauge : [Gauges -> Nat],
     weighted_emissions_per_gauge : [Gauges -> Nat],
     sent_emissions_per_gauge : [Gauges -> Nat],
     sent : Nat,
     minted : Nat,
     last_minted : 0..t]

TypeOK ==
    /\ now \in StartTime..MaxTime
    /\ locked \in [Users -> Lock]
    /\ votes \in [Users -> Nat]
    /\ vote_user_slopes \in [Users -> [Gauges -> Vote]]
    /\ vote_user_power \in [Users -> 0..BPS]
    /\ last_user_vote \in [Users -> [Gauges -> 0..now]]
    /\ is_killed \in [Gauges -> BOOLEAN]
    /\ gc \in GcState(now)
    /\ overcredited \in Nat

SlopeIf(vote, counts) == IF counts THEN vote.slope ELSE 0

(* The weight of a gauge is what the users' votes for it weigh now, and its
   slope and the scheduled changes are theirs: no re-vote, expiry or late
   checkpoint leaves a remainder behind. *)
GaugeWeightIsSumOfVotes ==
    \A g \in Gauges :
        LET vote(u) == vote_user_slopes[u][g]
        IN  /\ GetWeight(gc, g).bias = Total([u \in Users |-> VoteBias(vote(u))])
            /\ GetWeight(gc, g).slope
                 = Total([u \in Users |-> SlopeIf(vote(u), now < vote(u).end /\ vote(u).end # MaxUint)])
            /\ \A t \in (now + 1)..(MaxTime + MAXTIME) :
                   gc.changes_weight[g][t]
                     = Total([u \in Users |-> SlopeIf(vote(u), vote(u).end = t)])

(* vote_user_power, kept incrementally, is the power of all recorded votes. *)
PowerIsSumOfVotes ==
    \A u \in Users :
        vote_user_power[u] = Total([g \in Gauges |-> vote_user_slopes[u][g].power])

(* The votes a user has cast never weigh more than the user's lock does:
   through extensions, infinite locks, transfers and withdrawals, which the
   clearance check lets through only without votes. *)
VotesBacked ==
    \A u \in Users :
        Total([g \in Gauges |-> VoteBias(vote_user_slopes[u][g])]) <= votes[u]

\* What a gauge has earned and not been sent, up to the last mint.
Owed(g) ==
    gc.weighted_emissions_per_gauge[g] - gc.sent_emissions_per_gauge[g]
        + Credit(gc, g, gc.specific_emissions)

(* The controller holds the YB that its gauges have earned, so that emit can
   pay, but for the head starts of gauges that got votes in the second in which
   they were added: nothing else, no rounding, order of checkpoints, re-vote or
   change of adjustment, ever promises more than was minted. *)
EmissionsCovered ==
    Total([g \in Gauges |-> Owed(g)]) * WAD
        <= (gc.minted - gc.sent) * WAD + overcredited + Total(HeadStarts(gc))
=============================================================================
