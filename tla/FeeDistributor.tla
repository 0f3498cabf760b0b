--------------------------- MODULE FeeDistributor ---------------------------
(***************************************************************************)
(* contracts/dao/FeeDistributor.vy: tokens that arrive are spread over the *)
(* next OVER_WEEKS epochs, and each user claims, epoch by epoch, the share *)
(* that their votes had at the epoch's second.  The votes are those of the *)
(* module VeLocks, which the VotingEscrow implements.                      *)
(*                                                                         *)
(* The ids that keep the accumulators of one claim apart from those of     *)
(* another (user_claim_id) are left out: an accumulator is a sum here.     *)
(* The caps of 50 on epochs and token sets per claim are beyond every      *)
(* bound in use.                                                           *)
(***************************************************************************)
EXTENDS VeLocks, Sequences, FiniteSets, Sums

CONSTANTS
    Tokens,
    OVER_WEEKS,       \* epochs that an arrival is spread over
    FirstSet,         \* the token set of the constructor
    TokenSets,        \* token sets the owner may add
    Arrivals,         \* amounts of tokens that arrive
    EpochCounts,      \* epoch_count of the claims
    Cliffs,           \* the users that are cliff escrows
    CliffOf,          \* the cliff escrow of a user, or NoCliff
    NoCliff,
    ClaimsMissEpochs, \* no claim is in the very second an epoch begins
    \* Bounds:
    ArrivalTimes,     \* when tokens arrive
    OwnerTimes,       \* when the owner recovers tokens and uses the kill switch
    Recovered,        \* the tokens that the owner recovers
    MaxLocked,        \* the amount of all locks
    MaxSets,          \* the number of token sets
    MaxArrived        \* what arrives of a token

ASSUME DistributorAssumption ==
    /\ IsFiniteSet(Users)
    /\ OVER_WEEKS \in Nat \ {0}
    /\ FirstSet \subseteq Tokens
    /\ \A set \in TokenSets : set \subseteq Tokens
    /\ Arrivals \subseteq Nat \ {0}
    /\ EpochCounts \subseteq Nat \ {0}
    /\ Cliffs \subseteq Users
    /\ NoCliff \notin Users
    /\ CliffOf \in [Users -> Cliffs \cup {NoCliff}]
    /\ ClaimsMissEpochs \in BOOLEAN
    /\ {MaxLocked, MaxSets, MaxArrived} \subseteq Nat

VARIABLES
    votes_at,               \* by epoch and user: getPastVotes
    last_claimed_for,       \* by user
    claimed_epoch_for,      \* by user and token
    token_sets,             \* the last one is current
    initial_set_for_epoch,
    max_set_for_epoch,
    balances_for_epoch,     \* by epoch and token
    token_balances,         \* by token, as last accounted for
    balance,                \* by token, what the contract holds
    is_killed,
    arrived,                \* by token, all that ever arrived
    paid,                   \* by user, epoch and token: what was claimed
    drained                 \* tokens that the owner took out while killed

setVars == <<token_sets, initial_set_for_epoch, max_set_for_epoch>>
claimVars == <<last_claimed_for, claimed_epoch_for, paid>>
escrowVars == <<veVars, votes_at>>
vars == <<escrowVars, setVars, claimVars, balances_for_epoch, token_balances,
          balance, is_killed, arrived, drained>>

NextEpoch(t) == RoundToWeek(t + WEEK)
INITIAL_EPOCH == NextEpoch(StartTime)
Epochs == {RoundToWeek(t) : t \in StartTime..(MaxTime + OVER_WEEKS * WEEK)}

Larger(a, b) == IF a >= b THEN a ELSE b

-----------------------------------------------------------------------------
(***************************************************************************)
(* Funding                                                                 *)
(***************************************************************************)
\* Mutant: the epochs begin with the current one.
FillCursor_Current(t) == RoundToWeek(t)

FillCursor(t) == NextEpoch(t)

FilledEpochs == {FillCursor(now) + k * WEEK : k \in 0..(OVER_WEEKS - 1)}
CurrentSet == token_sets[Len(token_sets)]

\* token_balances after filling: tokens of the current set are counted anew.
NewBalance(t) ==
    IF t \in CurrentSet THEN Larger(balance[t], token_balances[t]) ELSE token_balances[t]

PerEpoch(t) == (NewBalance(t) - token_balances[t]) \div OVER_WEEKS

\* Mutant: an epoch forgets the token sets it already has.
InitialSet_Replaced(e) == Len(token_sets)

InitialSet(e) ==
    IF initial_set_for_epoch[e] = 0 THEN Len(token_sets) ELSE initial_set_for_epoch[e]

FillEpochs ==
    /\ ~is_killed
    /\ initial_set_for_epoch' = [e \in Epochs |->
           IF e \in FilledEpochs THEN InitialSet(e) ELSE initial_set_for_epoch[e]]
    /\ max_set_for_epoch' = [e \in Epochs |->
           IF e \in FilledEpochs THEN Len(token_sets) ELSE max_set_for_epoch[e]]
    /\ balances_for_epoch' = [e \in Epochs |-> [t \in Tokens |->
           balances_for_epoch[e][t] + (IF e \in FilledEpochs THEN PerEpoch(t) ELSE 0)]]

\* fill_epochs, callable by anyone.
FillEpochsCall ==
    /\ FillEpochs
    /\ token_balances' = [t \in Tokens |-> NewBalance(t)]
    /\ UNCHANGED <<escrowVars, claimVars, token_sets, balance, is_killed, arrived, drained>>

AddTokenSet(token_set) ==
    /\ Len(token_sets) < MaxSets
    /\ FillEpochs
    /\ token_balances' = [t \in Tokens |-> NewBalance(t)]
    /\ token_sets' = Append(token_sets, token_set)
    /\ UNCHANGED <<escrowVars, claimVars, balance, is_killed, arrived, drained>>

-----------------------------------------------------------------------------
(***************************************************************************)
(* Claims                                                                  *)
(***************************************************************************)
getPastTotalSupply(e) == Total(votes_at[e])

\* The tokens of all sets that were current while the epoch was filled.
TokensOf(e) ==
    UNION {token_sets[i] : i \in (initial_set_for_epoch'[e]..max_set_for_epoch'[e]) \ {0}}

Share(user, e, t) ==
    (balances_for_epoch[e][t] * votes_at[e][user]) \div getPastTotalSupply(e)

FirstEpoch(user) ==
    IF last_claimed_for[user] = 0 THEN INITIAL_EPOCH ELSE last_claimed_for[user] + WEEK

DueEpochs(user, epoch_count) ==
    {FirstEpoch(user) + k * WEEK : k \in 0..(epoch_count - 1)} \cap 0..now

\* Mutant: the transfer is not booked.
AfterTransfer_NotBooked(t, amount) == NewBalance(t)

\* token_balances after a transfer: whatever the contract holds.
AfterTransfer(t, amount) == IF amount > 0 THEN balance[t] - amount ELSE NewBalance(t)

\* _claim: user is whose votes count.  An epoch without any votes divides by
\* zero as soon as a token was current in it.
Claim(user, epoch_count) ==
    LET due == DueEpochs(user, epoch_count)
        Claimed(e, t) == t \in TokensOf(e) /\ claimed_epoch_for[user][t] < e
        epochs == [t \in Tokens |-> {e \in due : Claimed(e, t)}]
        amount == [t \in Tokens |-> Total([e \in epochs[t] |-> Share(user, e, t)])]
    IN  /\ FillEpochs
        /\ \A t \in Tokens : \A e \in epochs[t] : getPastTotalSupply(e) > 0
        /\ \A t \in Tokens : amount[t] <= balance[t]
        /\ last_claimed_for' = [last_claimed_for EXCEPT ![user] =
               IF due = {} THEN @ ELSE Max(due)]
        /\ claimed_epoch_for' = [claimed_epoch_for EXCEPT ![user] =
               [t \in Tokens |-> IF epochs[t] = {} THEN @[t] ELSE Max(epochs[t])]]
        /\ paid' = [paid EXCEPT ![user] = [e \in Epochs |-> [t \in Tokens |->
               @[e][t] + (IF e \in epochs[t] THEN Share(user, e, t) ELSE 0)]]]
        /\ balance' = [t \in Tokens |-> balance[t] - amount[t]]
        /\ token_balances' = [t \in Tokens |-> AfterTransfer(t, amount[t])]
        /\ UNCHANGED <<escrowVars, token_sets, is_killed, arrived, drained>>

\* Whose votes a claim can be for: those of the receiver, or with use_vest of
\* their cliff escrow.  A cliff escrow never calls, so a claim with it as the
\* receiver is always somebody else's and refused.
Owners(receiver) == ({receiver} \ Cliffs) \cup ({CliffOf[receiver]} \ {NoCliff})

\* _execute_claim.
ExecuteClaim(receiver, epoch_count) ==
    /\ ClaimsMissEpochs => now # RoundToWeek(now)
    /\ \E owner \in Owners(receiver) : Claim(owner, epoch_count)

-----------------------------------------------------------------------------
(***************************************************************************)
(* Other operations                                                        *)
(***************************************************************************)
RecoverToken(t) ==
    /\ now \in OwnerTimes /\ t \in Recovered
    /\ is_killed \/ balance[t] >= token_balances[t]
    /\ balance' = [balance EXCEPT ![t] = IF is_killed THEN 0 ELSE token_balances[t]]
    /\ drained' = [drained EXCEPT ![t] = @ \/ is_killed]
    /\ UNCHANGED <<escrowVars, setVars, claimVars, balances_for_epoch, token_balances,
                   is_killed, arrived>>

KillToggle(killed) ==
    /\ now \in OwnerTimes
    /\ is_killed' = killed
    /\ UNCHANGED <<escrowVars, setVars, claimVars, balances_for_epoch, token_balances,
                   balance, arrived, drained>>

\* Fees are sent to the contract by a plain transfer.
Arrive(t, amount) ==
    /\ now \in ArrivalTimes /\ arrived[t] + amount <= MaxArrived
    /\ balance' = [balance EXCEPT ![t] = @ + amount]
    /\ arrived' = [arrived EXCEPT ![t] = @ + amount]
    /\ UNCHANGED <<escrowVars, setVars, claimVars, balances_for_epoch, token_balances,
                   is_killed, drained>>

\* What the escrow answers about an epoch is settled by the last change of
\* that second.  Changes in the last second of the clock are left out: no epoch
\* that begins after them is ever due.
EscrowStep ==
    /\ now < MaxTime
    /\ VeNext
    /\ Total([u \in Users |-> locked'[u].amount]) <= MaxLocked
    /\ votes_at' = [e \in Epochs |-> IF e = now' THEN votes' ELSE votes_at[e]]
    /\ UNCHANGED <<setVars, claimVars, balances_for_epoch, token_balances, balance,
                   is_killed, arrived, drained>>

Init ==
    LET none == [t \in Tokens |-> 0]
    IN  /\ VeInit
        /\ votes_at = [e \in Epochs |-> [u \in Users |-> 0]]
        /\ last_claimed_for = [u \in Users |-> 0]
        /\ claimed_epoch_for = [u \in Users |-> none]
        /\ token_sets = <<FirstSet>>
        /\ initial_set_for_epoch = [e \in Epochs |-> 0]
        /\ max_set_for_epoch = [e \in Epochs |-> 0]
        /\ balances_for_epoch = [e \in Epochs |-> none]
        /\ token_balances = none
        /\ balance = none
        /\ is_killed = FALSE
        /\ arrived = none
        /\ paid = [u \in Users |-> [e \in Epochs |-> none]]
        /\ drained = [t \in Tokens |-> FALSE]

Next ==
    \/ EscrowStep
    \/ FillEpochsCall
    \/ \E set \in TokenSets : AddTokenSet(set)
    \/ \E u \in Users, n \in EpochCounts : ExecuteClaim(u, n)
    \/ \E t \in Tokens : RecoverToken(t) \/ \E a \in Arrivals : Arrive(t, a)
    \/ \E k \in BOOLEAN : KillToggle(k)

Spec == Init /\ [][Next]_vars

-----------------------------------------------------------------------------
(***************************************************************************)
(* Properties                                                              *)
(***************************************************************************)
TypeOK ==
    /\ now \in StartTime..MaxTime
    /\ locked \in [Users -> Lock]
    /\ votes_at \in [Epochs -> [Users -> Nat]]
    /\ last_claimed_for \in [Users -> Epochs \cup {0}]
    /\ claimed_epoch_for \in [Users -> [Tokens -> Epochs \cup {0}]]
    /\ token_sets \in Seq(SUBSET Tokens)
    /\ initial_set_for_epoch \in [Epochs -> 0..Len(token_sets)]
    /\ max_set_for_epoch \in [Epochs -> 0..Len(token_sets)]
    /\ balances_for_epoch \in [Epochs -> [Tokens -> Nat]]
    /\ {token_balances, balance, arrived} \subseteq [Tokens -> Nat]
    /\ paid \in [Users -> [Epochs -> [Tokens -> Nat]]]
    /\ is_killed \in BOOLEAN
    /\ drained \in [Tokens -> BOOLEAN]

(* A user has been paid exactly their share of every epoch up to the last one
   they claimed, of every token that funded it, and nothing of later epochs:
   in whatever pieces, and with whatever token sets in between. *)
PaidIsShare ==
    \A u \in Users, e \in Epochs, t \in Tokens :
        paid[u][e][t] =
            IF e <= last_claimed_for[u] /\ balances_for_epoch[e][t] > 0
            THEN Share(u, e, t) ELSE 0

\* What was put into epochs and has not been claimed.
Unclaimed(t) ==
    Total([e \in Epochs |-> balances_for_epoch[e][t]
                               - Total([u \in Users |-> paid[u][e][t]])])

(* The contract holds what it has put into epochs and not paid, and it counts
   it: so every claim can be paid and recover_token cannot take it. *)
Solvent ==
    \A t \in Tokens :
        ~drained[t] => /\ Unclaimed(t) <= token_balances[t]
                       /\ token_balances[t] <= balance[t]

(* Once an epoch has begun, neither its funds nor the sets it is paid in
   change any more: claims made early and late see the same. *)
EpochsAreSettled ==
    [][\A e \in Epochs : e <= now =>
          /\ balances_for_epoch'[e] = balances_for_epoch[e]
          /\ initial_set_for_epoch'[e] = initial_set_for_epoch[e]
          /\ max_set_for_epoch'[e] = max_set_for_epoch[e]]_vars
=============================================================================
