------------------------------ MODULE Refunds -------------------------------
(***************************************************************************)
(* The fees of the first markets on their way back to the users, after     *)
(* stage 1 and stage 3 of MarketVotes brought them to the DAO.  A vote     *)
(* (voting/create_vote_admin_fee_return.py) sends a fixed amount of the    *)
(* asset to an account; a script (return_admin_fees/deploy_distribution)   *)
(* deploys a Multisend, notes its address in a file and sends the amount   *)
(* to the holders in batches; distribution/deploy_unvested_lp.py does the  *)
(* same for YB with a Multisend that is already there.                     *)
(*                                                                         *)
(* The script may stop anywhere, with a transaction sent and not yet       *)
(* mined, and is started again.  Amounts are in what one holder gets.      *)
(***************************************************************************)
EXTENDS MarketVotes

CONSTANTS
    Batches,      \* the holders, in batches of at most BATCH_SIZE
    MaxMishaps    \* bound on the stops and on the transactions that are lost

ASSUME RefundAssumption ==
    /\ Len(Batches) \in Nat /\ DOMAIN Batches = 1 .. Len(Batches)
    /\ \A b \in DOMAIN Batches : IsFiniteSet(Batches[b])
    /\ \A b, c \in DOMAIN Batches : b # c => Batches[b] \cap Batches[c] = {}
    /\ MaxMishaps \in Nat

VARIABLES
    asset,        \* the DAO's asset, in refunds
    wallet,       \* of the account that sends
    multisends,   \* each one's already_sent
    file,         \* the Multisend in the JSON file
    script,       \* what the script is doing, and its batch
    mempool,      \* the calls of Multisend.send that are not mined
    paid,         \* how often each holder was paid
    mishaps       \* so far

refundVars == <<asset, wallet, multisends, file, script, mempool, paid, mishaps>>
moneyVars == <<asset, wallet, paid>>
allVars == <<marketVars, refundVars>>

Holders == UNION {Batches[b] : b \in DOMAIN Batches}
Refund == Cardinality(Holders)

NoFile == 0
EmptyFile == -1   \* opened and not yet written
Stopped == [at |-> "stopped", batch |-> 1]

(***************************************************************************)
(* The DAO                                                                 *)
(***************************************************************************)
\* Stage 3 withdraws the fees that its script found before the hand-over.
Stage3Withdraws ==
    /\ admin = DAO /\ admin < MaxOwners
    /\ FeePlace \in treasury
    /\ admin' = admin + 1
    /\ treasury' = treasury \ {FeePlace}
    /\ asset' = asset + 1
    /\ UNCHANGED <<votingVars, markets, code, receiver, feesOn, tokenSet, gaugeVars, runs>>
    /\ UNCHANGED <<wallet, multisends, file, script, mempool, paid, mishaps>>

\* The vote withdraws what the DAO holds of the LT when the script runs, and
\* transfers a fixed amount in any case.
AdminFeeReturn ==
    /\ \A p \in FirstPlaces : Exists(p)
    /\ Create("yb-deployer", [kind |-> "refund", withdraw |-> FeePlace \in treasury])
    /\ UNCHANGED refundVars

\* The withdrawal may bring less than the refund: if the DAO has nothing to
\* add, the transfer reverts and with it the vote.
ExecuteRefund(i) ==
    LET v == proposals[i].vote IN
    /\ PassAndMarkExecuted(i)
    /\ v.kind = "refund"
    /\ v.withdraw => FeePlace \in treasury
    /\ \E enough \in (IF v.withdraw THEN {0, 1} ELSE {0}) :
           /\ asset + enough >= 1
           /\ asset' = asset + enough - 1
    /\ wallet' = wallet + Refund
    /\ treasury' = IF v.withdraw THEN treasury \ {FeePlace} ELSE treasury
    /\ UNCHANGED <<factoryVars, feesOn, tokenSet, gaugeVars, runs>>
    /\ UNCHANGED <<multisends, file, script, mempool, paid, mishaps>>

(***************************************************************************)
(* The script                                                              *)
(***************************************************************************)
Sending(batch) == [at |-> "sending", batch |-> batch]

\* When the refund has arrived: with the Multisend of the file, or a new one.
\* An empty file is no JSON.
StartScript ==
    /\ script = Stopped
    /\ wallet >= Refund \/ \E h \in Holders : paid[h] > 0
    /\ \/ /\ file \notin {NoFile, EmptyFile}
          /\ script' = Sending(1)
          /\ UNCHANGED multisends
       \/ /\ file = NoFile
          /\ multisends' = Append(multisends, {})
          /\ script' = [Stopped EXCEPT !.at = "deployed"]
    /\ UNCHANGED <<marketVars, moneyVars, file, mempool, mishaps>>

\* open(..., 'w'), and then a call to the chain for the balance to note.
OpenFile ==
    /\ script.at = "deployed"
    /\ file' = EmptyFile
    /\ script' = [script EXCEPT !.at = "opened"]
    /\ UNCHANGED <<marketVars, moneyVars, multisends, mempool, mishaps>>

WriteFile ==
    /\ script.at = "opened"
    /\ file' = Len(multisends)
    /\ script' = Sending(1)
    /\ UNCHANGED <<marketVars, moneyVars, multisends, mempool, mishaps>>

\* The operator, whose script finds no JSON in the file.
RemoveFile ==
    /\ script = Stopped
    /\ file = EmptyFile
    /\ file' = NoFile
    /\ UNCHANGED <<marketVars, moneyVars, multisends, script, mempool, mishaps>>

\* A batch is skipped when all in it have been sent theirs.
NextBatch ==
    /\ script.at = "sending" /\ script.batch \in DOMAIN Batches
    /\ IF Batches[script.batch] \subseteq multisends[file]
       THEN /\ script' = Sending(script.batch + 1)
            /\ UNCHANGED mempool
       ELSE /\ script' = [script EXCEPT !.at = "waiting"]
            /\ mempool' = Append(mempool, [to |-> file, batch |-> script.batch])
    /\ UNCHANGED <<marketVars, moneyVars, multisends, file, mishaps>>

Finish ==
    /\ script.at = "sending" /\ script.batch \notin DOMAIN Batches
    /\ script' = Stopped
    /\ UNCHANGED <<marketVars, moneyVars, multisends, file, mempool, mishaps>>

\* Mutant of Unsent: already_sent is set and not looked at.
Unsent_All(tx) == Batches[tx.batch]
Unsent(tx) == Batches[tx.batch] \ multisends[tx.to]

\* Multisend.send, of the first transaction of the account; the script waits
\* for its own, the last.
Send ==
    /\ mempool # <<>>
    /\ LET tx == Head(mempool)
           to == Unsent(tx)
           ok == wallet >= Cardinality(to) IN
       /\ wallet' = IF ok THEN wallet - Cardinality(to) ELSE wallet
       /\ paid' = [h \in Holders |-> IF ok /\ h \in to THEN paid[h] + 1 ELSE paid[h]]
       /\ multisends' = IF ok THEN [multisends EXCEPT ![tx.to] = @ \cup to] ELSE multisends
    /\ mempool' = Tail(mempool)
    /\ script' = IF script.at = "waiting" /\ Len(mempool) = 1
                 THEN Sending(script.batch + 1) ELSE script
    /\ UNCHANGED <<marketVars, asset, file, mishaps>>

Mishap == mishaps < MaxMishaps /\ mishaps' = mishaps + 1

\* The script stops: the node, the verification, a timeout, the keyboard.
StopScript ==
    /\ Mishap
    /\ script # Stopped
    /\ script' = Stopped
    /\ UNCHANGED <<marketVars, moneyVars, multisends, file, mempool>>

\* A transaction is never mined, and a script that waits for it stops.
LoseTransaction ==
    /\ Mishap
    /\ mempool # <<>>
    /\ mempool' = Front(mempool)
    /\ script' = IF script.at = "waiting" THEN Stopped ELSE script
    /\ UNCHANGED <<marketVars, moneyVars, multisends, file>>

(***************************************************************************)
(* The specification                                                       *)
(***************************************************************************)
NothingSent ==
    /\ asset = 0
    /\ script = Stopped
    /\ mempool = <<>>
    /\ paid = [h \in Holders |-> 0]

\* The refunds begin with the votes, and have a mishap less; or the YB is
\* there, and its Multisend, and no vote is left to be made.
RefundInit ==
    /\ NothingSent
    /\ \/ MarketInit /\ wallet = 0 /\ multisends = <<>> /\ file = NoFile
          /\ mishaps = 1
       \/ /\ VotingInit /\ Launch /\ runs = MaxRuns
          /\ treasury = {} /\ feesOn = FALSE /\ killed = {}
          /\ wallet = Refund /\ multisends = <<{}>> /\ file = 1
          /\ mishaps = 0

ScriptStep == StartScript \/ OpenFile \/ WriteFile \/ RemoveFile \/ NextBatch \/ Finish

RefundNext ==
    \/ MarketNext /\ UNCHANGED refundVars
    \/ Stage3Withdraws \/ AdminFeeReturn
    \/ \E i \in DOMAIN proposals : ExecuteRefund(i)
    \/ ScriptStep \/ Send
    \/ StopScript \/ LoseTransaction

RefundSpec == RefundInit /\ [][RefundNext]_allVars

(***************************************************************************)
(* Properties                                                              *)
(***************************************************************************)
RefundTypeOK ==
    /\ asset \in Nat /\ wallet \in Nat
    /\ file \in EmptyFile .. Len(multisends)
    /\ \A m \in DOMAIN multisends : multisends[m] \subseteq Holders
    /\ script.at \in {"stopped", "deployed", "opened", "sending", "waiting"}
    /\ paid \in [Holders -> Nat]

\* However often the script stopped and was started again, with transactions
\* of an earlier start still under way, nobody is paid twice; and everybody is
\* paid when it comes to its end.
PaidExactlyOnce ==
    /\ \A h \in Holders : paid[h] <= 1
    /\ script.batch \notin DOMAIN Batches => \A h \in Holders : paid[h] = 1
=============================================================================
