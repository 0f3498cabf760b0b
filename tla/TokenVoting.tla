---------------------------- MODULE TokenVoting ----------------------------
(***************************************************************************)
(* The Aragon TokenVoting plugin as the scripts in src/scripts use it: a   *)
(* proposal is a list of calls the DAO makes if it passes, all or nothing  *)
(* (allowFailureMap = 0), executed at most once and by anyone.  Creating   *)
(* a proposal starts a cooldown of a day for its creator.  What a proposal *)
(* does is the business of the module that extends this one: here it is a  *)
(* payload.                                                                *)
(***************************************************************************)
EXTENDS Naturals, Sequences

VARIABLES
    proposals,   \* in creation order: [by, vote, status]
    cooling      \* the creators whose last proposal is less than a day old

votingVars == <<proposals, cooling>>

Statuses == {"open", "passed", "executed"}

VotingInit ==
    /\ proposals = <<>>
    /\ cooling = {}

\* createProposal: reverts for a creator that is still cooling down.
CreateProposal(creator, vote) ==
    /\ creator \notin cooling
    /\ proposals' = Append(proposals,
                       [by |-> creator, vote |-> vote, status |-> "open"])
    /\ cooling' = cooling \cup {creator}

\* The voters reach participation and support, and the minimum duration ends.
PassVote(i) ==
    /\ proposals[i].status = "open"
    /\ proposals' = [proposals EXCEPT ![i].status = "passed"]
    /\ UNCHANGED cooling

Executed(i) == proposals[i].status = "executed"
CanExecute(i) == proposals[i].status = "passed"

\* execute: the plugin marks the proposal and makes its calls.
MarkExecuted(i) ==
    /\ CanExecute(i)
    /\ proposals' = [proposals EXCEPT ![i].status = "executed"]
    /\ UNCHANGED cooling

\* Both at once, as with tryEarlyExecution.
PassAndMarkExecuted(i) ==
    /\ proposals[i].status # "executed"
    /\ proposals' = [proposals EXCEPT ![i].status = "executed"]
    /\ UNCHANGED cooling

\* A day passes: every cooldown is over.
CooldownEnds ==
    /\ cooling # {}
    /\ cooling' = {}
    /\ UNCHANGED proposals
=============================================================================
