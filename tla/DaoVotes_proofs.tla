-------------------------- MODULE DaoVotes_proofs ---------------------------
(***************************************************************************)
(* Proofs about the votes of the DAO, for any number of proposals: those   *)
(* about the owner of the Factory, module OwnerVotes, about the fees,      *)
(* module FeeVotes, those that install the incentives of module            *)
(* MerklSystem, and those of the rollout of the v3 markets, module         *)
(* V3Rollout.  Each has a specification of its own, and all extend         *)
(* TokenVoting.                                                            *)
(***************************************************************************)
EXTENDS OwnerVotes, FeeVotes, MerklSystem, V3Rollout,
        SequenceTheorems, WellFoundedInduction, TLAPS

-----------------------------------------------------------------------------
(***************************************************************************)
(* Sequences                                                               *)
(***************************************************************************)
(* Appending leaves what was there where it was. *)
LEMMA Appended ==
    ASSUME NEW S, NEW s \in Seq(S), NEW e \in S
    PROVE  /\ Append(s, e) \in Seq(S)
           /\ Len(s) \in Nat /\ Len(Append(s, e)) = Len(s) + 1
           /\ DOMAIN s = 1 .. Len(s) /\ DOMAIN Append(s, e) = 1 .. Len(s) + 1
           /\ \A i \in 1 .. Len(s) : Append(s, e)[i] = s[i]
           /\ Append(s, e)[Len(s) + 1] = e
  OBVIOUS

-----------------------------------------------------------------------------
(***************************************************************************)
(* The owner of the Factory                                                *)
(***************************************************************************)
OwnerRecord ==
    [kind : {"migration", "hybrid"}, disabled : SUBSET Nat, setters : SUBSET Nat, vaults : SUBSET Nat]

OwnerVote ==
    [kind : {"stage3"}, old : Nat, new : Nat]
      \cup [kind : {"hybrid", "fix"}, old : Nat, new : Nat, keep : SUBSET Nat, vaults : SUBSET Nat]
      \cup [kind : {"swap"}, old : Nat, new : Nat, previous : Nat, live : BOOLEAN]
      \cup [kind : {"markets"}, old : Nat, gens : Nat]
      \cup [kind : {"allocate", "disable"}, old : Nat, gen : Nat]

Creators == {"yb-deployer", "yb-deployer-2", "yb-deployer-a"}

OwnerProposal == [by : Creators, vote : OwnerVote, status : Statuses]

\* What a vote says holds of the owners and migrators that it names: a new one
\* was deployed after the old one, and is of the kind that the script deploys.
\* The old one was the admin, and its limit setters are what the script read.
OwnerVoteOK(v) ==
    /\ v.old \in 0 .. admin
    /\ v.kind \in {"stage3", "hybrid", "fix"} => v.new \in 1 .. Len(owners) /\ v.old < v.new
    /\ v.kind = "stage3" => owners[v.new].kind = "migration"
    /\ v.kind \in {"hybrid", "fix"} => owners[v.new].kind = "hybrid" /\ v.keep \subseteq 1 .. Len(migrators)
    /\ v.kind = "hybrid" => v.vaults = {v.new}
    /\ v.kind = "fix" => v.vaults = owners[v.old].vaults
    /\ v.kind \in {"fix", "swap", "markets", "disable"} => IsHybrid(v.old)
    /\ v.kind = "swap" => /\ v.new \in 1 .. Len(migrators) /\ migrators[v.new] = v.old
                          /\ v.previous \in 1 .. Len(migrators) /\ v.previous # v.new
    /\ v.kind \in {"allocate", "disable"} => v.gen \in 1 .. gens

OwnerType ==
    /\ proposals \in Seq(OwnerProposal)
    /\ owners \in Seq(OwnerRecord)
    /\ migrators \in Seq(Nat)
    /\ admin \in 0 .. Len(owners)
    /\ gens \in Nat /\ gens >= 2
    /\ holding \in 1 .. gens

\* An owner's HybridVaultFactories were deployed with it or before it, and only
\* an owner that has been the admin has any.
OwnerOK(o) ==
    /\ owners[o].disabled \subseteq 1 .. gens
    /\ owners[o].setters \subseteq 1 .. Len(migrators)
    /\ owners[o].vaults \subseteq 1 .. o
    /\ o > admin => owners[o].vaults = {}

OwnerInv ==
    /\ OwnerType
    /\ \A o \in 1 .. Len(owners) : OwnerOK(o)
    /\ \A m \in 1 .. Len(migrators) : migrators[m] \in 1 .. Len(owners)
    /\ \A i \in 1 .. Len(proposals) : OwnerVoteOK(proposals[i].vote)
    /\ LatestVaultsAllocate

(* Nothing is deployed and nothing is proposed at first. *)
LEMMA OwnerInit == Init => OwnerInv
  BY DEF Init, VotingInit, DAO, OwnerInv, OwnerType, LatestVaultsAllocate, IsHybrid

(* A vote keeps its meaning while owners and migrators are added, and while
   owners keep their kinds. *)
LEMMA VoteKept ==
    ASSUME OwnerInv, Len(owners') \in Nat, Len(owners) <= Len(owners'),
           Len(migrators') \in Nat, Len(migrators) <= Len(migrators'),
           gens' \in Nat, gens <= gens',
           admin' \in Nat, admin <= admin',
           \A o \in 1 .. Len(owners) : owners'[o].kind = owners[o].kind,
           \A o \in 1 .. Len(owners) : o <= admin => owners'[o].vaults = owners[o].vaults,
           \A m \in 1 .. Len(migrators) : migrators'[m] = migrators[m],
           NEW v \in OwnerVote, OwnerVoteOK(v)
    PROVE  OwnerVoteOK(v)'
<1>1. /\ Len(owners) \in Nat /\ Len(migrators) \in Nat /\ gens \in Nat
      /\ v.old \in Nat /\ v.old \in 0 .. Len(owners) /\ admin \in Nat /\ v.old <= admin
  BY DEF OwnerInv, OwnerType, OwnerVote, OwnerVoteOK
<1>2. v.old \in 0 .. admin'
  BY <1>1
<1>3. IsHybrid(v.old)' <=> IsHybrid(v.old)
  BY <1>1 DEF IsHybrid, DAO
<1>4. v.kind \in {"stage3", "hybrid", "fix"} =>
         /\ v.new \in 1 .. Len(owners') /\ v.old < v.new
         /\ owners'[v.new].kind = owners[v.new].kind
  BY <1>1 DEF OwnerVoteOK
<1>5. v.kind = "swap" => /\ v.new \in 1 .. Len(migrators') /\ migrators'[v.new] = migrators[v.new]
                         /\ v.previous \in 1 .. Len(migrators')
  BY <1>1 DEF OwnerVoteOK
<1>6. v.kind \in {"allocate", "disable"} => v.gen \in 1 .. gens'
  BY <1>1 DEF OwnerVoteOK
<1>7. v.kind \in {"hybrid", "fix"} => v.keep \subseteq 1 .. Len(migrators')
  BY <1>1 DEF OwnerVoteOK
<1>8. v.kind = "hybrid" => v.vaults = {v.new}
  BY DEF OwnerVoteOK
<1>9. v.kind = "fix" => v.vaults = owners'[v.old].vaults
  BY <1>1 DEF OwnerVoteOK, IsHybrid, DAO
<1> QED
  BY <1>2, <1>3, <1>4, <1>5, <1>6, <1>7, <1>8, <1>9 DEF OwnerVoteOK

(* A script that deploys and proposes leaves everything else as it is. *)
LEMMA OwnerScript ==
    ASSUME OwnerInv, NEW creator \in Creators, NEW v \in OwnerVote,
           CreateProposal(creator, v), OwnerVoteOK(v)',
           UNCHANGED <<admin, gens, holding>>,
           UNCHANGED owners \/ \E k \in {"migration", "hybrid"} : owners' = Append(owners, NewOwner(k)),
           UNCHANGED migrators \/ \E o \in 1 .. Len(owners') : migrators' = Append(migrators, o)
    PROVE  OwnerInv'
<1>1. /\ proposals \in Seq(OwnerProposal) /\ owners \in Seq(OwnerRecord) /\ migrators \in Seq(Nat)
      /\ Len(owners) \in Nat /\ Len(migrators) \in Nat /\ Len(proposals) \in Nat /\ gens \in Nat
      /\ admin \in 0 .. Len(owners)
  BY DEF OwnerInv, OwnerType
<1>2. /\ owners' \in Seq(OwnerRecord) /\ Len(owners') \in Nat /\ Len(owners) <= Len(owners')
      /\ \A o \in 1 .. Len(owners) : owners'[o] = owners[o]
      /\ \A o \in 1 .. Len(owners') : o \in 1 .. Len(owners) \/ (owners'[o].disabled = {} /\ owners'[o].setters = {} /\ owners'[o].vaults = {})
  <2>1. CASE UNCHANGED owners
    BY <1>1, <2>1
  <2>2. CASE \E k \in {"migration", "hybrid"} : owners' = Append(owners, NewOwner(k))
    <3>1. PICK k \in {"migration", "hybrid"} : owners' = Append(owners, NewOwner(k))
      BY <2>2
    <3>2. /\ NewOwner(k) \in OwnerRecord
          /\ NewOwner(k).disabled = {} /\ NewOwner(k).setters = {} /\ NewOwner(k).vaults = {}
      BY DEF NewOwner, OwnerRecord
    <3>3. /\ owners' \in Seq(OwnerRecord) /\ Len(owners') = Len(owners) + 1
          /\ \A o \in 1 .. Len(owners) : owners'[o] = owners[o]
          /\ owners'[Len(owners) + 1] = NewOwner(k)
      BY <1>1, <3>1, <3>2, Appended
    <3>4. \A o \in 1 .. Len(owners) + 1 : o \in 1 .. Len(owners) \/ o = Len(owners) + 1
      BY <1>1, SMT
    <3> QED
      BY <1>1, <3>2, <3>3, <3>4, SMT
  <2> QED
    BY <2>1, <2>2
<1>3. /\ migrators' \in Seq(Nat) /\ Len(migrators') \in Nat /\ Len(migrators) <= Len(migrators')
      /\ \A m \in 1 .. Len(migrators) : migrators'[m] = migrators[m]
      /\ \A m \in 1 .. Len(migrators') : migrators'[m] \in 1 .. Len(owners')
  <2>1. \A m \in 1 .. Len(migrators) : migrators[m] \in 1 .. Len(owners')
    BY <1>1, <1>2 DEF OwnerInv
  <2>2. CASE UNCHANGED migrators
    BY <1>1, <2>1, <2>2
  <2>3. CASE \E o \in 1 .. Len(owners') : migrators' = Append(migrators, o)
    <3>1. PICK o \in 1 .. Len(owners') : migrators' = Append(migrators, o)
      BY <2>3
    <3>2. o \in Nat
      BY <1>2
    <3>3. /\ migrators' \in Seq(Nat) /\ Len(migrators') = Len(migrators) + 1
          /\ \A m \in 1 .. Len(migrators) : migrators'[m] = migrators[m]
          /\ migrators'[Len(migrators) + 1] = o
      BY <1>1, <3>1, <3>2, Appended
    <3>4. \A m \in 1 .. Len(migrators) + 1 : m \in 1 .. Len(migrators) \/ m = Len(migrators) + 1
      <4>1. Len(migrators) \in Nat
        BY <1>1
      <4> QED
        BY <4>1
    <3>5. ASSUME NEW m \in 1 .. Len(migrators') PROVE migrators'[m] \in 1 .. Len(owners')
      <4>1. CASE m \in 1 .. Len(migrators)
        BY <2>1, <3>3, <4>1
      <4>2. CASE m = Len(migrators) + 1
        BY <3>3, <4>2
      <4> QED
        BY <3>3, <3>4, <4>1, <4>2
    <3> QED
      BY <1>1, <3>3, <3>5
  <2> QED
    BY <2>2, <2>3
<1>4. /\ proposals' \in Seq(OwnerProposal)
      /\ \A i \in 1 .. Len(proposals') : \E w \in OwnerVote : w = proposals'[i].vote /\ OwnerVoteOK(w)'
  <2> DEFINE p == [by |-> creator, vote |-> v, status |-> "open"]
  <2>1. p \in OwnerProposal
    BY DEF OwnerProposal, Statuses
  <2>2. proposals' = Append(proposals, p)
    BY DEF CreateProposal
  <2> HIDE DEF p
  <2>3. /\ proposals' \in Seq(OwnerProposal) /\ Len(proposals') = Len(proposals) + 1
        /\ \A i \in 1 .. Len(proposals) : proposals'[i] = proposals[i]
        /\ proposals'[Len(proposals) + 1] = p
    BY <1>1, <2>1, <2>2, Appended
  <2>4. ASSUME NEW i \in 1 .. Len(proposals) PROVE  \E w \in OwnerVote : w = proposals'[i].vote /\ OwnerVoteOK(w)'
    <3>1. OwnerVoteOK(proposals[i].vote)
      BY DEF OwnerInv
    <3>2. proposals[i] \in OwnerProposal
      BY <1>1
    <3>3. proposals[i].vote \in OwnerVote
      BY <3>2 DEF OwnerProposal
    <3>4. \A w \in OwnerVote : OwnerVoteOK(w) => OwnerVoteOK(w)'
      <4> TAKE w \in OwnerVote
      <4> HAVE OwnerVoteOK(w)
      <4> QED
        BY <1>1, <1>2, <1>3, VoteKept
    <3>5. PICK w \in OwnerVote : w = proposals[i].vote
      BY <3>3
    <3>6. OwnerVoteOK(w)'
      BY <3>1, <3>4, <3>5
    <3>7. proposals'[i].vote = w
      BY <2>3, <3>5
    <3> QED
      BY <3>6, <3>7
  <2>5. ASSUME NEW i \in 1 .. Len(proposals'), i \notin 1 .. Len(proposals)
        PROVE  \E w \in OwnerVote : w = proposals'[i].vote /\ OwnerVoteOK(w)'
    <3>1. i = Len(proposals) + 1
      BY <1>1, <2>3, <2>5
    <3>2. proposals'[i].vote = v
      BY <2>3, <3>1 DEF p
    <3> QED
      BY <3>2
  <2> QED
    BY <2>3, <2>4, <2>5
<1>5. (\A i \in 1 .. Len(proposals) : OwnerVoteOK(proposals[i].vote))'
  <2> SUFFICES ASSUME NEW i \in 1 .. Len(proposals') PROVE OwnerVoteOK(proposals[i].vote)'
    OBVIOUS
  <2>1. PICK w \in OwnerVote : w = proposals'[i].vote /\ OwnerVoteOK(w)'
    BY <1>4
  <2> QED
    BY <2>1 DEF OwnerVoteOK
<1>6. OwnerType'
  BY <1>1, <1>2, <1>3, <1>4 DEF OwnerInv, OwnerType
<1>7. (\A o \in 1 .. Len(owners) : OwnerOK(o))'
  <2> SUFFICES ASSUME NEW o \in 1 .. Len(owners') PROVE  OwnerOK(o)'
    OBVIOUS
  <2>1. CASE o \in 1 .. Len(owners)
    <3>1. OwnerOK(o) /\ owners'[o] = owners[o]
      BY <1>2, <2>1 DEF OwnerInv
    <3>2. 1 .. Len(migrators) \subseteq 1 .. Len(migrators')
      BY <1>1, <1>3
    <3> QED
      BY <3>1, <3>2 DEF OwnerOK
  <2>2. CASE o \notin 1 .. Len(owners)
    BY <1>2, <2>2 DEF OwnerOK
  <2> QED
    BY <2>1, <2>2
<1>8. /\ IsHybrid(admin)' <=> IsHybrid(admin)
      /\ admin # 0 => owners'[admin] = owners[admin]
  BY <1>1, <1>2 DEF IsHybrid, DAO
<1>9. LatestVaultsAllocate'
  <2> SUFFICES ASSUME IsHybrid(admin)
               PROVE  \E f \in owners'[admin].vaults :
                          \A o \in 1 .. Len(owners') : \A g \in owners'[o].vaults : g <= f
    BY <1>8, Zenon DEF LatestVaultsAllocate, Owners
  <2>1. PICK f \in owners[admin].vaults :
          \A o \in 1 .. Len(owners) : \A g \in owners[o].vaults : g <= f
    BY DEF OwnerInv, LatestVaultsAllocate, Owners
  <2>2. ASSUME NEW o \in 1 .. Len(owners'), NEW g \in owners'[o].vaults PROVE g <= f
    <3>1. o \in 1 .. Len(owners) /\ owners'[o] = owners[o]
      BY <1>2, <2>2, Zenon
    <3> QED
      BY <2>1, <2>2, <3>1
  <2>3. f \in owners'[admin].vaults
    BY <1>8, <2>1 DEF IsHybrid, DAO
  <2> QED
    BY <2>2, <2>3
<1> QED
  BY <1>3, <1>5, <1>6, <1>7, <1>9 DEF OwnerInv

(* The proposals after one of them is marked are what they were. *)
LEMMA OwnerProposalsMarked ==
    ASSUME OwnerInv, NEW i \in DOMAIN proposals, NEW s \in Statuses,
           proposals' = [proposals EXCEPT ![i].status = s]
    PROVE  /\ proposals' \in Seq(OwnerProposal) /\ Len(proposals') = Len(proposals)
           /\ \A j \in 1 .. Len(proposals) : proposals'[j].vote = proposals[j].vote
<1>1. proposals \in Seq(OwnerProposal) /\ proposals[i] \in OwnerProposal
  BY DEF OwnerInv, OwnerType
<1> DEFINE p == [proposals[i] EXCEPT !.status = s]
<1>2. p \in OwnerProposal /\ p.vote = proposals[i].vote
  BY <1>1 DEF OwnerProposal
<1>3. proposals' = [proposals EXCEPT ![i] = p]
  OBVIOUS
<1> HIDE DEF p
<1> QED
  BY <1>1, <1>2, <1>3

(* An executed vote changes one owner, and keeps its kind. *)
LEMMA OwnerChange ==
    ASSUME OwnerInv,
           proposals' \in Seq(OwnerProposal), Len(proposals') = Len(proposals),
           \A j \in 1 .. Len(proposals) : proposals'[j].vote = proposals[j].vote,
           owners' \in Seq(OwnerRecord), Len(owners') = Len(owners),
           \A o \in 1 .. Len(owners) : /\ owners'[o].kind = owners[o].kind
                                       /\ o <= admin => owners'[o].vaults = owners[o].vaults
                                       /\ OwnerOK(o)',
           migrators' = migrators, holding' = holding,
           gens' \in Nat, gens <= gens',
           admin' \in 0 .. Len(owners), admin <= admin', LatestVaultsAllocate'
    PROVE  OwnerInv'
<1>1. /\ proposals \in Seq(OwnerProposal) /\ owners \in Seq(OwnerRecord) /\ migrators \in Seq(Nat)
      /\ Len(owners) \in Nat /\ Len(migrators) \in Nat /\ Len(proposals) \in Nat /\ gens \in Nat
      /\ gens >= 2 /\ holding \in 1 .. gens /\ admin' \in Nat
  BY DEF OwnerInv, OwnerType
<1>2. \A w \in OwnerVote : OwnerVoteOK(w) => OwnerVoteOK(w)'
  <2> TAKE w \in OwnerVote
  <2> HAVE OwnerVoteOK(w)
  <2>1. /\ Len(owners') \in Nat /\ Len(owners) <= Len(owners')
        /\ Len(migrators') \in Nat /\ Len(migrators) <= Len(migrators')
        /\ \A m \in 1 .. Len(migrators) : migrators'[m] = migrators[m]
    BY <1>1
  <2>2. /\ \A o \in 1 .. Len(owners) : owners'[o].kind = owners[o].kind
        /\ \A o \in 1 .. Len(owners) : o <= admin => owners'[o].vaults = owners[o].vaults
    BY Zenon
  <2> QED
    BY <1>1, <2>1, <2>2, VoteKept, Zenon
<1>3. (\A i \in 1 .. Len(proposals) : OwnerVoteOK(proposals[i].vote))'
  <2> SUFFICES ASSUME NEW i \in 1 .. Len(proposals') PROVE OwnerVoteOK(proposals[i].vote)'
    OBVIOUS
  <2>1. proposals[i] \in OwnerProposal /\ OwnerVoteOK(proposals[i].vote)
    BY <1>1 DEF OwnerInv
  <2>2. PICK w \in OwnerVote : w = proposals[i].vote
    BY <2>1 DEF OwnerProposal
  <2>3. OwnerVoteOK(w)' /\ w = proposals'[i].vote
    BY <1>2, <2>1, <2>2
  <2> QED
    BY <2>3 DEF OwnerVoteOK
<1>4. OwnerType'
  BY <1>1 DEF OwnerType
<1>5. \A m \in 1 .. Len(migrators) : migrators[m] \in 1 .. Len(owners)
  BY DEF OwnerInv
<1> QED
  BY <1>3, <1>4, <1>5 DEF OwnerInv

(* A migrator that works still does when its owner, still the admin, keeps
   its limit setters. *)
LEMMA WorkingKept ==
    ASSUME OwnerInv, admin' = admin, Len(migrators') \in Nat, Len(migrators) <= Len(migrators'),
           \A m \in 1 .. Len(migrators) : migrators'[m] = migrators[m],
           IsHybrid(admin) => /\ owners'[admin].kind = "hybrid"
                                /\ owners[admin].setters \subseteq owners'[admin].setters
    PROVE  Working # {} => Working' # {}
<1> HAVE Working # {}
<1>1. PICK m \in 1 .. Len(migrators) :
        admin = migrators[m] /\ IsHybrid(admin) /\ m \in owners[admin].setters
  BY DEF Working, Migrators
<1>2. Len(migrators) \in Nat
  BY DEF OwnerInv, OwnerType
<1>3. m \in 1 .. Len(migrators') /\ admin' = migrators'[m] /\ m \in owners'[admin'].setters
  BY <1>1, <1>2
<1>4. IsHybrid(admin)'
  BY <1>1 DEF IsHybrid, DAO
<1> QED
  BY <1>3, <1>4 DEF Working, Migrators

(* One owner is replaced. *)
LEMMA OwnerReplaced ==
    ASSUME owners \in Seq(OwnerRecord), NEW n \in 1 .. Len(owners), NEW r \in OwnerRecord,
           owners' = [owners EXCEPT ![n] = r]
    PROVE  /\ owners' \in Seq(OwnerRecord) /\ Len(owners') = Len(owners) /\ owners'[n] = r
           /\ \A o \in 1 .. Len(owners) : o # n => owners'[o] = owners[o]
  OBVIOUS

\* What every step does, beside the invariant.
OwnerStepOK ==
    /\ OwnerInv'
    /\ admin' >= admin
    /\ Working # {} /\ admin' = admin => Working' # {}

(* Owners that keep their limit setters keep the factories among them. *)
LEMMA VaultsKept ==
    ASSUME OwnerInv, admin' = admin, Len(owners') = Len(owners),
           \A o \in 1 .. Len(owners) : owners'[o].vaults = owners[o].vaults,
           IsHybrid(admin)' <=> IsHybrid(admin)
    PROVE  LatestVaultsAllocate'
<1> SUFFICES ASSUME IsHybrid(admin)
             PROVE  \E f \in owners'[admin].vaults :
                        \A o \in 1 .. Len(owners) : \A g \in owners'[o].vaults : g <= f
  BY Zenon DEF LatestVaultsAllocate, Owners
<1>1. admin \in 1 .. Len(owners)
  BY DEF OwnerInv, OwnerType, IsHybrid, DAO
<1> QED
  BY <1>1, Zenon DEF OwnerInv, LatestVaultsAllocate, Owners

(* The flags of the live owner are set. *)
LEMMA OwnerFlagsSet ==
    ASSUME OwnerInv,
           proposals' \in Seq(OwnerProposal), Len(proposals') = Len(proposals),
           \A j \in 1 .. Len(proposals) : proposals'[j].vote = proposals[j].vote,
           admin \in 1 .. Len(owners), gens' \in Nat, gens <= gens', NEW d \in SUBSET (1 .. gens'),
           owners' = [owners EXCEPT ![admin].disabled = d],
           admin' = admin, migrators' = migrators, holding' = holding
    PROVE  OwnerStepOK
<1>1. /\ owners \in Seq(OwnerRecord) /\ Len(owners) \in Nat /\ Len(migrators) \in Nat
      /\ gens \in Nat /\ admin \in Nat
  BY DEF OwnerInv, OwnerType
<1>2. PICK w \in OwnerRecord : w = owners[admin]
  BY <1>1
<1>3. PICK r : r = [w EXCEPT !.disabled = d]
  BY Zenon
<1>4. /\ r \in OwnerRecord /\ r.kind = w.kind /\ r.disabled = d
      /\ r.setters = w.setters /\ r.vaults = w.vaults
  <2>1. d \in SUBSET Nat
    OBVIOUS
  <2> QED
    BY <1>3, <2>1 DEF OwnerRecord
<1>5. owners' = [owners EXCEPT ![admin] = r]
  BY <1>2, <1>3
<1>6. /\ owners' \in Seq(OwnerRecord) /\ Len(owners') = Len(owners) /\ owners'[admin] = r
      /\ \A o \in 1 .. Len(owners) : o # admin => owners'[o] = owners[o]
  BY <1>1, <1>4, <1>5, OwnerReplaced, Zenon
<1>7. 1 .. gens \subseteq 1 .. gens'
  BY <1>1
<1>8. \A o \in 1 .. Len(owners) : /\ owners'[o].kind = owners[o].kind
                                  /\ owners'[o].setters = owners[o].setters
                                  /\ owners'[o].vaults = owners[o].vaults
                                  /\ OwnerOK(o)'
  <2> SUFFICES ASSUME NEW o \in 1 .. Len(owners)
               PROVE  /\ owners'[o].kind = owners[o].kind
                      /\ owners'[o].setters = owners[o].setters
                      /\ owners'[o].vaults = owners[o].vaults
                      /\ OwnerOK(o)'
    BY Zenon
  <2>1. OwnerOK(o)
    BY DEF OwnerInv
  <2>2. /\ owners'[o].kind = owners[o].kind
        /\ owners'[o].setters = owners[o].setters
        /\ owners'[o].vaults = owners[o].vaults
        /\ owners'[o].disabled \subseteq 1 .. gens'
    BY <1>2, <1>4, <1>6, <1>7, <2>1, Zenon DEF OwnerOK
  <2> QED
    BY <2>1, <2>2 DEF OwnerOK
<1>9. IsHybrid(admin)' <=> IsHybrid(admin)
  BY <1>8 DEF IsHybrid
<1>10. LatestVaultsAllocate'
  BY <1>6, <1>8, <1>9, VaultsKept
<1>11. OwnerInv'
  BY <1>1, <1>6, <1>8, <1>10, OwnerChange
<1>12. Working # {} => Working' # {}
  BY <1>1, <1>8, WorkingKept DEF IsHybrid
<1> QED
  BY <1>1, <1>11, <1>12 DEF OwnerStepOK

(* A hand-over to a HybridFactoryOwner. *)
LEMMA HandedOver ==
    ASSUME OwnerInv,
           proposals' \in Seq(OwnerProposal), Len(proposals') = Len(proposals),
           \A j \in 1 .. Len(proposals) : proposals'[j].vote = proposals[j].vote,
           holding' = holding,
           NEW v \in OwnerVote, OwnerVoteOK(v), v.kind = "hybrid" \/ v.kind = "fix",
           NEW flags \in SUBSET {1, 2}, InstallOwner(v, flags)
    PROVE  OwnerStepOK
<1>1. /\ owners \in Seq(OwnerRecord) /\ Len(owners) \in Nat /\ Len(migrators) \in Nat
      /\ gens \in Nat /\ gens >= 2 /\ admin \in 0 .. Len(owners) /\ admin \in Nat
  BY DEF OwnerInv, OwnerType
<1>2. /\ v.new \in 1 .. Len(owners) /\ admin < v.new /\ owners[v.new].kind = "hybrid"
      /\ v.keep \subseteq 1 .. Len(migrators) /\ admin = v.old
      /\ admin' = v.new /\ migrators' = migrators /\ gens' = gens
      /\ owners' = [owners EXCEPT ![v.new] =
                       [@ EXCEPT !.disabled = flags, !.setters = v.keep, !.vaults = v.vaults]]
  BY DEF OwnerVoteOK, InstallOwner, ThroughLiveOwner
<1>3. \A o \in 1 .. Len(owners) : owners[o] \in OwnerRecord /\ OwnerOK(o)
  BY <1>1 DEF OwnerInv
<1>4. /\ v.vaults \in SUBSET (1 .. v.new)
      /\ \E f \in v.vaults : /\ \A g \in v.vaults : g <= f
                             /\ \A o \in 1 .. Len(owners) : o <= admin => \A g \in owners[o].vaults : g <= f
  <2>1. CASE v.kind = "hybrid"
    <3>1. v.vaults = {v.new}
      BY <2>1 DEF OwnerVoteOK
    <3>2. ASSUME NEW o \in 1 .. Len(owners), o <= admin, NEW g \in owners[o].vaults PROVE g <= v.new
      <4>1. g \in 1 .. o
        BY <1>3, <3>2 DEF OwnerOK
      <4> QED
        BY <1>1, <1>2, <3>2, <4>1
    <3> QED
      BY <1>1, <1>2, <3>1, <3>2
  <2>2. CASE v.kind = "fix"
    <3>1. v.vaults = owners[admin].vaults /\ IsHybrid(admin)
      BY <1>2, <2>2 DEF OwnerVoteOK
    <3>2. admin \in 1 .. Len(owners)
      BY <1>1, <3>1 DEF IsHybrid, DAO
    <3>3. v.vaults \subseteq 1 .. admin
      BY <1>3, <3>1, <3>2 DEF OwnerOK
    <3>4. v.vaults \in SUBSET (1 .. v.new)
      BY <1>1, <1>2, <3>3
    <3>5. \E f \in owners[admin].vaults : \A o \in 1 .. Len(owners) : \A g \in owners[o].vaults : g <= f
      BY <3>1, Zenon DEF OwnerInv, LatestVaultsAllocate, Owners
    <3> QED
      BY <3>1, <3>2, <3>4, <3>5, Zenon
  <2> QED
    BY <2>1, <2>2
<1>5. PICK r : r = [owners[v.new] EXCEPT !.disabled = flags, !.setters = v.keep, !.vaults = v.vaults]
  BY Zenon
<1>6. /\ r \in OwnerRecord /\ r.kind = "hybrid" /\ r.vaults = v.vaults
      /\ r.disabled = flags /\ r.setters = v.keep
  <2>1. v.keep \in SUBSET Nat /\ v.vaults \in SUBSET Nat /\ flags \in SUBSET Nat
    <3>1. v.vaults \in SUBSET (1 .. v.new)
      BY <1>4
    <3> QED
      BY <1>1, <1>2, <3>1
  <2>2. PICK w \in OwnerRecord : w = owners[v.new]
    BY <1>2, <1>3
  <2>3. r = [w EXCEPT !.disabled = flags, !.setters = v.keep, !.vaults = v.vaults]
    BY <1>5, <2>2
  <2>4. /\ r \in OwnerRecord /\ r.kind = w.kind /\ r.vaults = v.vaults
        /\ r.disabled = flags /\ r.setters = v.keep
    BY <2>1, <2>3 DEF OwnerRecord
  <2> QED
    BY <1>2, <2>2, <2>4, Zenon
<1>7. owners' = [owners EXCEPT ![v.new] = r]
  BY <1>2, <1>5, Zenon
<1>8. /\ owners' \in Seq(OwnerRecord) /\ Len(owners') = Len(owners) /\ owners'[v.new] = r
      /\ \A o \in 1 .. Len(owners) : o # v.new => owners'[o] = owners[o]
  BY <1>1, <1>2, <1>6, <1>7, OwnerReplaced, Zenon
<1>9. ASSUME NEW o \in 1 .. Len(owners)
      PROVE  /\ owners'[o].kind = owners[o].kind
             /\ o <= admin => owners'[o].vaults = owners[o].vaults
             /\ OwnerOK(o)'
  <2>1. CASE o = v.new
    <3>1. flags \subseteq 1 .. gens
      BY <1>1
    <3>2. owners'[o] = r /\ ~ (o <= admin) /\ ~ (o > admin')
      BY <1>1, <1>2, <1>8, <2>1
    <3> QED
      BY <1>2, <1>4, <1>6, <2>1, <3>1, <3>2 DEF OwnerOK
  <2>2. CASE o # v.new
    <3>1. owners'[o] = owners[o] /\ OwnerOK(o)
      BY <1>3, <1>8, <2>2
    <3>2. o > admin' => o > admin
      BY <1>1, <1>2
    <3> QED
      BY <1>2, <3>1, <3>2 DEF OwnerOK
  <2> QED
    BY <2>1, <2>2
<1>10. LatestVaultsAllocate'
  <2>1. PICK f \in v.vaults :
          /\ \A g \in v.vaults : g <= f
          /\ \A o \in 1 .. Len(owners) : o <= admin => \A g \in owners[o].vaults : g <= f
    BY <1>4
  <2>2. ASSUME NEW o \in 1 .. Len(owners), NEW g \in owners'[o].vaults PROVE g <= f
    <3>1. CASE o = v.new
      BY <1>6, <1>8, <2>1, <2>2, <3>1
    <3>2. CASE o # v.new
      <4>1. g \in owners[o].vaults /\ OwnerOK(o)
        BY <1>3, <1>8, <2>2, <3>2
      <4>2. o <= admin
        BY <1>1, <4>1 DEF OwnerOK
      <4> QED
        BY <2>1, <4>1, <4>2
    <3> QED
      BY <3>1, <3>2
  <2>3. f \in owners'[admin'].vaults
    BY <1>2, <1>6, <1>8, <2>1
  <2> QED
    BY <1>8, <2>2, <2>3, Zenon DEF LatestVaultsAllocate, Owners
<1>11. OwnerInv'
  BY <1>1, <1>2, <1>8, <1>9, <1>10, OwnerChange
<1> QED
  BY <1>1, <1>2, <1>11 DEF OwnerStepOK

(* A vote that is executed. *)
LEMMA OwnerExecute ==
    ASSUME OwnerInv, NEW i \in DOMAIN proposals, Execute(i)
    PROVE  OwnerStepOK
<1>1. /\ proposals \in Seq(OwnerProposal) /\ owners \in Seq(OwnerRecord) /\ migrators \in Seq(Nat)
      /\ Len(owners) \in Nat /\ Len(migrators) \in Nat /\ gens \in Nat /\ gens >= 2
      /\ admin \in 0 .. Len(owners) /\ admin \in Nat
      /\ proposals[i] \in OwnerProposal /\ holding' = holding
  BY DEF OwnerInv, OwnerType, Execute
<1>2. /\ proposals' \in Seq(OwnerProposal) /\ Len(proposals') = Len(proposals)
      /\ \A j \in 1 .. Len(proposals) : proposals'[j].vote = proposals[j].vote
  <2>1. proposals' = [proposals EXCEPT ![i].status = "executed"] /\ "executed" \in Statuses
    BY DEF Execute, MarkExecuted, Statuses
  <2> QED
    BY <2>1, OwnerProposalsMarked
<1>3. PICK v \in OwnerVote : v = proposals[i].vote
  BY <1>1 DEF OwnerProposal
<1>4. OwnerVoteOK(v) /\ VoteEffect(v)
  <2>1. i \in 1 .. Len(proposals)
    BY <1>1
  <2>2. OwnerVoteOK(proposals[i].vote) /\ VoteEffect(proposals[i].vote)
    BY <2>1, Zenon DEF OwnerInv, Execute
  <2> QED
    BY <1>3, <2>2, Zenon
<1>5. v.old \in Nat /\ v.kind \in {"stage3", "hybrid", "fix", "swap", "markets", "allocate", "disable"}
  BY DEF OwnerVote
<1>6. \A o \in 1 .. Len(owners) : /\ owners[o] \in OwnerRecord /\ OwnerOK(o)
                                  /\ owners[o].disabled \subseteq 1 .. gens
                                  /\ owners[o].setters \subseteq 1 .. Len(migrators)
  <2> TAKE o \in 1 .. Len(owners)
  <2>1. owners[o] \in OwnerRecord
    BY <1>1
  <2>2. OwnerOK(o)
    BY DEF OwnerInv
  <2> QED
    BY <2>1, <2>2 DEF OwnerOK
<1>7. CASE v.kind = "stage3" /\ HandOverFromDAO(v)
  <2>1. /\ v.new \in 1 .. Len(owners) /\ owners[v.new].kind = "migration"
        /\ admin = 0 /\ admin' = v.new /\ migrators' = migrators /\ gens' = gens
        /\ owners' = [owners EXCEPT ![v.new].disabled = {1}]
    BY <1>4, <1>7 DEF OwnerVoteOK, HandOverFromDAO, DAO
  <2> DEFINE r == [owners[v.new] EXCEPT !.disabled = {1}]
  <2>2. /\ r \in OwnerRecord /\ r.kind = "migration" /\ r.disabled = {1}
        /\ r.setters = owners[v.new].setters /\ r.vaults = owners[v.new].vaults
    <3>1. owners[v.new] \in OwnerRecord
      BY <1>6, <2>1
    <3> QED
      BY <2>1, <3>1 DEF OwnerRecord
  <2>3. owners' = [owners EXCEPT ![v.new] = r]
    BY <2>1
  <2> HIDE DEF r
  <2>4. /\ owners' \in Seq(OwnerRecord) /\ Len(owners') = Len(owners) /\ owners'[v.new] = r
        /\ \A o \in 1 .. Len(owners) : o # v.new => owners'[o] = owners[o]
    BY <1>1, <2>1, <2>2, <2>3, OwnerReplaced, Zenon
  <2>5. ASSUME NEW o \in 1 .. Len(owners)
        PROVE  /\ owners'[o].kind = owners[o].kind
               /\ o <= admin => owners'[o].vaults = owners[o].vaults
               /\ OwnerOK(o)'
    <3>1. OwnerOK(o) /\ o > admin
      BY <1>6, <2>1
    <3>2. /\ owners'[o].kind = owners[o].kind /\ owners'[o].vaults = owners[o].vaults
          /\ owners'[o].setters = owners[o].setters
          /\ owners'[o].disabled \subseteq 1 .. gens
      <4>1. CASE o = v.new
        BY <1>1, <2>1, <2>2, <2>4, <4>1
      <4>2. CASE o # v.new
        BY <2>4, <3>1, <4>2 DEF OwnerOK
      <4> QED
        BY <4>1, <4>2
    <3> QED
      BY <2>1, <3>1, <3>2 DEF OwnerOK
  <2>6. ~ IsHybrid(admin)'
    BY <2>1, <2>2, <2>4 DEF IsHybrid
  <2>7. LatestVaultsAllocate'
    BY <2>6, Zenon DEF LatestVaultsAllocate
  <2>8. OwnerInv'
    BY <1>1, <1>2, <2>1, <2>4, <2>5, <2>7, OwnerChange
  <2> QED
    BY <1>1, <2>1, <2>8 DEF OwnerStepOK
<1>8. CASE v.kind = "hybrid" /\ HandOverToHybrid(v)
  <2>1. {1} \in SUBSET {1, 2}
    OBVIOUS
  <2> QED
    BY <1>1, <1>2, <1>4, <1>8, <2>1, HandedOver, Zenon DEF HandOverToHybrid
<1>9. CASE v.kind = "fix" /\ HandOverToFixed(v)
  <2>1. {2} \in SUBSET {1, 2}
    OBVIOUS
  <2> QED
    BY <1>1, <1>2, <1>4, <1>9, <2>1, HandedOver, Zenon DEF HandOverToFixed
<1>10. CASE v.kind = "swap" /\ RegisterMigrator(v)
  <2>1. /\ IsHybrid(v.old) /\ v.old \in 1 .. Len(owners)
        /\ v.new \in 1 .. Len(migrators) /\ migrators[v.new] = v.old /\ v.previous # v.new
        /\ admin' = admin /\ migrators' = migrators /\ gens' = gens
        /\ owners' = [owners EXCEPT ![v.old].setters = (@ \cup {v.new}) \ {v.previous}]
    BY <1>1, <1>4, <1>10 DEF OwnerVoteOK, RegisterMigrator, IsHybrid, DAO
  <2>2. PICK s \in SUBSET (1 .. Len(migrators)) : s = (owners[v.old].setters \cup {v.new}) \ {v.previous}
    <3>1. (owners[v.old].setters \cup {v.new}) \ {v.previous} \in SUBSET (1 .. Len(migrators))
      BY <1>6, <2>1
    <3> QED
      BY <3>1, Zenon
  <2>3. PICK r : r = [owners[v.old] EXCEPT !.setters = s]
    BY Zenon
  <2>4. /\ r \in OwnerRecord /\ r.kind = owners[v.old].kind /\ r.setters = s
        /\ r.disabled = owners[v.old].disabled /\ r.vaults = owners[v.old].vaults
    <3>1. PICK w \in OwnerRecord : w = owners[v.old]
      BY <1>6, <2>1
    <3>2. r = [w EXCEPT !.setters = s] /\ s \in SUBSET Nat
      BY <1>1, <2>3, <3>1
    <3>3. /\ r \in OwnerRecord /\ r.kind = w.kind /\ r.setters = s
          /\ r.disabled = w.disabled /\ r.vaults = w.vaults
      BY <3>2 DEF OwnerRecord
    <3> QED
      BY <3>1, <3>3, Zenon
  <2>5. owners' = [owners EXCEPT ![v.old] = r]
    BY <2>1, <2>2, <2>3
  <2>6. /\ owners' \in Seq(OwnerRecord) /\ Len(owners') = Len(owners) /\ owners'[v.old] = r
        /\ \A o \in 1 .. Len(owners) : o # v.old => owners'[o] = owners[o]
    BY <1>1, <2>1, <2>4, <2>5, OwnerReplaced, Zenon
  <2>7. \A o \in 1 .. Len(owners) : /\ owners'[o].kind = owners[o].kind
                                    /\ owners'[o].vaults = owners[o].vaults
                                    /\ OwnerOK(o)'
    <3> SUFFICES ASSUME NEW o \in 1 .. Len(owners)
                 PROVE  /\ owners'[o].kind = owners[o].kind
                        /\ owners'[o].vaults = owners[o].vaults
                        /\ OwnerOK(o)'
      BY Zenon
    <3>1. /\ owners'[o].kind = owners[o].kind
          /\ owners'[o].disabled = owners[o].disabled
          /\ owners'[o].vaults = owners[o].vaults
          /\ owners'[o].setters \subseteq 1 .. Len(migrators)
      BY <1>6, <2>1, <2>2, <2>4, <2>6, Zenon
    <3>2. OwnerOK(o)
      BY <1>6
    <3> QED
      BY <2>1, <3>1, <3>2 DEF OwnerOK
  <2>8. IsHybrid(admin)' <=> IsHybrid(admin)
    BY <1>1, <2>1, <2>7 DEF IsHybrid, DAO
  <2>9. IsHybrid(admin) => admin \in 1 .. Len(owners)
    BY <1>1 DEF IsHybrid, DAO
  <2>10. LatestVaultsAllocate'
    BY <2>1, <2>6, <2>7, <2>8, VaultsKept
  <2>11. OwnerInv'
    BY <1>1, <1>2, <2>1, <2>6, <2>7, <2>10, OwnerChange
  <2>12. Working # {} => Working' # {}
    <3> HAVE Working # {}
    <3>1. PICK m \in 1 .. Len(migrators) :
            admin = migrators[m] /\ IsHybrid(admin) /\ m \in owners[admin].setters
      BY DEF Working, Migrators
    <3>2. CASE m = v.previous /\ admin = v.old
      <4>1. v.new \in owners'[admin'].setters /\ admin' = migrators'[v.new]
        BY <2>1, <2>2, <2>4, <2>6, <3>2
      <4> QED
        BY <2>1, <2>8, <3>1, <4>1 DEF Working, Migrators
    <3>3. CASE ~ (m = v.previous /\ admin = v.old)
      <4>1. m \in owners'[admin'].setters /\ admin' = migrators'[m]
        BY <2>1, <2>2, <2>4, <2>6, <2>9, <3>1, <3>3
      <4> QED
        BY <2>1, <2>8, <3>1, <4>1 DEF Working, Migrators
    <3> QED
      BY <3>2, <3>3
  <2> QED
    BY <1>1, <2>1, <2>11, <2>12 DEF OwnerStepOK
<1>11. CASE v.kind = "markets" /\ AddGeneration(v)
  <2>1. /\ v.old = admin /\ admin \in 1 .. Len(owners) /\ IsHybrid(admin)
        /\ admin' = admin /\ migrators' = migrators /\ gens' = gens + 1
        /\ owners' = [owners EXCEPT ![admin].disabled = @ \cup {gens}]
    BY <1>1, <1>4, <1>11 DEF OwnerVoteOK, AddGeneration, ThroughLiveOwner, DAO
  <2>2. PICK d \in SUBSET (1 .. gens') : d = owners[admin].disabled \cup {gens}
    <3>1. owners[admin].disabled \cup {gens} \in SUBSET (1 .. gens')
      BY <1>1, <1>6, <2>1
    <3> QED
      BY <3>1, Zenon
  <2>3. owners' = [owners EXCEPT ![admin].disabled = d]
    BY <2>1, <2>2
  <2>4. gens' \in Nat /\ gens <= gens'
    BY <1>1, <2>1
  <2> QED
    BY <1>1, <1>2, <2>1, <2>2, <2>3, <2>4, OwnerFlagsSet
<1>12. CASE v.kind = "allocate" /\ Allocate(v)
  <2>1. /\ v.old = admin /\ admin \in 1 .. Len(owners)
        /\ admin' = admin /\ migrators' = migrators /\ gens' = gens
        /\ owners' = [owners EXCEPT ![admin].disabled = @ \ {v.gen}]
    BY <1>1, <1>4, <1>12 DEF OwnerVoteOK, Allocate, ThroughLiveOwner, DAO
  <2>2. PICK d \in SUBSET (1 .. gens') : d = owners[admin].disabled \ {v.gen}
    <3>1. owners[admin].disabled \ {v.gen} \in SUBSET (1 .. gens')
      BY <1>1, <1>6, <2>1
    <3> QED
      BY <3>1, Zenon
  <2>3. owners' = [owners EXCEPT ![admin].disabled = d]
    BY <2>1, <2>2
  <2>4. gens' \in Nat /\ gens <= gens'
    BY <1>1, <2>1
  <2> QED
    BY <1>1, <1>2, <2>1, <2>2, <2>3, <2>4, OwnerFlagsSet
<1>13. CASE v.kind = "disable" /\ Disable(v)
  <2>1. /\ v.old = admin /\ admin \in 1 .. Len(owners) /\ IsHybrid(admin) /\ v.gen \in 1 .. gens
        /\ admin' = admin /\ migrators' = migrators /\ gens' = gens
        /\ owners' = [owners EXCEPT ![admin].disabled = @ \cup {v.gen}]
    BY <1>1, <1>4, <1>13 DEF OwnerVoteOK, Disable, ThroughLiveOwner, DAO
  <2>2. PICK d \in SUBSET (1 .. gens') : d = owners[admin].disabled \cup {v.gen}
    <3>1. owners[admin].disabled \cup {v.gen} \in SUBSET (1 .. gens')
      BY <1>1, <1>6, <2>1
    <3> QED
      BY <3>1, Zenon
  <2>3. owners' = [owners EXCEPT ![admin].disabled = d]
    BY <2>1, <2>2
  <2>4. gens' \in Nat /\ gens <= gens'
    BY <1>1, <2>1
  <2> QED
    BY <1>1, <1>2, <2>1, <2>2, <2>3, <2>4, OwnerFlagsSet
<1> QED
  BY <1>4, <1>7, <1>8, <1>9, <1>10, <1>11, <1>12, <1>13 DEF VoteEffect

(* Such a script takes a good step. *)
LEMMA OwnerScriptStep ==
    ASSUME OwnerInv, NEW creator \in Creators, NEW v \in OwnerVote,
           CreateProposal(creator, v), OwnerVoteOK(v)',
           UNCHANGED <<admin, gens, holding>>,
           UNCHANGED owners \/ \E k \in {"migration", "hybrid"} : owners' = Append(owners, NewOwner(k)),
           UNCHANGED migrators \/ \E o \in 1 .. Len(owners') : migrators' = Append(migrators, o)
    PROVE  OwnerStepOK
<1>1. /\ owners \in Seq(OwnerRecord) /\ migrators \in Seq(Nat)
      /\ Len(owners) \in Nat /\ Len(migrators) \in Nat /\ admin \in 0 .. Len(owners)
  BY DEF OwnerInv, OwnerType
<1>2. OwnerInv'
  BY OwnerScript
<1>3. Len(migrators') \in Nat /\ Len(migrators) <= Len(migrators')
      /\ \A m \in 1 .. Len(migrators) : migrators'[m] = migrators[m]
  <2>1. CASE UNCHANGED migrators
    BY <1>1, <2>1
  <2>2. CASE \E o \in 1 .. Len(owners') : migrators' = Append(migrators, o)
    <3>1. PICK o \in 1 .. Len(owners') : migrators' = Append(migrators, o)
      BY <2>2
    <3>2. o \in Nat
      BY <1>2 DEF OwnerInv, OwnerType
    <3> QED
      BY <1>1, <3>1, <3>2, Appended
  <2> QED
    BY <2>1, <2>2
<1>4. admin \in 1 .. Len(owners) => owners'[admin] = owners[admin]
  <2>1. CASE UNCHANGED owners
    BY <2>1
  <2>2. CASE \E k \in {"migration", "hybrid"} : owners' = Append(owners, NewOwner(k))
    <3>1. PICK k \in {"migration", "hybrid"} : owners' = Append(owners, NewOwner(k))
      BY <2>2
    <3>2. NewOwner(k) \in OwnerRecord
      BY DEF NewOwner, OwnerRecord
    <3> QED
      BY <1>1, <3>1, <3>2, Appended
  <2> QED
    BY <2>1, <2>2
<1>5. IsHybrid(admin) => owners'[admin] = owners[admin]
  BY <1>1, <1>4 DEF IsHybrid, DAO
<1>6. Working # {} => Working' # {}
  BY <1>1, <1>3, <1>5, WorkingKept DEF IsHybrid
<1> QED
  BY <1>1, <1>2, <1>6 DEF OwnerStepOK

(* The scripts that deploy an owner. *)
LEMMA OwnerDeployed ==
    ASSUME OwnerInv, Stage3 \/ Hybrid \/ Fix
    PROVE  OwnerStepOK
<1>1. /\ owners \in Seq(OwnerRecord) /\ migrators \in Seq(Nat)
      /\ Len(owners) \in Nat /\ Len(migrators) \in Nat /\ admin \in 0 .. Len(owners)
  BY DEF OwnerInv, OwnerType
<1>2. ASSUME NEW k \in {"migration", "hybrid"}, owners' = Append(owners, NewOwner(k))
      PROVE  /\ Len(owners') = Len(owners) + 1 /\ owners'[Len(owners) + 1].kind = k
             /\ \A o \in 1 .. Len(owners) : owners'[o] = owners[o]
             /\ \E l \in {"migration", "hybrid"} : owners' = Append(owners, NewOwner(l))
  <2>1. NewOwner(k) \in OwnerRecord /\ NewOwner(k).kind = k
    BY DEF NewOwner, OwnerRecord
  <2>2. /\ Len(owners') = Len(owners) + 1 /\ owners'[Len(owners) + 1] = NewOwner(k)
        /\ \A o \in 1 .. Len(owners) : owners'[o] = owners[o]
    BY <1>1, <1>2, <2>1, Appended
  <2> QED
    BY <1>2, <2>1, <2>2, Zenon
<1>3. /\ "yb-deployer-2" \in Creators /\ "yb-deployer" \in Creators
      /\ "migration" \in {"migration", "hybrid"} /\ "hybrid" \in {"migration", "hybrid"}
  BY DEF Creators
<1>4. ASSUME Stage3 PROVE OwnerStepOK
  <2>1. PICK v : v = [kind |-> "stage3", old |-> 0, new |-> Len(owners) + 1]
    BY Zenon
  <2>2. v \in OwnerVote
    BY <1>1, <2>1 DEF OwnerVote
  <2>3. /\ CreateProposal("yb-deployer-2", v)
        /\ owners' = Append(owners, NewOwner("migration"))
        /\ migrators' = Append(migrators, Len(owners) + 1)
        /\ UNCHANGED <<admin, gens, holding>>
    BY <1>4, <2>1, Zenon DEF Stage3, DAO, NextOwner
  <2>4. /\ Len(owners') = Len(owners) + 1 /\ owners'[Len(owners) + 1].kind = "migration"
        /\ \E l \in {"migration", "hybrid"} : owners' = Append(owners, NewOwner(l))
    BY <1>2, <1>3, <2>3, Zenon
  <2>5. OwnerVoteOK(v)'
    BY <1>1, <2>1, <2>3, <2>4 DEF OwnerVoteOK
  <2>6. \E o \in 1 .. Len(owners') : migrators' = Append(migrators, o)
    BY <1>1, <2>3, <2>4
  <2> QED
    BY <1>3, <2>2, <2>3, <2>4, <2>5, <2>6, OwnerScriptStep, Zenon
<1>5. ASSUME Hybrid PROVE OwnerStepOK
  <2>1. PICK v : v = [kind |-> "hybrid", old |-> admin, new |-> Len(owners) + 1,
                      keep |-> {Len(migrators) + 1}, vaults |-> {Len(owners) + 1}]
    BY Zenon
  <2>2. v \in OwnerVote
    BY <1>1, <2>1 DEF OwnerVote
  <2>3. /\ CreateProposal("yb-deployer", v)
        /\ owners' = Append(owners, NewOwner("hybrid"))
        /\ migrators' = Append(migrators, Len(owners) + 1)
        /\ UNCHANGED <<admin, gens, holding>>
    BY <1>5, <2>1, Zenon DEF Hybrid, DAO, NextOwner, NextMigrator
  <2>4. /\ Len(owners') = Len(owners) + 1 /\ owners'[Len(owners) + 1].kind = "hybrid"
        /\ \A o \in 1 .. Len(owners) : owners'[o] = owners[o]
        /\ \E l \in {"migration", "hybrid"} : owners' = Append(owners, NewOwner(l))
    BY <1>2, <1>3, <2>3, Zenon
  <2>5. Len(migrators') = Len(migrators) + 1
    BY <1>1, <2>3
  <2>6. OwnerVoteOK(v)'
    BY <1>1, <2>1, <2>3, <2>4, <2>5 DEF OwnerVoteOK
  <2>7. \E o \in 1 .. Len(owners') : migrators' = Append(migrators, o)
    <3>1. Len(owners) + 1 \in 1 .. Len(owners')
      BY <1>1, <2>4
    <3> QED
      BY <2>3, <3>1, Zenon
  <2> QED
    BY <1>3, <2>2, <2>3, <2>4, <2>6, <2>7, OwnerScriptStep, Zenon
<1>6. ASSUME Fix PROVE OwnerStepOK
  <2>1. PICK v : v = [kind |-> "fix", old |-> admin, new |-> Len(owners) + 1,
                      keep |-> owners[admin].setters, vaults |-> owners[admin].vaults]
    BY Zenon
  <2>2. /\ CreateProposal("yb-deployer", v) /\ IsHybrid(admin)
        /\ owners' = Append(owners, NewOwner("hybrid"))
        /\ UNCHANGED <<admin, migrators, gens, holding>>
    BY <1>6, <2>1, Zenon DEF Fix, NextOwner
  <2>3. /\ admin \in 1 .. Len(owners) /\ owners[admin].setters \subseteq 1 .. Len(migrators)
        /\ owners[admin].vaults \in SUBSET Nat
    BY <1>1, <2>2 DEF IsHybrid, DAO, OwnerInv, OwnerOK
  <2>4. v \in OwnerVote
    BY <1>1, <2>1, <2>3 DEF OwnerVote
  <2>5. /\ Len(owners') = Len(owners) + 1 /\ owners'[Len(owners) + 1].kind = "hybrid"
        /\ \A o \in 1 .. Len(owners) : owners'[o] = owners[o]
        /\ \E l \in {"migration", "hybrid"} : owners' = Append(owners, NewOwner(l))
    BY <1>2, <1>3, <2>2, Zenon
  <2>6. OwnerVoteOK(v)'
    <3>1. IsHybrid(v.old)'
      BY <1>1, <2>1, <2>2, <2>3, <2>5 DEF IsHybrid, DAO
    <3> QED
      BY <1>1, <2>1, <2>2, <2>3, <2>5, <3>1 DEF OwnerVoteOK
  <2> QED
    BY <1>3, <2>2, <2>4, <2>5, <2>6, OwnerScriptStep, Zenon
<1> QED
  BY <1>4, <1>5, <1>6

(* The scripts that deploy a migrator. *)
LEMMA MigratorDeployed ==
    ASSUME OwnerInv, Swap \/ RolloutCode \/ Redeploy
    PROVE  OwnerStepOK
<1>1. /\ owners \in Seq(OwnerRecord) /\ migrators \in Seq(Nat)
      /\ Len(owners) \in Nat /\ Len(migrators) \in Nat /\ admin \in 0 .. Len(owners)
  BY DEF OwnerInv, OwnerType
<1>2. PICK creator \in Creators, previous \in owners[admin].setters, live \in BOOLEAN :
        IsHybrid(admin) /\ NewMigratorVote(creator, previous, live)
  <2>1. /\ "yb-deployer-2" \in Creators /\ "yb-deployer" \in Creators
        /\ TRUE \in BOOLEAN /\ FALSE \in BOOLEAN
    BY DEF Creators
  <2>2. CASE Swap
    BY <2>1, <2>2, Zenon DEF Swap
  <2>3. CASE RolloutCode
    BY <2>1, <2>3, Zenon DEF RolloutCode
  <2>4. CASE Redeploy
    BY <2>1, <2>4, Zenon DEF Redeploy
  <2> QED
    BY <2>2, <2>3, <2>4
<1>3. PICK v : v = [kind |-> "swap", old |-> admin, new |-> Len(migrators) + 1,
                    previous |-> previous, live |-> live]
  BY Zenon
<1>4. /\ CreateProposal(creator, v) /\ migrators' = Append(migrators, admin)
      /\ UNCHANGED <<admin, owners, gens, holding>>
  BY <1>2, <1>3, Zenon DEF NewMigratorVote, NextMigrator
<1>5. admin \in 1 .. Len(owners) /\ previous \in 1 .. Len(migrators)
  BY <1>1, <1>2 DEF IsHybrid, DAO, OwnerInv, OwnerOK
<1>6. v \in OwnerVote
  <2>1. v \in [kind : {"swap"}, old : Nat, new : Nat, previous : Nat, live : BOOLEAN]
    BY <1>1, <1>3, <1>5
  <2> QED
    BY <2>1 DEF OwnerVote
<1>7. Len(migrators') = Len(migrators) + 1 /\ migrators'[Len(migrators) + 1] = admin
  <2>1. admin \in Nat
    BY <1>1
  <2> QED
    BY <1>1, <1>4, <2>1, Appended
<1>8. v.kind = "swap" /\ v.old = admin /\ v.new = Len(migrators) + 1 /\ v.previous = previous
  BY <1>3, Zenon
<1>9. OwnerVoteOK(v)'
  <2>1. IsHybrid(v.old)'
    BY <1>2, <1>4, <1>8 DEF IsHybrid, DAO
  <2> QED
    BY <1>1, <1>4, <1>5, <1>7, <1>8, <2>1 DEF OwnerVoteOK
<1>10. \E o \in 1 .. Len(owners') : migrators' = Append(migrators, o)
  BY <1>4, <1>5, Zenon
<1> QED
  BY <1>4, <1>6, <1>9, <1>10, OwnerScriptStep, Zenon

(* The scripts that only propose. *)
LEMMA OwnerProposed ==
    ASSUME OwnerInv,
           RolloutMarkets \/ (\E g \in 2 .. gens : Allocation(g)) \/ DisableMarket
    PROVE  OwnerStepOK
<1>1. Len(owners) \in Nat /\ admin \in 0 .. Len(owners) /\ gens \in Nat /\ gens >= 2
  BY DEF OwnerInv, OwnerType
<1>2. "yb-deployer-a" \in Creators /\ "yb-deployer" \in Creators
  BY DEF Creators
<1>3. ASSUME NEW v \in OwnerVote, NEW creator \in Creators, CreateProposal(creator, v),
             UNCHANGED <<ownerVars, holding>>, OwnerVoteOK(v)
      PROVE  OwnerStepOK
  <2>1. UNCHANGED <<admin, owners, migrators, gens, holding>>
    BY <1>3 DEF ownerVars
  <2>2. OwnerVoteOK(v)'
    BY <1>3, <2>1 DEF OwnerVoteOK, IsHybrid
  <2> QED
    BY <1>3, <2>1, <2>2, OwnerScriptStep
<1>4. ASSUME RolloutMarkets PROVE OwnerStepOK
  <2>1. PICK v : v = [kind |-> "markets", old |-> admin, gens |-> gens]
    BY Zenon
  <2>2. IsHybrid(admin) /\ CreateProposal("yb-deployer-a", v) /\ UNCHANGED <<ownerVars, holding>>
    BY <1>4, <2>1, Zenon DEF RolloutMarkets
  <2>3. v \in OwnerVote
    BY <1>1, <2>1 DEF OwnerVote
  <2>4. OwnerVoteOK(v)
    BY <1>1, <2>1, <2>2 DEF OwnerVoteOK
  <2> QED
    BY <1>2, <1>3, <2>2, <2>3, <2>4
<1>5. ASSUME NEW g \in 2 .. gens, Allocation(g) PROVE OwnerStepOK
  <2>1. PICK v : v = [kind |-> "allocate", old |-> admin, gen |-> g]
    BY Zenon
  <2>2. CreateProposal("yb-deployer", v) /\ UNCHANGED <<ownerVars, holding>>
    BY <1>5, <2>1, Zenon DEF Allocation
  <2>3. v \in OwnerVote
    BY <1>1, <2>1 DEF OwnerVote
  <2>4. OwnerVoteOK(v)
    BY <1>1, <2>1, <2>2 DEF OwnerVoteOK
  <2> QED
    BY <1>2, <1>3, <2>2, <2>3, <2>4
<1>6. ASSUME DisableMarket PROVE OwnerStepOK
  <2>1. PICK v : v = [kind |-> "disable", old |-> admin, gen |-> 2]
    BY Zenon
  <2>2. IsHybrid(admin) /\ CreateProposal("yb-deployer", v) /\ UNCHANGED <<ownerVars, holding>>
    BY <1>6, <2>1, Zenon DEF DisableMarket
  <2>3. v \in OwnerVote
    BY <1>1, <2>1 DEF OwnerVote
  <2>4. OwnerVoteOK(v)
    BY <1>1, <2>1, <2>2 DEF OwnerVoteOK
  <2> QED
    BY <1>2, <1>3, <2>2, <2>3, <2>4
<1> QED
  BY <1>4, <1>5, <1>6

(* Every step. *)
LEMMA OwnerStep ==
    ASSUME OwnerInv, [Next]_vars
    PROVE  OwnerStepOK
<1>1. admin \in Nat /\ gens \in Nat /\ gens >= 2
  BY DEF OwnerInv, OwnerType
<1>2. ASSUME UNCHANGED ownerVars, holding' \in 1 .. gens, proposals' \in Seq(OwnerProposal),
             Len(proposals') = Len(proposals),
             \A j \in 1 .. Len(proposals) : proposals'[j].vote = proposals[j].vote
      PROVE  OwnerStepOK
  <2>1. UNCHANGED <<admin, owners, migrators, gens>>
    BY <1>2 DEF ownerVars
  <2>2. LatestVaultsAllocate' <=> LatestVaultsAllocate
    BY <2>1 DEF LatestVaultsAllocate, IsHybrid, Owners
  <2>3. Working' = Working
    BY <2>1 DEF Working, Migrators, IsHybrid
  <2>4. (\A i \in 1 .. Len(proposals) : OwnerVoteOK(proposals[i].vote))'
    <3> SUFFICES ASSUME NEW i \in 1 .. Len(proposals') PROVE OwnerVoteOK(proposals[i].vote)'
      BY Zenon
    <3>1. i \in 1 .. Len(proposals) /\ proposals'[i].vote = proposals[i].vote
      BY <1>2
    <3>2. OwnerVoteOK(proposals[i].vote)
      BY <3>1 DEF OwnerInv
    <3> QED
      BY <2>1, <3>1, <3>2 DEF OwnerVoteOK, IsHybrid
  <2>5. OwnerInv'
    BY <1>2, <2>1, <2>2, <2>4 DEF OwnerInv, OwnerType, OwnerOK
  <2> QED
    BY <1>1, <2>1, <2>3, <2>5 DEF OwnerStepOK
<1>3. proposals \in Seq(OwnerProposal) /\ holding \in 1 .. gens
  BY DEF OwnerInv, OwnerType
<1>4. CASE Scripts
  <2>1. (\E g \in 2 .. gens : Allocation(g)) \/ Stage3 \/ Hybrid \/ Fix \/ Swap
          \/ RolloutCode \/ RolloutMarkets \/ Redeploy \/ DisableMarket
    <3>1. \A g : Allocation(g) => g \in 2 .. gens
      BY DEF Allocation
    <3> QED
      BY <1>4, <3>1, Zenon DEF Scripts, Cap200, ReduceAllocation, WbtcCapUp, Pool10WethUp
  <2> QED
    BY <2>1, OwnerDeployed, MigratorDeployed, OwnerProposed
<1>5. ASSUME NEW i \in DOMAIN proposals, Pass(i) PROVE OwnerStepOK
  <2>1. /\ proposals' = [proposals EXCEPT ![i].status = "passed"] /\ "passed" \in Statuses
        /\ UNCHANGED <<ownerVars, holding>>
    BY <1>5 DEF Pass, PassVote, Statuses
  <2> QED
    BY <1>2, <1>3, <2>1, OwnerProposalsMarked
<1>6. ASSUME NEW i \in DOMAIN proposals, Execute(i) PROVE OwnerStepOK
  BY <1>6, OwnerExecute
<1>7. CASE DayPasses
  BY <1>2, <1>3, <1>7 DEF DayPasses, CooldownEnds
<1>8. CASE Migrate
  BY <1>2, <1>3, <1>8 DEF Migrate, votingVars
<1>9. CASE UNCHANGED vars
  BY <1>2, <1>3, <1>9 DEF vars, votingVars
<1> QED
  BY <1>4, <1>5, <1>6, <1>7, <1>8, <1>9 DEF Next, Voting

(* The owners, the migrators and the generations that the votes name are the
   ones that were deployed: what the scripts deployed, and what their votes do
   with it, fits together in any order. *)
THEOREM OwnerInvariant == SafetySpec => []OwnerInv
<1>1. OwnerInv /\ [Next]_vars => OwnerInv'
  BY OwnerStep DEF OwnerStepOK
<1> QED
  BY OwnerInit, <1>1, PTL DEF SafetySpec

(* The hand-over votes in whatever order: set_admin and transfer_ownership_back
   never take the Factory back to an owner that was replaced. *)
THEOREM OwnersNeverMoveBack == SafetySpec => OwnersOnlyMoveForward
<1>1. OwnerInv /\ [Next]_vars => [admin' >= admin]_vars
  BY OwnerStep DEF OwnerStepOK
<1> QED
  BY OwnerInvariant, <1>1, PTL DEF SafetySpec, OwnersOnlyMoveForward

(* Every hand-over brings the HybridVaultFactory that the replaced owner had
   when the vote was created, which is the one it still has, or a newer one. *)
THEOREM VaultsKeepAllocating == SafetySpec => []LatestVaultsAllocate
<1>1. OwnerInv => LatestVaultsAllocate
  BY DEF OwnerInv
<1> QED
  BY OwnerInvariant, <1>1, PTL

(* Every migration reads the flags of the live owner, whatever was handed over
   since its migrator was deployed: the LTs take the calls of no other owner. *)
THEOREM MigrationsSeeLiveFlags == SafetySpec => MigrationsObeyLiveFlags
<1> DEFINE Obeyed == holding' # holding => holding' \notin owners[admin].disabled
<1>1. [Next]_vars => [Obeyed]_vars
  <2> SUFFICES ASSUME Next, holding' # holding
               PROVE  holding' \notin owners[admin].disabled
    OBVIOUS
  <2>1. Migrate
    <3>1. ASSUME Scripts PROVE holding' = holding
      BY <3>1 DEF Scripts, Stage3, Hybrid, Fix, Swap, RolloutCode, RolloutMarkets,
                  Redeploy, Cap200, ReduceAllocation, WbtcCapUp, Pool10WethUp,
                  DisableMarket, Allocation, NewMigratorVote, ownerVars
    <3>2. ASSUME Voting PROVE holding' = holding
      BY <3>2 DEF Voting, Pass, Execute, DayPasses
    <3> QED
      BY <3>1, <3>2 DEF Next
  <2>2. PICK m \in Working : holding' \notin owners[migrators[m]].disabled
    BY <2>1 DEF Migrate
  <2>3. migrators[m] = admin
    BY DEF Working
  <2> QED
    BY <2>2, <2>3
<1> QED
  BY <1>1, PTL DEF SafetySpec, MigrationsObeyLiveFlags

(* Two calls of set_limit_setter at a time: the swaps of one owner overtake
   each other, and one of its migrators always works. *)
THEOREM SwapsKeepAMigrator == SafetySpec => MigrationsSurviveSwaps
<1>1. OwnerInv /\ [Next]_vars =>
        [Working # {} /\ admin' = admin => Working' # {}]_vars
  BY OwnerStep DEF OwnerStepOK
<1> QED
  BY OwnerInvariant, <1>1, PTL DEF SafetySpec, MigrationsSurviveSwaps
-----------------------------------------------------------------------------
(***************************************************************************)
(* The fees of the BTC markets                                             *)
(***************************************************************************)
FeeStep ==
    [kind : {"btc"}, raise : BOOLEAN, from : Nat, to : [BTC -> Nat], scale : [BTC -> Nat], until : Nat]

FeeVote == FeeStep \cup [kind : {"april", "weth"}]

FeeProposal == [by : {Accounts[k] : k \in 1 .. 4}, vote : FeeVote, status : Statuses]

FeeType ==
    /\ proposals \in Seq(FeeProposal)
    /\ job \in [votes : Seq(FeeStep), next : Nat]
    /\ Len(job.votes) <= 4 /\ job.next >= 1
    /\ clock \in Nat
    /\ scale \in [BTC -> {0, 1}]
    /\ fee \in [BTC \cup {WETH} -> Nat]

\* One of the first n proposals raised the fees.
RaisedBefore(n) == \E j \in 1 .. n : IsStep(j, TRUE) /\ Executed(j)

\* A vote of a schedule that was made when there were n proposals.
FeeStepOK(v, n) ==
    /\ \A a, b \in BTC : v.to[a] = v.to[b]
    /\ v.raise = FALSE => /\ v.from \in {FEE_A, FEE_B, FEE_C}
                          /\ RaisedBefore(n) \/ \A m \in BTC : v.to[m] < v.from

\* The fees are what they were, or what change_fees_april makes them, until a
\* raise is executed: no step finds the fee it goes down from before that.
FeeInv ==
    /\ FeeType
    /\ FeesMoveTogether
    /\ RaisedBefore(Len(proposals)) \/ \A m \in BTC : fee[m] \in {NormalFee, FEE_April}
    /\ \A i \in 1 .. Len(proposals) :
           proposals[i].vote.kind = "btc" => FeeStepOK(proposals[i].vote, i - 1)
    /\ \A k \in 1 .. Len(job.votes) : FeeStepOK(job.votes[k], Len(proposals))
    /\ StepsFollowARaise

(* Every fee is the normal one at first. *)
LEMMA FeeInit == FeeVotesInit => FeeInv
<1> HAVE FeeVotesInit
<1>1. /\ NormalFee \in Nat /\ proposals = <<>> /\ clock = 0 /\ scale = [m \in BTC |-> 0]
      /\ fee = [m \in BTC \cup {WETH} |-> NormalFee] /\ job = [votes |-> <<>>, next |-> 1]
  BY FeeAssumption DEF FeeVotesInit, VotingInit, Idle, FEE_C
<1>2. FeeType
  BY <1>1 DEF FeeType
<1>3. FeesMoveTogether /\ \A m \in BTC : fee[m] \in {NormalFee, FEE_April}
  BY <1>1 DEF FeesMoveTogether
<1> QED
  BY <1>1, <1>2, <1>3 DEF FeeInv, StepsFollowARaise

(* A vote of a schedule, as it is made. *)
LEMMA StepMade ==
    FeeInv => \A r \in BOOLEAN, from \in Nat, to \in [BTC -> Nat], until \in Nat :
                 /\ Step(r, from, to, until) \in FeeStep
                 /\ Step(r, from, to, until).raise = r
                 /\ Step(r, from, to, until).from = from
                 /\ Step(r, from, to, until).to = to
<1> SUFFICES ASSUME FeeInv, NEW r \in BOOLEAN, NEW from \in Nat, NEW to \in [BTC -> Nat], NEW until \in Nat
             PROVE  /\ Step(r, from, to, until) \in FeeStep
                    /\ Step(r, from, to, until).raise = r
                    /\ Step(r, from, to, until).from = from
                    /\ Step(r, from, to, until).to = to
  BY Zenon
<1>1. scale \in [BTC -> Nat] /\ clock + until \in Nat
  BY DEF FeeInv, FeeType
<1>2. PICK v : v = [kind |-> "btc", raise |-> r, from |-> from, to |-> to,
                    scale |-> scale, until |-> clock + until]
  BY Zenon
<1>3. v \in FeeStep /\ v.raise = r /\ v.from = from /\ v.to = to
  BY <1>1, <1>2 DEF FeeStep
<1>4. v = Step(r, from, to, until)
  BY <1>2, Zenon DEF Step
<1> QED
  BY <1>3, <1>4, Zenon

\* Proposals are added, and some are executed.
VotesAdvance ==
    /\ proposals' \in Seq(FeeProposal)
    /\ Len(proposals) <= Len(proposals')
    /\ \A j \in 1 .. Len(proposals) :
           proposals'[j].vote = proposals[j].vote /\ (Executed(j) => Executed(j)')

(* A raise that was executed stays executed. *)
LEMMA RaisedKept ==
    ASSUME FeeInv, VotesAdvance,
           NEW n \in Nat, NEW k \in Nat, n <= k, n <= Len(proposals), RaisedBefore(n)
    PROVE  RaisedBefore(k)'
<1>1. PICK j \in 1 .. n : IsStep(j, TRUE) /\ Executed(j)
  BY DEF RaisedBefore
<1>2. proposals \in Seq(FeeProposal) /\ proposals' \in Seq(FeeProposal) /\ Len(proposals) <= Len(proposals')
  BY DEF FeeInv, FeeType, VotesAdvance
<1>3. j \in 1 .. Len(proposals) /\ j \in DOMAIN proposals' /\ j \in 1 .. k
  BY <1>2
<1>4. IsStep(j, TRUE)'
  BY <1>1, <1>3, Zenon DEF IsStep, VotesAdvance
<1>5. Executed(j)'
  BY <1>1, <1>3, Zenon DEF VotesAdvance
<1> QED
  BY <1>3, <1>4, <1>5, Zenon DEF RaisedBefore

(* A step that was all right stays so as proposals advance. *)
LEMMA FeeStepKept ==
    ASSUME FeeInv, VotesAdvance, NEW v,
           NEW n \in Nat, NEW k \in Nat, n <= k, n <= Len(proposals), FeeStepOK(v, n)
    PROVE  FeeStepOK(v, k)'
<1>1. RaisedBefore(n) => RaisedBefore(k)'
  BY RaisedKept
<1> QED
  BY <1>1, Zenon DEF FeeStepOK

(* The two schedules, made of the fees as they are. *)
LEMMA ScheduleOK ==
    ASSUME FeeInv, NEW votes, votes \in {FirstSchedule, SecondSchedule}
    PROVE  /\ votes \in Seq(FeeStep) /\ Len(votes) <= 4
           /\ \A k \in 1 .. Len(votes) : FeeStepOK(votes[k], Len(proposals))
<1>1. /\ DeadlineA \in Nat /\ DeadlineBCD \in Nat /\ NormalFee \in 1 .. FEE_C - 1
      /\ fee \in [BTC \cup {WETH} -> Nat] /\ \A a, b \in BTC : fee[a] = fee[b]
  BY FeeAssumption DEF FeeInv, FeeType, FeesMoveTogether
<1>2. \A x \in Nat : To(x) \in [BTC -> Nat] /\ \A m \in BTC : To(x)[m] = x
  BY DEF To
<1>3. Current \in [BTC -> Nat] /\ \A m \in BTC : Current[m] = fee[m]
  BY <1>1 DEF Current
<1>4. ASSUME NEW v \in FeeStep, NEW x \in Nat, v.to = To(x), v.raise = FALSE => v.from \in {FEE_B, FEE_A} /\ x < v.from
      PROVE  FeeStepOK(v, Len(proposals))
  BY <1>2, <1>4 DEF FeeStepOK, FEE_A, FEE_B, FEE_C
<1>5. ASSUME NEW v \in FeeStep, v.to = Current, v.from \in {FEE_C, FEE_B}
      PROVE  FeeStepOK(v, Len(proposals))
  <2>1. \A a, b \in BTC : v.to[a] = v.to[b]
    BY <1>1, <1>3, <1>5
  <2>2. RaisedBefore(Len(proposals)) \/ \A m \in BTC : v.to[m] < v.from
    <3>1. RaisedBefore(Len(proposals)) \/ \A m \in BTC : fee[m] \in {NormalFee, FEE_April}
      BY DEF FeeInv
    <3>2. ASSUME \A m \in BTC : fee[m] \in {NormalFee, FEE_April} PROVE \A m \in BTC : v.to[m] < v.from
      BY <1>1, <1>3, <1>5, <3>2 DEF FEE_A, FEE_B, FEE_C, FEE_April
    <3> QED
      BY <3>1, <3>2
  <2> QED
    BY <1>5, <2>1, <2>2, Zenon DEF FeeStepOK
<1>6. \A r \in BOOLEAN, from \in Nat, to \in [BTC -> Nat], until \in Nat :
         /\ Step(r, from, to, until) \in FeeStep
         /\ Step(r, from, to, until).raise = r
         /\ Step(r, from, to, until).from = from
         /\ Step(r, from, to, until).to = to
  BY StepMade, Zenon
<1>7. PICK yes \in BOOLEAN, no \in BOOLEAN : yes = TRUE /\ no = FALSE
  BY Zenon
<1>8. /\ FEE_A \in Nat /\ FEE_B \in Nat /\ FEE_C \in Nat /\ AnyFee \in Nat
      /\ FEE_B < FEE_A /\ FEE_C < FEE_B
  BY DEF FEE_A, FEE_B, FEE_C, AnyFee
<1>9. /\ To(FEE_A) \in [BTC -> Nat] /\ To(FEE_B) \in [BTC -> Nat] /\ To(FEE_C) \in [BTC -> Nat]
      /\ Current \in [BTC -> Nat] /\ DeadlineA \in Nat /\ DeadlineBCD \in Nat
  BY <1>1, <1>2, <1>3, <1>8
<1>10. CASE votes = FirstSchedule
  <2>1. PICK a \in FeeStep : /\ a = Step(yes, AnyFee, To(FEE_A), DeadlineA)
                             /\ a.raise = yes /\ a.to = To(FEE_A)
    <3>0. yes \in BOOLEAN /\ AnyFee \in Nat /\ To(FEE_A) \in [BTC -> Nat] /\ DeadlineA \in Nat
      BY <1>8, <1>9
    <3>1. /\ Step(yes, AnyFee, To(FEE_A), DeadlineA) \in FeeStep
          /\ Step(yes, AnyFee, To(FEE_A), DeadlineA).raise = yes
          /\ Step(yes, AnyFee, To(FEE_A), DeadlineA).to = To(FEE_A)
      BY <1>6, <3>0, SMT
    <3> QED
      BY <3>1, Zenon
  <2>2. PICK b \in FeeStep : /\ b = Step(no, FEE_A, To(FEE_B), DeadlineBCD)
                             /\ b.from = FEE_A /\ b.to = To(FEE_B)
    <3>0. no \in BOOLEAN /\ FEE_A \in Nat /\ To(FEE_B) \in [BTC -> Nat] /\ DeadlineBCD \in Nat
      BY <1>8, <1>9
    <3>1. /\ Step(no, FEE_A, To(FEE_B), DeadlineBCD) \in FeeStep
          /\ Step(no, FEE_A, To(FEE_B), DeadlineBCD).from = FEE_A
          /\ Step(no, FEE_A, To(FEE_B), DeadlineBCD).to = To(FEE_B)
      BY <1>6, <3>0, SMT
    <3> QED
      BY <3>1, Zenon
  <2>3. PICK c \in FeeStep : /\ c = Step(no, FEE_B, To(FEE_C), DeadlineBCD)
                             /\ c.from = FEE_B /\ c.to = To(FEE_C)
    <3>0. no \in BOOLEAN /\ FEE_B \in Nat /\ To(FEE_C) \in [BTC -> Nat] /\ DeadlineBCD \in Nat
      BY <1>8, <1>9
    <3>1. /\ Step(no, FEE_B, To(FEE_C), DeadlineBCD) \in FeeStep
          /\ Step(no, FEE_B, To(FEE_C), DeadlineBCD).from = FEE_B
          /\ Step(no, FEE_B, To(FEE_C), DeadlineBCD).to = To(FEE_C)
      BY <1>6, <3>0, SMT
    <3> QED
      BY <3>1, Zenon
  <2>4. PICK d \in FeeStep : /\ d = Step(no, FEE_C, Current, DeadlineBCD)
                             /\ d.from = FEE_C /\ d.to = Current
    <3>0. no \in BOOLEAN /\ FEE_C \in Nat /\ Current \in [BTC -> Nat] /\ DeadlineBCD \in Nat
      BY <1>8, <1>9
    <3>1. /\ Step(no, FEE_C, Current, DeadlineBCD) \in FeeStep
          /\ Step(no, FEE_C, Current, DeadlineBCD).from = FEE_C
          /\ Step(no, FEE_C, Current, DeadlineBCD).to = Current
      BY <1>6, <3>0, SMT
    <3> QED
      BY <3>1, Zenon
  <2>5. votes = <<a, b, c, d>>
    BY <1>1, <1>7, <1>10, <2>1, <2>2, <2>3, <2>4, Zenon DEF FirstSchedule
  <2>6. /\ FeeStepOK(a, Len(proposals)) /\ FeeStepOK(b, Len(proposals))
        /\ FeeStepOK(c, Len(proposals)) /\ FeeStepOK(d, Len(proposals))
    <3>1. a.raise # FALSE
      BY <1>7, <2>1, Zenon
    <3>2. FeeStepOK(a, Len(proposals))
      BY <1>4, <1>8, <2>1, <3>1, Zenon
    <3>3. FeeStepOK(b, Len(proposals))
      BY <1>4, <1>8, <2>2, Zenon
    <3>4. FeeStepOK(c, Len(proposals))
      BY <1>4, <1>8, <2>3, Zenon
    <3>5. FeeStepOK(d, Len(proposals))
      BY <1>5, <2>4
    <3> QED
      BY <3>2, <3>3, <3>4, <3>5
  <2> QED
    BY <2>5, <2>6
<1>11. CASE votes = SecondSchedule
  <2>1. PICK a \in FeeStep : /\ a = Step(yes, AnyFee, To(FEE_B), DeadlineA)
                             /\ a.raise = yes /\ a.to = To(FEE_B)
    <3>0. yes \in BOOLEAN /\ AnyFee \in Nat /\ To(FEE_B) \in [BTC -> Nat] /\ DeadlineA \in Nat
      BY <1>8, <1>9
    <3>1. /\ Step(yes, AnyFee, To(FEE_B), DeadlineA) \in FeeStep
          /\ Step(yes, AnyFee, To(FEE_B), DeadlineA).raise = yes
          /\ Step(yes, AnyFee, To(FEE_B), DeadlineA).to = To(FEE_B)
      BY <1>6, <3>0, SMT
    <3> QED
      BY <3>1, Zenon
  <2>2. PICK b \in FeeStep : /\ b = Step(no, FEE_B, Current, DeadlineA)
                             /\ b.from = FEE_B /\ b.to = Current
    <3>0. no \in BOOLEAN /\ FEE_B \in Nat /\ Current \in [BTC -> Nat] /\ DeadlineA \in Nat
      BY <1>8, <1>9
    <3>1. /\ Step(no, FEE_B, Current, DeadlineA) \in FeeStep
          /\ Step(no, FEE_B, Current, DeadlineA).from = FEE_B
          /\ Step(no, FEE_B, Current, DeadlineA).to = Current
      BY <1>6, <3>0, SMT
    <3> QED
      BY <3>1, Zenon
  <2>3. votes = <<a, b>>
    BY <1>1, <1>7, <1>11, <2>1, <2>2, Zenon DEF SecondSchedule
  <2>4. FeeStepOK(a, Len(proposals)) /\ FeeStepOK(b, Len(proposals))
    <3>1. a.raise # FALSE
      BY <1>7, <2>1, Zenon
    <3>2. FeeStepOK(a, Len(proposals))
      BY <1>4, <1>8, <2>1, <3>1, Zenon
    <3>3. FeeStepOK(b, Len(proposals))
      BY <1>5, <2>2
    <3> QED
      BY <3>2, <3>3
  <2> QED
    BY <2>3, <2>4
<1> QED
  BY <1>10, <1>11

(* What a step has to keep. *)
LEMMA FeeChange ==
    ASSUME FeeInv, VotesAdvance, FeeType', FeesMoveTogether',
           RaisedBefore(Len(proposals)) \/ (\A m \in BTC : fee'[m] \in {NormalFee, FEE_April})
               \/ RaisedBefore(Len(proposals))',
           \A i \in Len(proposals) + 1 .. Len(proposals') :
               /\ proposals'[i].status # "executed"
               /\ proposals'[i].vote.kind = "btc" =>
                      \E k \in 1 .. Len(job.votes) : proposals'[i].vote = job.votes[k],
           \A k \in 1 .. Len(job'.votes) :
               \E v : v = job'.votes[k] /\ FeeStepOK(v, Len(proposals)),
           \A i \in 1 .. Len(proposals) :
               IsStep(i, FALSE) /\ Executed(i)' => Executed(i) \/ RaisedBefore(Len(proposals))
    PROVE  FeeInv'
<1>1. /\ proposals \in Seq(FeeProposal) /\ proposals' \in Seq(FeeProposal)
      /\ Len(proposals) \in Nat /\ Len(proposals') \in Nat /\ Len(proposals) <= Len(proposals')
  BY DEF FeeInv, FeeType, VotesAdvance
<1>2. RaisedBefore(Len(proposals)) => RaisedBefore(Len(proposals))'
  <2>1. PICK n \in Nat, k \in Nat : n = Len(proposals) /\ k = Len(proposals')
    BY <1>1
  <2>2. RaisedBefore(n) => RaisedBefore(k)'
    BY <1>1, <2>1, RaisedKept
  <2> QED
    BY <2>1, <2>2, Zenon DEF RaisedBefore
<1>3. (RaisedBefore(Len(proposals)) \/ \A m \in BTC : fee[m] \in {NormalFee, FEE_April})'
  BY <1>2
<1>4. ASSUME NEW i \in 1 .. Len(proposals'), proposals'[i].vote.kind = "btc"
      PROVE  FeeStepOK(proposals[i].vote, i - 1)'
  <2>1. PICK v : v = proposals'[i].vote
    BY Zenon
  <2>2. CASE i \in 1 .. Len(proposals)
    <3>1. v = proposals[i].vote
      BY <2>1, <2>2 DEF VotesAdvance
    <3>2. FeeStepOK(v, i - 1)
      BY <1>4, <2>1, <2>2, <3>1, Zenon DEF FeeInv
    <3>3. i - 1 \in Nat /\ i - 1 <= Len(proposals)
      BY <1>1, <2>2
    <3>4. FeeStepOK(v, i - 1)'
      BY <3>2, <3>3, FeeStepKept
    <3> QED
      BY <2>1, <3>4, Zenon DEF FeeStepOK
  <2>3. CASE i \in Len(proposals) + 1 .. Len(proposals')
    <3>1. PICK k \in 1 .. Len(job.votes) : v = job.votes[k]
      BY <1>4, <2>1, <2>3, Zenon
    <3>2. FeeStepOK(v, Len(proposals))
      BY <3>1, Zenon DEF FeeInv
    <3>3. i - 1 \in Nat /\ Len(proposals) <= i - 1
      BY <1>1, <2>3
    <3>4. PICK n \in Nat : n = Len(proposals)
      BY <1>1
    <3>5. FeeStepOK(v, i - 1)'
      BY <3>2, <3>3, <3>4, FeeStepKept
    <3> QED
      BY <2>1, <3>5, Zenon DEF FeeStepOK
  <2> QED
    BY <1>1, <2>2, <2>3
<1>5. ASSUME NEW k \in 1 .. Len(job'.votes)
      PROVE  FeeStepOK(job.votes[k], Len(proposals))'
  <2>1. PICK v : v = job'.votes[k] /\ FeeStepOK(v, Len(proposals))
    BY Zenon
  <2>2. PICK n \in Nat, l \in Nat : n = Len(proposals) /\ l = Len(proposals')
    BY <1>1
  <2>3. FeeStepOK(v, l)'
    BY <1>1, <2>1, <2>2, FeeStepKept
  <2> QED
    BY <2>1, <2>2, <2>3, Zenon DEF FeeStepOK, RaisedBefore
<1>6. StepsFollowARaise'
  <2>1. ASSUME NEW i \in 1 .. Len(proposals'), IsStep(i, FALSE)', Executed(i)'
        PROVE  RaisedBefore(Len(proposals))'
    <3>1. i \in 1 .. Len(proposals)
      BY <1>1, <2>1 DEF Executed
    <3>2. IsStep(i, FALSE)
      <4>1. i \in DOMAIN proposals
        BY <1>1, <3>1
      <4> QED
        BY <2>1, <3>1, <4>1, Zenon DEF IsStep, VotesAdvance
    <3>3. Executed(i) => RaisedBefore(Len(proposals))
      <4>1. DOMAIN proposals = 1 .. Len(proposals)
        BY <1>1
      <4> QED
        BY <3>1, <3>2, <4>1, Zenon DEF FeeInv, StepsFollowARaise, RaisedBefore
    <3> QED
      BY <1>2, <2>1, <3>1, <3>2, <3>3
  <2>2. DOMAIN proposals' = 1 .. Len(proposals')
    BY <1>1
  <2> QED
    BY <2>1, <2>2, Zenon DEF StepsFollowARaise, RaisedBefore
<1> QED
  BY <1>3, <1>4, <1>5, <1>6 DEF FeeInv
(* Nothing is proposed or executed, and the fees stay. *)
LEMMA FeeVotesUnchanged ==
    ASSUME FeeInv, UNCHANGED <<proposals, fee>>, clock' \in Nat, scale' \in [BTC -> {0, 1}],
           job' \in [votes : Seq(FeeStep), next : Nat], Len(job'.votes) <= 4, job'.next >= 1,
           \A k \in 1 .. Len(job'.votes) :
               \E v : v = job'.votes[k] /\ FeeStepOK(v, Len(proposals))
    PROVE  FeeInv'
<1>1. proposals \in Seq(FeeProposal) /\ Len(proposals) \in Nat
  BY DEF FeeInv, FeeType
<1>2. \A j : Executed(j)' <=> Executed(j)
  BY DEF Executed
<1>3. VotesAdvance
  BY <1>1, <1>2 DEF VotesAdvance
<1>4. FeeType'
  BY DEF FeeInv, FeeType
<1>5. FeesMoveTogether'
  BY DEF FeeInv, FeesMoveTogether
<1>6. RaisedBefore(Len(proposals)) \/ (\A m \in BTC : fee'[m] \in {NormalFee, FEE_April})
  BY DEF FeeInv
<1>7. ASSUME NEW i \in Len(proposals) + 1 .. Len(proposals') PROVE FALSE
  BY <1>1
<1>8. \A i \in 1 .. Len(proposals) :
        IsStep(i, FALSE) /\ Executed(i)' => Executed(i) \/ RaisedBefore(Len(proposals))
  BY <1>2
<1> QED
  BY <1>3, <1>4, <1>5, <1>6, <1>7, <1>8, FeeChange, Zenon

(* The scripts. *)
LEMMA FeeVotesProposed ==
    ASSUME FeeInv, NEW k \in 1 .. 4, NEW v \in FeeVote, CreateProposal(Accounts[k], v),
           v.kind = "btc" => \E l \in 1 .. Len(job.votes) : v = job.votes[l],
           job' \in [votes : Seq(FeeStep), next : Nat], job'.votes = job.votes, job'.next >= 1,
           UNCHANGED <<clock, scale, fee>>
    PROVE  FeeInv'
<1>1. proposals \in Seq(FeeProposal) /\ Len(proposals) \in Nat
  BY DEF FeeInv, FeeType
<1>2. PICK p : p = [by |-> Accounts[k], vote |-> v, status |-> "open"]
  BY Zenon
<1>3. p \in FeeProposal /\ p.vote = v /\ p.status = "open"
  BY <1>2 DEF FeeProposal, Statuses
<1>4. /\ proposals' \in Seq(FeeProposal) /\ Len(proposals') = Len(proposals) + 1
      /\ \A j \in 1 .. Len(proposals) : proposals'[j] = proposals[j]
      /\ proposals'[Len(proposals) + 1] = p
  <2>1. proposals' = Append(proposals, p)
    BY <1>2, Zenon DEF CreateProposal
  <2> QED
    BY <1>1, <1>3, <2>1, Appended
<1>5. \A j \in 1 .. Len(proposals) : Executed(j)' <=> Executed(j)
  BY <1>4 DEF Executed
<1>6. VotesAdvance
  BY <1>1, <1>4, <1>5 DEF VotesAdvance
<1>7. FeeType'
  BY <1>4 DEF FeeInv, FeeType
<1>8. FeesMoveTogether'
  BY DEF FeeInv, FeesMoveTogether
<1>9. RaisedBefore(Len(proposals)) \/ (\A m \in BTC : fee'[m] \in {NormalFee, FEE_April})
  BY DEF FeeInv
<1>10. ASSUME NEW i \in Len(proposals) + 1 .. Len(proposals')
       PROVE  /\ proposals'[i].status # "executed"
              /\ proposals'[i].vote.kind = "btc" =>
                     \E l \in 1 .. Len(job.votes) : proposals'[i].vote = job.votes[l]
  <2>1. i = Len(proposals) + 1
    BY <1>1, <1>4
  <2>2. proposals'[i].status = "open" /\ proposals'[i].vote = v
    BY <1>3, <1>4, <2>1
  <2> QED
    BY <2>2
<1>11. \A l \in 1 .. Len(job'.votes) : \E w : w = job'.votes[l] /\ FeeStepOK(w, Len(proposals))
  BY DEF FeeInv
<1>12. \A i \in 1 .. Len(proposals) :
         IsStep(i, FALSE) /\ Executed(i)' => Executed(i) \/ RaisedBefore(Len(proposals))
  BY <1>5
<1> QED
  BY <1>6, <1>7, <1>8, <1>9, <1>10, <1>11, <1>12, FeeChange, Zenon

(* The scripts keep the invariant: they only create votes. *)
LEMMA FeeVotesScripts ==
    ASSUME FeeInv, FeeScripts
    PROVE  FeeInv'
<1>1. /\ job \in [votes : Seq(FeeStep), next : Nat] /\ job.next >= 1 /\ Len(job.votes) <= 4
      /\ Len(job.votes) \in Nat
      /\ clock \in Nat /\ scale \in [BTC -> {0, 1}]
  BY DEF FeeInv, FeeType
<1>2. ASSUME NEW votes, votes \in {FirstSchedule, SecondSchedule}, StartSchedule(votes)
      PROVE  FeeInv'
  <2>1. /\ votes \in Seq(FeeStep) /\ Len(votes) <= 4
        /\ \A k \in 1 .. Len(votes) : FeeStepOK(votes[k], Len(proposals))
    BY <1>2, ScheduleOK
  <2>2. /\ job' = [votes |-> votes, next |-> 1] /\ UNCHANGED <<proposals, fee, clock, scale>>
    BY <1>2 DEF StartSchedule, votingVars, marketVars
  <2>3. /\ job' \in [votes : Seq(FeeStep), next : Nat] /\ job'.votes = votes /\ job'.next >= 1
    BY <2>1, <2>2
  <2>4. \A k \in 1 .. Len(job'.votes) : \E v : v = job'.votes[k] /\ FeeStepOK(v, Len(proposals))
    BY <2>1, <2>3, Zenon
  <2> QED
    BY <1>1, <2>1, <2>2, <2>3, <2>4, FeeVotesUnchanged
<1>3. CASE CreateNext
  <2>1. /\ CreateProposal(Accounts[job.next], job.votes[job.next])
        /\ job.next <= Len(job.votes) /\ job' = [job EXCEPT !.next = @ + 1]
        /\ UNCHANGED <<clock, scale, fee>>
    BY <1>3 DEF CreateNext, Running, marketVars
  <2>2. PICK k \in 1 .. 4 : k = job.next
    BY <1>1, <2>1
  <2>3. job.votes[k] \in FeeStep /\ k \in 1 .. Len(job.votes)
    BY <1>1, <2>1, <2>2
  <2>4. PICK v \in FeeVote : v = job.votes[k]
    BY <2>3, Zenon DEF FeeVote
  <2>5. CreateProposal(Accounts[k], v)
    BY <2>1, <2>2, <2>4, Zenon
  <2>6. job' \in [votes : Seq(FeeStep), next : Nat] /\ job'.votes = job.votes /\ job'.next >= 1
    BY <1>1, <2>1
  <2> QED
    BY <2>1, <2>3, <2>4, <2>5, <2>6, FeeVotesProposed, Zenon
<1>4. CASE ScriptFails
  <2>1. job' = [votes |-> <<>>, next |-> 1] /\ UNCHANGED <<proposals, fee, clock, scale>>
    BY <1>4 DEF ScriptFails, Idle, votingVars, marketVars
  <2>2. job' \in [votes : Seq(FeeStep), next : Nat] /\ Len(job'.votes) = 0 /\ job'.next >= 1
    BY <2>1
  <2> QED
    BY <1>1, <2>1, <2>2, FeeVotesUnchanged
<1>5. ASSUME NEW kind \in {"april", "weth"}, CreateProposal("yb-deployer", [kind |-> kind]),
             UNCHANGED <<clock, marketVars, job>>
      PROVE  FeeInv'
  <2>1. PICK v : v = [kind |-> kind]
    BY Zenon
  <2>2. v \in FeeVote /\ v.kind # "btc"
    BY <2>1 DEF FeeVote
  <2>3. PICK k \in 1 .. 4 : Accounts[k] = "yb-deployer"
    BY DEF Accounts
  <2>4. CreateProposal(Accounts[k], v) /\ UNCHANGED <<clock, scale, fee, job>>
    BY <1>5, <2>1, <2>3, Zenon DEF marketVars
  <2> QED
    BY <1>1, <2>2, <2>4, FeeVotesProposed
<1>6. CASE ChangeFeesApril
  BY <1>5, <1>6 DEF ChangeFeesApril
<1>7. CASE AdjustWethPool
  BY <1>5, <1>7 DEF AdjustWethPool
<1> QED
  BY <1>2, <1>3, <1>4, <1>6, <1>7, Zenon DEF FeeScripts, ChangeBtcFees, ChangeBtcFees2
(* A vote that is executed: a step of a schedule that finds its fee is one
   that follows a raise. *)
LEMMA FeeVoteExecuted ==
    ASSUME FeeInv, NEW i \in DOMAIN proposals, ExecuteFeeVote(i)
    PROVE  FeeInv'
<1>1. /\ proposals \in Seq(FeeProposal) /\ Len(proposals) \in Nat /\ i \in 1 .. Len(proposals)
      /\ proposals[i] \in FeeProposal
      /\ fee \in [BTC \cup {WETH} -> Nat] /\ \A a, b \in BTC : fee[a] = fee[b]
      /\ UNCHANGED <<clock, scale, job>>
  BY DEF FeeInv, FeeType, FeesMoveTogether, ExecuteFeeVote
<1>2. PICK p : p = [proposals[i] EXCEPT !.status = "executed"]
  BY Zenon
<1>3. p \in FeeProposal /\ p.vote = proposals[i].vote /\ p.status = "executed"
  BY <1>1, <1>2 DEF FeeProposal, Statuses
<1>4. /\ proposals' \in Seq(FeeProposal) /\ Len(proposals') = Len(proposals) /\ proposals'[i] = p
      /\ \A j \in 1 .. Len(proposals) : j # i => proposals'[j] = proposals[j]
  <2>1. proposals' = [proposals EXCEPT ![i] = p]
    BY <1>2 DEF ExecuteFeeVote, PassAndMarkExecuted
  <2> QED
    BY <1>1, <1>3, <2>1
<1>5. VotesAdvance
  BY <1>1, <1>3, <1>4 DEF VotesAdvance, Executed
<1>6. \A j \in Len(proposals) + 1 .. Len(proposals') : FALSE
  BY <1>1, <1>4
<1>7. \A k \in 1 .. Len(job'.votes) : \E w : w = job'.votes[k] /\ FeeStepOK(w, Len(proposals))
  BY <1>1 DEF FeeInv
<1>8. \A j \in 1 .. Len(proposals) : Executed(j)' => Executed(j) \/ j = i
  BY <1>4 DEF Executed
<1>9. RaisedBefore(Len(proposals)) \/ \A m \in BTC : fee[m] \in {NormalFee, FEE_April}
  BY DEF FeeInv
<1>10. ASSUME fee' \in [BTC \cup {WETH} -> Nat], FeesMoveTogether',
              RaisedBefore(Len(proposals)) \/ (\A m \in BTC : fee'[m] \in {NormalFee, FEE_April})
                  \/ RaisedBefore(Len(proposals))',
              IsStep(i, FALSE) => RaisedBefore(Len(proposals))
       PROVE  FeeInv'
  <2>1. FeeType'
    BY <1>1, <1>4, <1>10 DEF FeeInv, FeeType
  <2>2. \A j \in 1 .. Len(proposals) :
          IsStep(j, FALSE) /\ Executed(j)' => Executed(j) \/ RaisedBefore(Len(proposals))
    BY <1>8, <1>10, Zenon
  <2> QED
    BY <1>5, <1>6, <1>7, <1>10, <2>1, <2>2, FeeChange, Zenon
<1>11. PICK v \in FeeVote : v = proposals[i].vote
  BY <1>1 DEF FeeProposal
<1>12. CASE v.kind = "btc" /\ ExecuteStep(v)
  <2>1. v \in FeeStep /\ v.raise \in BOOLEAN
    BY <1>12 DEF FeeVote, FeeStep
  <2>2. /\ FeeStepOK(v, i - 1)
        /\ \A m \in BTC : FeeGuard(v, m)
        /\ fee' = [m \in DOMAIN fee |-> IF m \in BTC THEN v.to[m] ELSE fee[m]]
    BY <1>1, <1>11, <1>12 DEF FeeInv, ExecuteStep
  <2>3. fee' \in [BTC \cup {WETH} -> Nat] /\ \A m \in BTC : fee'[m] = v.to[m]
    BY <1>1, <2>1, <2>2 DEF FeeStep
  <2>4. FeesMoveTogether'
    BY <2>2, <2>3, Zenon DEF FeesMoveTogether, FeeStepOK
  <2>5. CASE v.raise = TRUE
    <3>1. IsStep(i, TRUE)' /\ Executed(i)'
      <4>1. proposals'[i].vote = v /\ i \in DOMAIN proposals'
        BY <1>1, <1>3, <1>4, <1>11
      <4> QED
        BY <1>3, <1>4, <1>12, <2>5, <4>1, Zenon DEF IsStep, Executed
    <3>2. RaisedBefore(Len(proposals))'
      BY <1>1, <1>4, <3>1, Zenon DEF RaisedBefore
    <3>3. ~ IsStep(i, FALSE)
      BY <1>11, <2>5, Zenon DEF IsStep
    <3> QED
      BY <1>10, <2>3, <2>4, <3>2, <3>3, Zenon
  <2>6. CASE v.raise = FALSE
    <3>1. v.from \in {FEE_A, FEE_B, FEE_C}
      BY <2>2, <2>6, Zenon DEF FeeStepOK
    <3>2. ~ \A m \in BTC : fee[m] \in {NormalFee, FEE_April}
      BY <2>2, <3>1, FeeAssumption DEF FeeGuard, AnyFee, FEE_A, FEE_B, FEE_C, FEE_April
    <3> QED
      BY <1>9, <1>10, <2>3, <2>4, <3>2, Zenon
  <2> QED
    BY <2>1, <2>5, <2>6, Zenon
<1>13. CASE v.kind # "btc" /\ ExecuteApril
  <2>1. fee' = [m \in DOMAIN fee |-> IF m \in BTC THEN FEE_April ELSE fee[m]]
    BY <1>13 DEF ExecuteApril
  <2>2. /\ fee' \in [BTC \cup {WETH} -> Nat]
        /\ \A m \in BTC : fee'[m] = FEE_April
    BY <1>1, <2>1 DEF FEE_April
  <2>3. FeesMoveTogether' /\ \A m \in BTC : fee'[m] \in {NormalFee, FEE_April}
    BY <2>2 DEF FeesMoveTogether
  <2>4. ~ IsStep(i, FALSE)
    BY <1>11, <1>13, Zenon DEF IsStep
  <2> QED
    BY <1>10, <2>2, <2>3, <2>4, Zenon
<1>14. CASE v.kind # "btc" /\ ExecuteWeth
  <2>1. fee' = [fee EXCEPT ![WETH] = AMM_FEE]
    BY <1>14 DEF ExecuteWeth
  <2>2. /\ fee' \in [BTC \cup {WETH} -> Nat]
        /\ \A m \in BTC : fee'[m] = fee[m]
    BY <1>1, <2>1, FeeAssumption DEF AMM_FEE
  <2>3. FeesMoveTogether'
    BY <1>1, <2>2 DEF FeesMoveTogether
  <2>4. ~ IsStep(i, FALSE)
    BY <1>11, <1>14, Zenon DEF IsStep
  <2> QED
    BY <1>9, <1>10, <2>2, <2>3, <2>4, Zenon
<1> QED
  BY <1>11, <1>12, <1>13, <1>14 DEF ExecuteFeeVote

(* Every step. *)
LEMMA FeeVotesStep ==
    ASSUME FeeInv, [FeeVotesNext]_feeVotesVars
    PROVE  FeeInv'
<1>1. /\ job \in [votes : Seq(FeeStep), next : Nat] /\ job.next >= 1 /\ Len(job.votes) <= 4
      /\ clock \in Nat /\ scale \in [BTC -> {0, 1}]
      /\ \A k \in 1 .. Len(job.votes) : \E v : v = job.votes[k] /\ FeeStepOK(v, Len(proposals))
  BY DEF FeeInv, FeeType
<1>2. ASSUME UNCHANGED <<proposals, fee, job>>, clock' \in Nat, scale' \in [BTC -> {0, 1}]
      PROVE  FeeInv'
  BY <1>1, <1>2, FeeVotesUnchanged
<1>3. CASE FeeScripts
  BY <1>3, FeeVotesScripts
<1>4. ASSUME NEW i \in DOMAIN proposals, ExecuteFeeVote(i) PROVE FeeInv'
  BY <1>4, FeeVoteExecuted
<1>5. CASE Tick
  BY <1>1, <1>2, <1>5 DEF Tick, marketVars
<1>6. CASE MinutePasses
  BY <1>1, <1>2, <1>6 DEF MinutePasses, marketVars, votingVars
<1>7. ASSUME NEW m \in BTC, PriceScaleMoves(m) PROVE FeeInv'
  BY <1>1, <1>2, <1>7 DEF PriceScaleMoves, votingVars
<1>8. CASE FactoryHandedOver
  BY <1>1, <1>2, <1>8 DEF FactoryHandedOver, marketVars, votingVars
<1>9. CASE UNCHANGED feeVotesVars
  BY <1>1, <1>2, <1>9 DEF feeVotesVars, marketVars, votingVars
<1> QED
  BY <1>3, <1>4, <1>5, <1>6, <1>7, <1>8, <1>9 DEF FeeVotesNext

(* The fees are those of before any raise until a raise is executed, and what
   the votes carry was taken from them: the invariant of the schedules. *)
THEOREM FeeInvariant == FeeVotesSpec => []FeeInv
<1>1. FeeInv /\ [FeeVotesNext]_feeVotesVars => FeeInv'
  BY FeeVotesStep
<1> QED
  BY FeeInit, <1>1, PTL DEF FeeVotesSpec

(* No order of executions sets the fee of one BTC market and not of another:
   the guards of a vote are those of all its markets. *)
THEOREM FeesStayTogether == FeeVotesSpec => []FeesMoveTogether
<1>1. FeeInv => FeesMoveTogether
  BY DEF FeeInv
<1> QED
  BY FeeInvariant, <1>1, PTL

(* The guard on the fee keeps a step from being executed before any raise. *)
THEOREM StepsComeAfterARaise == FeeVotesSpec => []StepsFollowARaise
<1>1. FeeInv => StepsFollowARaise
  BY DEF FeeInv
<1> QED
  BY FeeInvariant, <1>1, PTL

(* A step whose target is not below what it goes down from was made by a script
   that ran while the fees were raised. *)
THEOREM StepsLowerOrFollow == FeeVotesSpec => []StepsOnlyLower
<1>1. FeeInv => StepsOnlyLower
  <2> SUFFICES ASSUME FeeInv, NEW i \in DOMAIN proposals, NEW m \in BTC, IsStep(i, FALSE),
                      proposals[i].vote.to[m] >= proposals[i].vote.from
               PROVE  RaisedBefore(i - 1)
    BY Zenon DEF StepsOnlyLower, RaisedBefore
  <2>1. proposals \in Seq(FeeProposal) /\ i \in 1 .. Len(proposals)
    BY DEF FeeInv, FeeType
  <2>2. PICK v : v = proposals[i].vote
    BY Zenon
  <2>3. v \in FeeStep
    <3>1. proposals[i] \in FeeProposal
      BY <2>1
    <3>2. v \in FeeVote
      BY <2>2, <3>1 DEF FeeProposal
    <3>3. v.kind = "btc"
      BY <2>2, Zenon DEF IsStep
    <3>4. ASSUME v \in [kind : {"april", "weth"}]  PROVE FALSE
      BY <3>3, <3>4
    <3> QED
      BY <3>2, <3>4, Zenon DEF FeeVote
  <2>4. v.raise = FALSE /\ FeeStepOK(v, i - 1)
    BY <2>1, <2>2, Zenon DEF IsStep, FeeInv
  <2>5. RaisedBefore(i - 1) \/ v.to[m] < v.from
    BY <2>4, Zenon DEF FeeStepOK
  <2>6. v.to[m] \in Nat /\ v.from \in Nat /\ v.to[m] >= v.from
    BY <2>2, <2>3 DEF FeeStep
  <2> QED
    BY <2>5, <2>6
<1> QED
  BY FeeInvariant, <1>1, PTL

-----------------------------------------------------------------------------
(***************************************************************************)
(* The net-pressure incentives                                             *)
(***************************************************************************)
StackRecords ==
    [fd : Nat, splitter : BOOLEAN, configured : BOOLEAN,
     owner : {"deployer", "DAO"}, wrapper : BOOLEAN, merkl : BOOLEAN,
     held : Nat, reserve : Nat]

\* What the deploy script has done to a stack by a step.
Flagged(s, n) ==
    /\ n >= 2 => s.splitter
    /\ n >= 3 => s.configured
    /\ n >= 4 => s.owner = "DAO"
    /\ n >= 5 => s.wrapper

\* A stack is never taken back.
Keeps(s, t) ==
    /\ t \in StackRecords
    /\ t.fd = s.fd
    /\ s.splitter => t.splitter
    /\ s.configured => t.configured
    /\ s.owner = "DAO" => t.owner = "DAO"
    /\ s.wrapper => t.wrapper

(* Fees and a seed leave the flags of a stack as they are. *)
LEMMA FundsKeep ==
    ASSUME NEW s \in StackRecords, NEW h \in Nat, NEW r \in Nat
    PROVE  /\ Keeps(s, [s EXCEPT !.held = h])
           /\ Keeps(s, [s EXCEPT !.reserve = r])
  BY DEF Keeps, StackRecords

(* The steps of the deploy script, and of the campaign vote. *)
LEMMA FlagsKeep ==
    ASSUME NEW s \in StackRecords
    PROVE  /\ Keeps(s, [s EXCEPT !.splitter = TRUE])
           /\ Keeps(s, [s EXCEPT !.configured = TRUE])
           /\ Keeps(s, [s EXCEPT !.owner = "DAO"])
           /\ Keeps(s, [s EXCEPT !.wrapper = TRUE])
           /\ Keeps(s, [s EXCEPT !.merkl = TRUE])
  BY DEF Keeps, StackRecords

(* A step of the deploy script is done by what it sets. *)
LEMMA FlagsSet ==
    ASSUME NEW s \in StackRecords
    PROVE  /\ [s EXCEPT !.splitter = TRUE].splitter
           /\ [s EXCEPT !.configured = TRUE].configured
           /\ [s EXCEPT !.owner = "DAO"].owner = "DAO"
           /\ [s EXCEPT !.wrapper = TRUE].wrapper
  BY DEF StackRecords

\* The payloads of the two votes.
MerklVote ==
    [kind : {"seed"}, stack : Nat, owner : {1, 2}, seed : Nat]
      \cup [kind : {"campaign"}, stack : Nat]

MerklProposal == [by : {"yb-deployer"}, vote : MerklVote, status : Statuses]

MerklTypes ==
    /\ stacks \in Seq(StackRecords)
    /\ step \in 0 .. 5
    /\ json \in 0 .. Len(stacks)
    /\ receiver \in 0 .. Len(stacks) /\ factoryAdmin \in {1, 2}
    /\ treasury \in Nat /\ oldFees \in Nat /\ pending \in Nat /\ distributed \in Nat
    /\ proposals \in Seq(MerklProposal)

\* All that the deploy script does.
Whole(s) == Flagged(s, 5)

\* Step n of the script comes after step n - 1, on the same stack.
DeployInOrder == step # 0 => Latest # 0 /\ Flagged(stacks[Latest], step)

FileIsWhole == json # 0 => Whole(stacks[json])

\* What a vote may install as the receiver of the fees.
Seedable(k) == k \in Stacks /\ Whole(stacks[k]) /\ stacks[k].fd = FeeDistributor

MerklVoteOK(v) ==
    /\ v.stack \in Stacks
    /\ v.kind = "seed" => Seedable(v.stack)

VotesNameStacks == \A i \in 1 .. Len(proposals) : MerklVoteOK(proposals[i].vote)

InstalledIsSeedable == receiver # FeeDistributor => Seedable(receiver)

FreshStack(s) == s.fd = FeeDistributor /\ ~s.merkl /\ s.held = 0 /\ s.reserve = 0

NothingExecuted == \A i \in DOMAIN proposals : ~Executed(i)

FreshUntilAVote ==
    NothingExecuted =>
        /\ receiver = FeeDistributor
        /\ \A k \in Stacks : FreshStack(stacks[k])

\* A step of the script needs the steps before it, the file is written after
\* the last, and a vote takes its stack from the file.
MerklInv ==
    /\ MerklTypes /\ DeployInOrder /\ FileIsWhole /\ VotesNameStacks
    /\ InstalledIsSeedable /\ FreshUntilAVote

\* Stacks are added, and none is taken back.
StacksGrow ==
    /\ stacks' \in Seq(StackRecords)
    /\ Len(stacks) <= Len(stacks')
    /\ \A k \in 1 .. Len(stacks) : Keeps(stacks[k], stacks'[k])

(* What the deploy script did to a stack stays done. *)
LEMMA FlaggedKept ==
    ASSUME NEW s, NEW t, Keeps(s, t), NEW n \in 0 .. 5, Flagged(s, n)
    PROVE  Flagged(t, n)
  BY DEF Keeps, Flagged

(* A stack that nothing happens to is kept. *)
LEMMA KeepsSelf ==
    ASSUME NEW s \in StackRecords
    PROVE  Keeps(s, s)
  BY DEF Keeps

(* A stack that a vote may install remains one. *)
LEMMA SeedableKept ==
    ASSUME MerklTypes, StacksGrow, NEW k, Seedable(k)
    PROVE  Seedable(k)'
<1>1. k \in 1 .. Len(stacks) /\ Flagged(stacks[k], 5) /\ stacks[k].fd = FeeDistributor
  BY DEF Seedable, Stacks, Whole
<1>2. Keeps(stacks[k], stacks'[k])
  BY <1>1 DEF StacksGrow
<1>3. Flagged(stacks'[k], 5) /\ stacks'[k].fd = FeeDistributor
  <2>1. 5 \in 0 .. 5
    OBVIOUS
  <2> QED
    BY <1>1, <1>2, <2>1, FlaggedKept DEF Keeps
<1>4. k \in 1 .. Len(stacks')
  BY <1>1 DEF StacksGrow, MerklTypes
<1> QED
  BY <1>3, <1>4 DEF Seedable, Stacks, Whole, Flagged, FeeDistributor

(* What the votes name is still there, whatever happens to the stacks. *)
LEMMA MerklVoteKept ==
    ASSUME MerklTypes, StacksGrow, NEW v, MerklVoteOK(v)
    PROVE  MerklVoteOK(v)'
<1>1. v.stack \in 1 .. Len(stacks') /\ (v.kind = "seed" => Seedable(v.stack))
  BY DEF MerklVoteOK, Stacks, StacksGrow, MerklTypes
<1>2. PICK k : k = v.stack
  OBVIOUS
<1>3. v.kind = "seed" => Seedable(k)'
  BY <1>1, <1>2, SeedableKept
<1> QED
  BY <1>1, <1>2, <1>3 DEF MerklVoteOK, Stacks, Seedable

(* No vote loses its meaning by what happens to the stacks. *)
LEMMA VotesKept ==
    ASSUME MerklInv, StacksGrow, UNCHANGED proposals
    PROVE  VotesNameStacks'
<1>1. ASSUME NEW i \in 1 .. Len(proposals) PROVE MerklVoteOK(proposals[i].vote)'
  <2>1. PICK v : v = proposals[i].vote
    OBVIOUS
  <2>2. MerklVoteOK(v)'
    <3>1. MerklVoteOK(proposals[i].vote)
      BY DEF MerklInv, VotesNameStacks
    <3> QED
      BY <2>1, <3>1, MerklVoteKept DEF MerklInv
  <2> QED
    BY <2>1, <2>2 DEF MerklVoteOK
<1> QED
  BY <1>1 DEF VotesNameStacks

(* Nor does the installed stack become less. *)
LEMMA InstalledKept ==
    ASSUME MerklInv, StacksGrow, UNCHANGED receiver
    PROVE  InstalledIsSeedable'
<1>1. receiver # FeeDistributor => Seedable(receiver)
  BY DEF MerklInv, InstalledIsSeedable
<1>2. PICK r : r = receiver
  OBVIOUS
<1>3. Seedable(r) => Seedable(r)'
  BY SeedableKept DEF MerklInv
<1> QED
  BY <1>1, <1>2, <1>3 DEF InstalledIsSeedable, Seedable, FeeDistributor

(* Nor the one in the JSON file. *)
LEMMA FileKept ==
    ASSUME MerklInv, StacksGrow, UNCHANGED json
    PROVE  FileIsWhole'
<1>1. json # 0 => Flagged(stacks[json], 5)
  BY DEF MerklInv, FileIsWhole, Whole
<1>2. CASE json = 0
  BY <1>2 DEF FileIsWhole
<1>3. CASE json # 0
  <2>1. json \in 1 .. Len(stacks)
    BY <1>3 DEF MerklInv, MerklTypes
  <2>2. Keeps(stacks[json], stacks'[json])
    BY <2>1 DEF StacksGrow
  <2>3. 5 \in 0 .. 5
    OBVIOUS
  <2>4. Flagged(stacks'[json], 5)
    BY <1>1, <1>3, <2>2, <2>3, FlaggedKept
  <2> QED
    BY <2>4 DEF FileIsWhole, Whole, Flagged
<1> QED
  BY <1>2, <1>3

(* Nothing is deployed at first. *)
LEMMA MerklStart == MerklInit => MerklInv
<1> SUFFICES ASSUME MerklInit PROVE MerklInv
  OBVIOUS
<1> USE MerklAssumption DEF MerklInit, VotingInit, FeeDistributor
<1>1. MerklTypes
  BY DEF MerklTypes
<1>2. DeployInOrder /\ FileIsWhole /\ InstalledIsSeedable /\ FreshUntilAVote
  BY DEF DeployInOrder, FileIsWhole, InstalledIsSeedable, FreshUntilAVote, Stacks
<1>3. VotesNameStacks
  BY DEF VotesNameStacks
<1> QED
  BY <1>1, <1>2, <1>3 DEF MerklInv

(***************************************************************************)
(* The deploy script                                                       *)
(***************************************************************************)
(* A step of the deploy script that leaves the JSON file as it is. *)
LEMMA ScriptChange ==
    ASSUME MerklInv, StacksGrow, step' \in 0 .. 5, DeployInOrder',
           UNCHANGED <<votingVars, json, daoVars, feeVars>>,
           NothingExecuted => \A k \in 1 .. Len(stacks') : FreshStack(stacks'[k])
    PROVE  MerklInv'
<1>1. MerklTypes'
  BY DEF MerklInv, MerklTypes, StacksGrow, votingVars, daoVars, feeVars
<1>2. FileIsWhole' /\ VotesNameStacks' /\ InstalledIsSeedable'
  BY FileKept, VotesKept, InstalledKept DEF votingVars, daoVars
<1>3. FreshUntilAVote'
  BY DEF MerklInv, FreshUntilAVote, NothingExecuted, Executed, votingVars, daoVars, Stacks,
         FreshStack, FeeDistributor
<1> QED
  BY <1>1, <1>2, <1>3 DEF MerklInv

(* The first step takes what the Factory sends the fees to for the
   FeeDistributor: the FeeDistributor, while no vote was executed. *)
LEMMA DriverDeployed ==
    ASSUME MerklInv, DeployDriver
    PROVE  MerklInv'
<1> DEFINE s == NewStack
<1>1. s \in StackRecords /\ s.fd = receiver /\ ~s.merkl /\ s.held = 0 /\ s.reserve = 0
  BY DEF NewStack, StackRecords, MerklInv, MerklTypes
<1>2. stacks \in Seq(StackRecords)
  BY DEF MerklInv, MerklTypes
<1>3. stacks' = Append(stacks, s) /\ step' = 1
  BY DEF DeployDriver, Did
<1> HIDE DEF s
<1>4. /\ stacks' \in Seq(StackRecords) /\ Len(stacks') = Len(stacks) + 1 /\ Len(stacks) \in Nat
      /\ \A k \in 1 .. Len(stacks) : stacks[k] \in StackRecords /\ stacks'[k] = stacks[k]
      /\ stacks'[Len(stacks) + 1] = s
  BY <1>1, <1>2, <1>3
<1>5. StacksGrow
  BY <1>4, KeepsSelf DEF StacksGrow
<1>6. DeployInOrder'
  BY <1>3, <1>4 DEF DeployInOrder, Latest, Flagged
<1>7. ASSUME NothingExecuted, NEW k \in 1 .. Len(stacks')
      PROVE  FreshStack(stacks'[k])
  <2>1. receiver = FeeDistributor /\ \A j \in 1 .. Len(stacks) : FreshStack(stacks[j])
    BY <1>7 DEF MerklInv, FreshUntilAVote, Stacks
  <2>2. k \in 1 .. Len(stacks) \/ k = Len(stacks) + 1
    BY <1>4
  <2>3. FreshStack(s)
    BY <1>1, <2>1 DEF FreshStack
  <2> QED
    BY <1>4, <2>1, <2>2, <2>3
<1> QED
  BY <1>3, <1>5, <1>6, <1>7, ScriptChange DEF DeployDriver, Did

(* A step of the script that changes the latest stack. *)
LEMMA LatestSet ==
    ASSUME MerklInv, NEW n \in 2 .. 5, Did(Latest, n), NEW t, SetLatest(t),
           Keeps(stacks[Latest], t), Flagged(t, n),
           FreshStack(stacks[Latest]) => FreshStack(t)
    PROVE  MerklInv'
<1>1. /\ stacks \in Seq(StackRecords) /\ Len(stacks) \in Nat
      /\ \A k \in 1 .. Len(stacks) : stacks[k] \in StackRecords
  BY DEF MerklInv, MerklTypes
<1>2. step # 0 /\ step' = n
  BY DEF Did
<1>3. Latest \in 1 .. Len(stacks)
  BY <1>1, <1>2 DEF MerklInv, DeployInOrder, Latest
<1>4. stacks' = [stacks EXCEPT ![Latest] = t] /\ t \in StackRecords
  BY DEF SetLatest, Keeps
<1>5. /\ stacks' \in Seq(StackRecords) /\ Len(stacks') = Len(stacks)
      /\ \A k \in 1 .. Len(stacks) : stacks'[k] = IF k = Latest THEN t ELSE stacks[k]
  BY <1>1, <1>3, <1>4
<1>6. StacksGrow
  BY <1>1, <1>5, KeepsSelf DEF StacksGrow
<1>7. DeployInOrder'
  BY <1>2, <1>3, <1>5 DEF DeployInOrder, Latest, Flagged
<1>8. ASSUME NothingExecuted, NEW k \in 1 .. Len(stacks')
      PROVE  FreshStack(stacks'[k])
  BY <1>5, <1>8 DEF MerklInv, FreshUntilAVote, Stacks
<1> QED
  BY <1>2, <1>6, <1>7, <1>8, ScriptChange DEF Did, SetLatest

(* The four steps after it, each of which needs the one before. *)
LEMMA DeploySteps ==
    ASSUME MerklInv, DeploySplitter \/ Configure \/ TransferOwnership \/ DeployWrapper
    PROVE  MerklInv'
<1>1. step # 0
  BY DEF DeploySplitter, Configure, TransferOwnership, DeployWrapper, Did
<1>2. Latest \in 1 .. Len(stacks) /\ Flagged(stacks[Latest], step)
  BY <1>1 DEF MerklInv, MerklTypes, DeployInOrder, Latest
<1>3. PICK s \in StackRecords : s = stacks[Latest]
  BY <1>2 DEF MerklInv, MerklTypes
<1>4. Flagged(s, step)
  BY <1>2, <1>3
<1>5. CASE DeploySplitter
  <2> DEFINE t == [s EXCEPT !.splitter = TRUE]
  <2>1. Keeps(s, t) /\ (FreshStack(s) => FreshStack(t))
    BY FlagsKeep DEF FreshStack, StackRecords
  <2>2. Flagged(t, 2)
    BY FlagsSet DEF Flagged
  <2>3. Did(Latest, 2) /\ SetLatest(t)
    BY <1>3, <1>5 DEF DeploySplitter
  <2> QED
    BY <1>3, <2>1, <2>2, <2>3, LatestSet
<1>6. CASE Configure
  <2> DEFINE t == [s EXCEPT !.configured = TRUE]
  <2>1. Keeps(s, t) /\ (FreshStack(s) => FreshStack(t))
    BY FlagsKeep DEF FreshStack, StackRecords
  <2>2. step = 2 /\ Did(Latest, 3) /\ SetLatest(t)
    BY <1>3, <1>6 DEF Configure, Did
  <2>3. Flagged(t, 3)
    BY <1>4, <2>1, <2>2, FlagsSet DEF Flagged, Keeps
  <2> QED
    BY <1>3, <2>1, <2>2, <2>3, LatestSet
<1>7. CASE TransferOwnership
  <2> DEFINE t == [s EXCEPT !.owner = "DAO"]
  <2>1. Keeps(s, t) /\ (FreshStack(s) => FreshStack(t))
    BY FlagsKeep DEF FreshStack, StackRecords
  <2>2. step = 3 /\ Did(Latest, 4) /\ SetLatest(t)
    BY <1>3, <1>7 DEF TransferOwnership, Did
  <2>3. Flagged(t, 4)
    BY <1>4, <2>1, <2>2, FlagsSet DEF Flagged, Keeps
  <2> QED
    BY <1>3, <2>1, <2>2, <2>3, LatestSet
<1>8. CASE DeployWrapper
  <2> DEFINE t == [s EXCEPT !.wrapper = TRUE]
  <2>1. Keeps(s, t) /\ (FreshStack(s) => FreshStack(t))
    BY FlagsKeep DEF FreshStack, StackRecords
  <2>2. step = 4 /\ Did(Latest, 5) /\ SetLatest(t)
    BY <1>3, <1>8 DEF DeployWrapper, Did
  <2>3. Flagged(t, 5)
    BY <1>4, <2>1, <2>2, FlagsSet DEF Flagged, Keeps
  <2> QED
    BY <1>3, <2>1, <2>2, <2>3, LatestSet
<1> QED
  BY <1>5, <1>6, <1>7, <1>8

(* Nothing that the stacks are made of changes. *)
LEMMA StacksStay ==
    ASSUME MerklInv, UNCHANGED stacks
    PROVE  StacksGrow
  BY KeepsSelf DEF MerklInv, MerklTypes, StacksGrow

(* The file names a stack once all five steps are done, and not when the
   script stops before. *)
LEMMA ScriptEnds ==
    ASSUME MerklInv, WriteJson \/ DeployFails
    PROVE  MerklInv'
<1>1. UNCHANGED <<votingVars, stacks, daoVars, feeVars>> /\ step' = 0
  BY DEF WriteJson, DeployFails
<1>2. StacksGrow
  BY <1>1, StacksStay
<1>3. json' \in 0 .. Len(stacks) /\ FileIsWhole'
  <2>1. CASE WriteJson
    <3>1. Latest # 0 /\ Flagged(stacks[Latest], 5) /\ json' = Latest
      BY <2>1 DEF WriteJson, MerklInv, DeployInOrder
    <3> QED
      BY <1>1, <3>1 DEF FileIsWhole, Whole, Flagged, MerklInv, MerklTypes, Latest
  <2>2. CASE DeployFails
    BY <1>2, <2>2, FileKept DEF DeployFails, MerklInv, MerklTypes
  <2> QED
    BY <2>1, <2>2
<1>4. MerklTypes'
  BY <1>1, <1>3 DEF MerklInv, MerklTypes, votingVars, daoVars, feeVars
<1>5. VotesNameStacks' /\ InstalledIsSeedable'
  BY <1>1, <1>2, VotesKept, InstalledKept DEF votingVars, daoVars
<1>6. FreshUntilAVote' /\ DeployInOrder'
  BY <1>1 DEF MerklInv, FreshUntilAVote, NothingExecuted, Executed, votingVars, daoVars, Stacks,
              FreshStack, FeeDistributor, DeployInOrder
<1> QED
  BY <1>3, <1>4, <1>5, <1>6 DEF MerklInv

(***************************************************************************)
(* The votes                                                               *)
(***************************************************************************)
(* A script proposes what is true of the stacks when it runs. *)
LEMMA MerklProposed ==
    ASSUME MerklInv, NEW v \in MerklVote, MerklVoteOK(v), Create(v)
    PROVE  MerklInv'
<1> DEFINE p == [by |-> "yb-deployer", vote |-> v, status |-> "open"]
<1>1. p \in MerklProposal /\ p.vote = v /\ p.status # "executed"
  BY DEF MerklProposal, Statuses
<1>2. proposals \in Seq(MerklProposal) /\ proposals' = Append(proposals, p)
  BY DEF MerklInv, MerklTypes, Create, CreateProposal
<1> HIDE DEF p
<1>3. /\ proposals' \in Seq(MerklProposal)
      /\ Len(proposals) \in Nat /\ Len(proposals') = Len(proposals) + 1
      /\ DOMAIN proposals = 1 .. Len(proposals)
      /\ DOMAIN proposals' = 1 .. Len(proposals) + 1
      /\ \A i \in 1 .. Len(proposals) : proposals'[i] = proposals[i]
      /\ proposals'[Len(proposals) + 1] = p
  BY <1>1, <1>2, Appended
<1>4. UNCHANGED <<stackVars, daoVars, feeVars>>
  BY DEF Create
<1>5. StacksGrow
  BY <1>4, StacksStay DEF stackVars
<1>6. MerklTypes'
  BY <1>3, <1>4 DEF MerklInv, MerklTypes, stackVars, daoVars, feeVars
<1>7. DeployInOrder' /\ FileIsWhole' /\ InstalledIsSeedable'
  BY <1>4, <1>5, FileKept, InstalledKept
     DEF MerklInv, DeployInOrder, Latest, Flagged, stackVars, daoVars
<1>8. VotesNameStacks'
  <2>1. ASSUME NEW i \in 1 .. Len(proposals') PROVE MerklVoteOK(proposals'[i].vote)
    <3>1. i \in 1 .. Len(proposals) \/ i = Len(proposals) + 1
      BY <1>3
    <3> QED
      BY <1>1, <1>3, <3>1 DEF MerklInv, VotesNameStacks
  <2> QED
    BY <1>4, <2>1 DEF VotesNameStacks, MerklVoteOK, Seedable, Stacks, Whole, Flagged,
                      FeeDistributor, stackVars
<1>9. FreshUntilAVote'
  <2>1. NothingExecuted' => NothingExecuted
    <3> SUFFICES ASSUME NothingExecuted', NEW i \in DOMAIN proposals PROVE ~Executed(i)
      BY DEF NothingExecuted
    <3>1. i \in DOMAIN proposals' /\ proposals'[i] = proposals[i]
      BY <1>3
    <3> QED
      BY <3>1 DEF NothingExecuted, Executed
  <2> QED
    BY <1>4, <2>1 DEF MerklInv, FreshUntilAVote, Stacks, FreshStack, FeeDistributor,
                      stackVars, daoVars
<1> QED
  BY <1>6, <1>7, <1>8, <1>9 DEF MerklInv

(* Both scripts that create votes take the stack of the file; the seed vote
   is simulated before it is created. *)
LEMMA MerklScripts ==
    ASSUME MerklInv, CreateSeedVote \/ CreateCampaignVote
    PROVE  MerklInv'
<1>1. ASSUME json # 0
      PROVE  json \in Nat /\ json \in Stacks /\ Whole(stacks[json])
  BY <1>1 DEF MerklInv, MerklTypes, FileIsWhole, Stacks
<1>2. CASE CreateSeedVote
  <2>1. PICK seed \in Proceeds :
            Create([kind |-> "seed", stack |-> json, owner |-> factoryAdmin, seed |-> seed])
    BY <1>2 DEF CreateSeedVote
  <2> DEFINE v == [kind |-> "seed", stack |-> json, owner |-> factoryAdmin, seed |-> seed]
  <2>2. json # 0 /\ stacks[json].fd = FeeDistributor
    BY <1>2 DEF CreateSeedVote, CanSeed
  <2>3. v \in MerklVote
    BY <1>1, <2>2 DEF MerklVote, Proceeds, MerklInv, MerklTypes
  <2>4. MerklVoteOK(v)
    BY <1>1, <2>2 DEF MerklVoteOK, Seedable
  <2> QED
    BY <2>1, <2>3, <2>4, MerklProposed
<1>3. CASE CreateCampaignVote
  <2> DEFINE v == [kind |-> "campaign", stack |-> json]
  <2>1. Create(v) /\ json # 0
    BY <1>3 DEF CreateCampaignVote, Create
  <2>2. v \in MerklVote /\ MerklVoteOK(v)
    BY <1>1, <2>1 DEF MerklVote, MerklVoteOK
  <2> QED
    BY <2>1, <2>2, MerklProposed
<1> QED
  BY <1>2, <1>3

(* The proposal that is executed is marked, and none changes what it says. *)
LEMMA MerklMarked ==
    ASSUME MerklInv, NEW i \in DOMAIN proposals, PassAndMarkExecuted(i)
    PROVE  /\ proposals' \in Seq(MerklProposal) /\ Len(proposals') = Len(proposals)
           /\ \A j \in 1 .. Len(proposals) : proposals'[j].vote = proposals[j].vote
           /\ ~NothingExecuted'
<1>1. proposals \in Seq(MerklProposal) /\ proposals[i] \in MerklProposal
  BY DEF MerklInv, MerklTypes
<1> DEFINE p == [proposals[i] EXCEPT !.status = "executed"]
<1>2. p \in MerklProposal /\ p.vote = proposals[i].vote /\ p.status = "executed"
  BY <1>1 DEF MerklProposal, Statuses
<1>3. proposals' = [proposals EXCEPT ![i] = p]
  BY DEF PassAndMarkExecuted
<1> HIDE DEF p
<1>4. proposals'[i].status = "executed" /\ i \in DOMAIN proposals'
  BY <1>1, <1>2, <1>3
<1> QED
  BY <1>1, <1>2, <1>3, <1>4 DEF NothingExecuted, Executed

(* A vote that is executed changes a stack, and may install it. *)
LEMMA MerklVoteChange ==
    ASSUME MerklInv, StacksGrow, Len(stacks') = Len(stacks), UNCHANGED <<step, json>>,
           proposals' \in Seq(MerklProposal), Len(proposals') = Len(proposals),
           \A j \in 1 .. Len(proposals) : proposals'[j].vote = proposals[j].vote,
           ~NothingExecuted', factoryAdmin' = factoryAdmin,
           receiver' = receiver \/ Seedable(receiver'),
           treasury' \in Nat, oldFees' \in Nat, UNCHANGED <<pending, distributed>>
    PROVE  MerklInv'
<1>1. Len(stacks) \in Nat /\ receiver \in 0 .. Len(stacks)
  BY DEF MerklInv, MerklTypes
<1>2. receiver' \in 0 .. Len(stacks) /\ InstalledIsSeedable'
  <2>1. CASE receiver' = receiver
    BY <1>1, <2>1, InstalledKept
  <2>2. CASE Seedable(receiver')
    <3>1. PICK r : r = receiver'
      OBVIOUS
    <3>2. Seedable(r) /\ Seedable(r)'
      BY <2>2, <3>1, SeedableKept DEF MerklInv
    <3> QED
      BY <1>1, <3>1, <3>2 DEF InstalledIsSeedable, Seedable, Stacks
  <2> QED
    BY <2>1, <2>2
<1>3. MerklTypes'
  BY <1>2 DEF MerklInv, MerklTypes, StacksGrow
<1>4. DeployInOrder'
  <2>1. CASE step = 0
    BY <2>1 DEF DeployInOrder
  <2>2. CASE step # 0
    <3>1. Len(stacks) \in 1 .. Len(stacks) /\ Flagged(stacks[Len(stacks)], step) /\ step \in 0 .. 5
      BY <1>1, <2>2 DEF MerklInv, MerklTypes, DeployInOrder, Latest
    <3>2. Flagged(stacks'[Len(stacks)], step)
      BY <3>1, FlaggedKept DEF StacksGrow
    <3> QED
      BY <1>1, <3>1, <3>2 DEF DeployInOrder, Latest, Flagged
  <2> QED
    BY <2>1, <2>2
<1>5. FileIsWhole'
  BY FileKept
<1>6. VotesNameStacks'
  <2>1. ASSUME NEW i \in 1 .. Len(proposals) PROVE MerklVoteOK(proposals[i].vote)'
    <3>1. PICK v : v = proposals[i].vote
      OBVIOUS
    <3>2. MerklVoteOK(v)'
      <4>1. MerklVoteOK(proposals[i].vote)
        BY DEF MerklInv, VotesNameStacks
      <4> QED
        BY <3>1, <4>1, MerklVoteKept DEF MerklInv
    <3> QED
      BY <3>1, <3>2 DEF MerklVoteOK
  <2> QED
    BY <2>1 DEF VotesNameStacks
<1>7. FreshUntilAVote'
  BY DEF FreshUntilAVote
<1> QED
  BY <1>2, <1>3, <1>4, <1>5, <1>6, <1>7 DEF MerklInv

(* One stack changes, and is kept. *)
LEMMA OneStackSet ==
    ASSUME MerklTypes, NEW k \in Stacks, NEW t, Keeps(stacks[k], t),
           stacks' = [stacks EXCEPT ![k] = t]
    PROVE  StacksGrow /\ Len(stacks') = Len(stacks)
<1>1. /\ stacks \in Seq(StackRecords) /\ Len(stacks) \in Nat /\ t \in StackRecords
      /\ \A j \in 1 .. Len(stacks) : stacks[j] \in StackRecords
      /\ k \in 1 .. Len(stacks)
  BY DEF MerklTypes, Keeps, Stacks
<1>2. /\ stacks' \in Seq(StackRecords) /\ Len(stacks') = Len(stacks)
      /\ \A j \in 1 .. Len(stacks) : stacks'[j] = IF j = k THEN t ELSE stacks[j]
  BY <1>1
<1> QED
  BY <1>1, <1>2, KeepsSelf DEF StacksGrow

(* The two votes, executed. *)
LEMMA MerklVoteExecuted ==
    ASSUME MerklInv, NEW i \in DOMAIN proposals, ExecuteVote(i)
    PROVE  MerklInv'
<1> DEFINE v == proposals[i].vote
<1>1. /\ proposals' \in Seq(MerklProposal) /\ Len(proposals') = Len(proposals)
      /\ \A j \in 1 .. Len(proposals) : proposals'[j].vote = proposals[j].vote
      /\ ~NothingExecuted'
  BY MerklMarked DEF ExecuteVote
<1>2. v \in MerklVote /\ MerklVoteOK(v)
  <2>1. proposals \in Seq(MerklProposal) /\ i \in 1 .. Len(proposals)
    BY DEF MerklInv, MerklTypes
  <2>2. proposals[i] \in MerklProposal
    BY <2>1
  <2> QED
    BY <2>1, <2>2 DEF MerklInv, MerklProposal, VotesNameStacks
<1> HIDE DEF v
<1>3. v.stack \in Stacks /\ stacks[v.stack] \in StackRecords /\ treasury \in Nat /\ oldFees \in Nat
  BY <1>2 DEF MerklVoteOK, MerklInv, MerklTypes, Stacks
<1>4. CASE v.kind = "seed" /\ ExecuteSeed(v)
  <2>1. PICK proceeds \in Proceeds :
          /\ treasury + proceeds >= v.seed
          /\ receiver' = v.stack
          /\ treasury' = treasury + proceeds - v.seed
          /\ oldFees' = 0
          /\ stacks' = [stacks EXCEPT ![v.stack].reserve = @ + v.seed]
          /\ UNCHANGED <<step, json, factoryAdmin, stranded, pending, distributed, driven>>
    BY <1>4 DEF ExecuteSeed
  <2>2. Seedable(v.stack) /\ v.seed \in Nat
    BY <1>2, <1>4 DEF MerklVoteOK, MerklVote
  <2>3. proceeds \in Nat
    BY <1>3 DEF Proceeds
  <2> DEFINE t == [stacks[v.stack] EXCEPT !.reserve = stacks[v.stack].reserve + v.seed]
  <2>4. stacks[v.stack].reserve + v.seed \in Nat
    BY <1>3, <2>2 DEF StackRecords
  <2>5. Keeps(stacks[v.stack], t)
    BY <1>3, <2>4, FundsKeep
  <2>6. stacks' = [stacks EXCEPT ![v.stack] = t]
    BY <2>1
  <2> HIDE DEF t
  <2>7. StacksGrow /\ Len(stacks') = Len(stacks)
    BY <1>3, <2>5, <2>6, OneStackSet DEF MerklInv
  <2>8. treasury' \in Nat
    BY <1>3, <2>1, <2>2, <2>3
  <2> QED
    BY <1>1, <2>1, <2>2, <2>7, <2>8, MerklVoteChange
<1>5. CASE v.kind = "campaign" /\ ExecuteCampaign(v)
  <2> DEFINE t == [stacks[v.stack] EXCEPT !.merkl = TRUE]
  <2>1. stacks' = [stacks EXCEPT ![v.stack] = t] /\ UNCHANGED <<step, json, daoVars, feeVars>>
    BY <1>5 DEF ExecuteCampaign
  <2>2. Keeps(stacks[v.stack], t)
    BY <1>3, FlagsKeep
  <2> HIDE DEF t
  <2>3. StacksGrow /\ Len(stacks') = Len(stacks)
    BY <1>3, <2>1, <2>2, OneStackSet DEF MerklInv
  <2> QED
    BY <1>1, <1>3, <2>1, <2>3, MerklVoteChange DEF daoVars, feeVars
<1> QED
  BY <1>4, <1>5 DEF ExecuteVote, v

(***************************************************************************)
(* The fees                                                                *)
(***************************************************************************)
(* Fees move between the stacks and the FeeDistributor. *)
LEMMA FeesChange ==
    ASSUME MerklInv, StacksGrow, Len(stacks') = Len(stacks),
           UNCHANGED <<votingVars, step, json, daoVars>>,
           oldFees' \in Nat, pending' \in Nat, distributed' \in Nat,
           NothingExecuted => \A k \in 1 .. Len(stacks) : FreshStack(stacks'[k])
    PROVE  MerklInv'
<1>1. MerklTypes'
  BY DEF MerklInv, MerklTypes, StacksGrow, votingVars, daoVars
<1>2. FileIsWhole' /\ VotesNameStacks' /\ InstalledIsSeedable'
  BY FileKept, VotesKept, InstalledKept DEF votingVars, daoVars
<1>3. FreshUntilAVote'
  BY DEF MerklInv, FreshUntilAVote, NothingExecuted, Executed, votingVars, daoVars, Stacks,
         FreshStack, FeeDistributor
<1>4. DeployInOrder'
  <2>1. CASE step = 0
    BY <2>1 DEF DeployInOrder
  <2>2. CASE step # 0
    <3>1. Len(stacks) \in 1 .. Len(stacks) /\ Flagged(stacks[Len(stacks)], step) /\ step \in 0 .. 5
      BY <2>2 DEF MerklInv, MerklTypes, DeployInOrder, Latest
    <3>2. Flagged(stacks'[Len(stacks)], step)
      BY <3>1, FlaggedKept DEF StacksGrow
    <3> QED
      BY <3>1, <3>2 DEF DeployInOrder, Latest, Flagged
  <2> QED
    BY <2>1, <2>2
<1> QED
  BY <1>1, <1>2, <1>3, <1>4 DEF MerklInv

(* withdraw_admin_fees adds to what one splitter holds, or to no splitter. *)
LEMMA HarvestKeeps ==
    ASSUME MerklInv, NEW after, after = Harvested(stacks)
    PROVE  /\ after \in Seq(StackRecords) /\ Len(after) = Len(stacks)
           /\ \A k \in 1 .. Len(stacks) : Keeps(stacks[k], after[k])
           /\ NothingExecuted => after = stacks
<1>1. /\ stacks \in Seq(StackRecords) /\ Len(stacks) \in Nat /\ pending \in Nat
      /\ \A k \in 1 .. Len(stacks) : stacks[k] \in StackRecords
  BY DEF MerklInv, MerklTypes
<1>2. NothingExecuted => receiver = FeeDistributor
  BY DEF MerklInv, FreshUntilAVote
<1>3. CASE receiver = FeeDistributor
  BY <1>1, <1>3, KeepsSelf DEF Harvested
<1>4. CASE receiver # FeeDistributor
  <2>1. receiver \in 1 .. Len(stacks)
    BY <1>4 DEF MerklInv, InstalledIsSeedable, Seedable, Stacks
  <2>2. stacks[receiver].held + pending \in Nat
    BY <1>1, <2>1 DEF StackRecords
  <2> DEFINE t == [stacks[receiver] EXCEPT !.held = stacks[receiver].held + pending]
  <2>3. Keeps(stacks[receiver], t)
    <3>1. PICK h \in Nat : h = stacks[receiver].held + pending
      BY <2>2
    <3> QED
      BY <1>1, <2>1, <3>1, FundsKeep
  <2>4. after = [stacks EXCEPT ![receiver] = t]
    BY <1>4 DEF Harvested
  <2>5. t \in StackRecords
    BY <2>3 DEF Keeps
  <2> HIDE DEF t
  <2>6. /\ after \in Seq(StackRecords) /\ Len(after) = Len(stacks)
        /\ \A k \in 1 .. Len(stacks) : after[k] = IF k = receiver THEN t ELSE stacks[k]
    BY <1>1, <2>1, <2>4, <2>5
  <2> QED
    BY <1>1, <1>2, <1>4, <2>3, <2>6, KeepsSelf
<1> QED
  BY <1>3, <1>4

(* Stacks are kept through the two calls of a transaction. *)
LEMMA KeepsTwice ==
    ASSUME NEW r, NEW s, NEW t, Keeps(r, s), Keeps(s, t)
    PROVE  Keeps(r, t)
  BY DEF Keeps

(* withdraw_admin_fees. *)
LEMMA FeesHarvested ==
    ASSUME MerklInv, WithdrawAdminFees
    PROVE  MerklInv'
<1>1. PICK after : after = Harvested(stacks)
  OBVIOUS
<1>2. stacks' = after /\ pending' = 0 /\ distributed' = HarvestedDistributed
      /\ UNCHANGED <<votingVars, step, json, daoVars, oldFees>>
  BY <1>1 DEF WithdrawAdminFees
<1>3. /\ after \in Seq(StackRecords) /\ Len(after) = Len(stacks)
      /\ \A k \in 1 .. Len(stacks) : Keeps(stacks[k], after[k])
      /\ NothingExecuted => after = stacks
  BY <1>1, HarvestKeeps
<1>4. StacksGrow /\ Len(stacks') = Len(stacks)
  BY <1>2, <1>3 DEF StacksGrow, MerklInv, MerklTypes
<1>5. oldFees \in Nat /\ pending' \in Nat /\ distributed' \in Nat
  BY <1>2 DEF MerklInv, MerklTypes, HarvestedDistributed
<1>6. NothingExecuted => \A k \in 1 .. Len(stacks) : FreshStack(stacks'[k])
  BY <1>2, <1>3 DEF MerklInv, FreshUntilAVote, Stacks
<1> QED
  BY <1>2, <1>4, <1>5, <1>6, FeesChange

(* split_fraction takes a part of what there is, and nothing of nothing. *)
LEMMA PidPart ==
    ASSUME NEW bal \in Nat
    PROVE  /\ ToPid(bal) \in Nat /\ ToPid(bal) <= bal
           /\ bal = 0 => ToPid(bal) = 0
<1>1. FracD \in Nat /\ FracD > 0 /\ FracN \in Nat /\ FracN <= FracD
  BY MerklAssumption
<1>2. PICK p \in Nat : p = bal * FracN
  BY <1>1
<1>3. p <= bal * FracD
  BY <1>1, <1>2
<1>4. ToPid(bal) \in Nat /\ ToPid(bal) <= bal
  <2>1. PICK q \in Nat : q = p \div FracD
    BY <1>1, <1>2
  <2>2. FracD * q <= p
    BY <1>1, <2>1
  <2>3. FracD * q <= bal * FracD
    BY <1>1, <1>2, <1>3, <2>2
  <2>4. q <= bal
    BY <1>1, <2>3
  <2> QED
    BY <1>2, <2>1, <2>4 DEF ToPid
<1> QED
  BY <1>4

(* FeeSplitter.trigger, whose splitter holds nothing before a vote installs
   it. *)
LEMMA SplitterTriggered ==
    ASSUME MerklInv, NEW k \in Stacks, Trigger(k)
    PROVE  MerklInv'
<1>1. PICK after : after = Harvested(stacks)
  OBVIOUS
<1>2. /\ after \in Seq(StackRecords) /\ Len(after) = Len(stacks) /\ Len(stacks) \in Nat
      /\ \A j \in 1 .. Len(stacks) : Keeps(stacks[j], after[j])
      /\ NothingExecuted => after = stacks
  BY <1>1, HarvestKeeps DEF MerklInv, MerklTypes
<1>3. /\ k \in 1 .. Len(stacks) /\ after[k] \in StackRecords
      /\ \A j \in 1 .. Len(stacks) : after[j] \in StackRecords
  BY <1>2 DEF Stacks, Keeps
<1>4. PICK bal \in Nat : bal = after[k].held
  BY <1>3 DEF StackRecords
<1>5. ToPid(bal) \in Nat /\ ToPid(bal) <= bal /\ (bal = 0 => ToPid(bal) = 0)
  BY PidPart
<1>6. PICK gain \in {0, ToPid(bal)} :
        /\ stacks' = [after EXCEPT ![k].held = 0, ![k].reserve = @ + gain]
        /\ pending' = 0
        /\ distributed' = HarvestedDistributed + bal - ToPid(bal)
        /\ UNCHANGED <<votingVars, step, json, daoVars, oldFees>>
  BY <1>1, <1>4 DEF Trigger
<1>7. gain \in Nat /\ (bal = 0 => gain = 0)
  BY <1>5, <1>6
<1> DEFINE t == [after[k] EXCEPT !.held = 0, !.reserve = after[k].reserve + gain]
<1>8. after[k].reserve \in Nat /\ after[k].reserve + gain \in Nat
  BY <1>3, <1>7 DEF StackRecords
<1>9. /\ Keeps(after[k], t) /\ t.held = 0 /\ t.reserve = after[k].reserve + gain
      /\ t \in StackRecords /\ t.merkl = after[k].merkl /\ t.fd = after[k].fd
  <2>1. PICK r \in Nat : r = after[k].reserve + gain
    BY <1>8
  <2>2. PICK s \in StackRecords : s = after[k]
    BY <1>3
  <2>3. t = [s EXCEPT !.held = 0, !.reserve = r]
    BY <2>1, <2>2
  <2> HIDE DEF t
  <2>4. Keeps(s, t) /\ t.held = 0 /\ t.reserve = r /\ t.merkl = s.merkl
    BY <2>3 DEF Keeps, StackRecords
  <2> QED
    BY <2>1, <2>2, <2>4 DEF Keeps
<1>10. stacks' = [after EXCEPT ![k] = t]
  BY <1>2, <1>3, <1>6
<1> HIDE DEF t
<1>11. /\ stacks' \in Seq(StackRecords) /\ Len(stacks') = Len(stacks)
       /\ \A j \in 1 .. Len(stacks) : stacks'[j] = IF j = k THEN t ELSE after[j]
  BY <1>2, <1>3, <1>9, <1>10
<1>12. StacksGrow
  <2>1. ASSUME NEW j \in 1 .. Len(stacks) PROVE Keeps(stacks[j], stacks'[j])
    BY <1>2, <1>9, <1>11, KeepsTwice
  <2> QED
    BY <1>2, <1>11, <2>1 DEF StacksGrow
<1>13. oldFees \in Nat /\ pending' \in Nat /\ distributed' \in Nat
  <2>1. HarvestedDistributed \in Nat
    BY DEF HarvestedDistributed, MerklInv, MerklTypes
  <2>2. distributed' = HarvestedDistributed + (bal - ToPid(bal))
    BY <1>5, <1>6, <2>1
  <2> QED
    BY <1>5, <1>6, <2>1, <2>2 DEF MerklInv, MerklTypes
<1>14. ASSUME NothingExecuted, NEW j \in 1 .. Len(stacks) PROVE FreshStack(stacks'[j])
  <2>1. after = stacks /\ \A n \in 1 .. Len(stacks) : FreshStack(stacks[n])
    BY <1>2, <1>14 DEF MerklInv, FreshUntilAVote, Stacks
  <2>2. FreshStack(after[k])
    BY <1>3, <2>1
  <2>3. FreshStack(t)
    BY <1>4, <1>7, <1>9, <2>2 DEF FreshStack
  <2> QED
    BY <1>11, <2>1, <2>3
<1> QED
  BY <1>6, <1>11, <1>12, <1>13, <1>14, FeesChange

(* Every step keeps the invariant. *)
LEMMA MerklStep == MerklInv /\ [MerklNext]_merklVars => MerklInv'
<1> SUFFICES ASSUME MerklInv, [MerklNext]_merklVars PROVE MerklInv'
  OBVIOUS
<1>1. CASE Deploy
  BY <1>1, DriverDeployed, DeploySteps, ScriptEnds DEF Deploy
<1>2. CASE CreateSeedVote \/ CreateCampaignVote
  BY <1>2, MerklScripts
<1>3. CASE \E i \in DOMAIN proposals : ExecuteVote(i)
  BY <1>3, MerklVoteExecuted
<1>4. CASE \E k \in Stacks : Trigger(k)
  BY <1>4, SplitterTriggered
<1>5. CASE WithdrawAdminFees
  BY <1>5, FeesHarvested
<1>6. CASE HarvestDeprecated \/ Earn
  <2>1. UNCHANGED <<votingVars, stackVars, daoVars, distributed>> /\ oldFees' \in Nat /\ pending' \in Nat
    BY <1>6 DEF HarvestDeprecated, Earn, MerklInv, MerklTypes
  <2>2. StacksGrow
    BY <2>1, StacksStay DEF stackVars
  <2>3. NothingExecuted => \A k \in 1 .. Len(stacks) : FreshStack(stacks'[k])
    BY <2>1 DEF MerklInv, FreshUntilAVote, Stacks, stackVars
  <2> QED
    BY <2>1, <2>2, <2>3, FeesChange DEF stackVars, MerklInv, MerklTypes
<1>7. CASE HandOver \/ CooldownPasses \/ UNCHANGED merklVars
  <2>1. UNCHANGED <<proposals, stackVars, receiver, treasury, feeVars>> /\ factoryAdmin' \in {1, 2}
    BY <1>7 DEF HandOver, CooldownPasses, CooldownEnds, merklVars, votingVars, daoVars,
                MerklInv, MerklTypes
  <2> QED
    BY <2>1 DEF MerklInv, MerklTypes, DeployInOrder, Latest, Flagged, FileIsWhole, Whole,
                VotesNameStacks, MerklVoteOK, Seedable, Stacks, InstalledIsSeedable,
                FreshUntilAVote, NothingExecuted, Executed, FreshStack, FeeDistributor,
                stackVars, feeVars
<1> QED
  BY <1>1, <1>2, <1>3, <1>4, <1>5, <1>6, <1>7 DEF MerklNext

(* The stack in the JSON file, those that the votes name and the installed
   one are whole, for any number of stacks and votes. *)
THEOREM MerklInvariant == MerklSpec => []MerklInv
  BY MerklStart, MerklStep, PTL DEF MerklSpec

(* A splitter that a vote installs, wherever the deploy script stopped and
   whatever the file named by then, feeds the FeeDistributor and a driver that
   is configured and owned by the DAO. *)
THEOREM InstalledStacksAreWhole == MerklSpec => []InstalledStackIsWhole
<1>1. MerklInv => InstalledStackIsWhole
  BY DEF MerklInv, InstalledIsSeedable, Seedable, Whole, Flagged, InstalledStackIsWhole
<1> QED
  BY MerklInvariant, <1>1, PTL

(* Until a vote is executed, the stack in the file passes its verification. *)
THEOREM FreshStacksAreVerified == MerklSpec => []FreshStackIsVerified
<1>1. MerklInv => FreshStackIsVerified
  <2> SUFFICES ASSUME MerklInv, json # 0, NothingExecuted PROVE Verified
    BY DEF FreshStackIsVerified, NothingExecuted
  <2>1. json \in Stacks /\ Flagged(stacks[json], 5)
    BY DEF MerklInv, MerklTypes, FileIsWhole, Whole, Stacks
  <2>2. receiver = FeeDistributor /\ FreshStack(stacks[json])
    BY <2>1 DEF MerklInv, FreshUntilAVote
  <2> QED
    BY <2>1, <2>2 DEF Verified, Flagged, FreshStack, Connected, FeeDistributor
<1> QED
  BY MerklInvariant, <1>1, PTL

-----------------------------------------------------------------------------
(***************************************************************************)
(* The rollout of the v3 markets, for any number of collaterals, runs of   *)
(* the script, crashes and foreign markets.  Type correctness comes first. *)
(* Then every step is put in one of four kinds (StepKinds), by what it     *)
(* does to the proposals and to the identity of the markets, and each      *)
(* part of the inductive invariant RolloutInv is shown for each kind.      *)
(***************************************************************************)
(* Type correctness. *)

\* The initial state has the types.
LEMMA InitTypeOK == RolloutInit => RolloutTypeOK
<1> SUFFICES ASSUME RolloutInit PROVE RolloutTypeOK
  OBVIOUS
<1> USE RolloutAssumption DEF RolloutInit, VotingInit
<1>1. markets \in Seq(MarketRecords) /\ MarketCount >= K
  <2>1. \A c \in Collaterals : OldMarket(c) \in MarketRecords
    BY DEF OldMarket, MarketRecords, Collaterals, NoCollateral
  <2>2. markets \in [1 .. K -> MarketRecords]
    BY <2>1 DEF Collaterals
  <2>. QED
    BY <2>2 DEF MarketCount, Collaterals
<1>2. proposals \in Seq(ProposalRecords)
  OBVIOUS
<1>3. script \in ScriptRecords /\ script.mode = "idle"
  BY DEF ScriptRecords, NotRunning
<1>. QED
  BY <1>1, <1>2, <1>3 DEF RolloutTypeOK, Votes, Collaterals

\* What a typed state says of a proposal.
LEMMA ProposalType ==
    ASSUME RolloutTypeOK, NEW i \in DOMAIN proposals
    PROVE  /\ proposals[i] \in ProposalRecords
           /\ proposals[i].vote \in VoteRecords
           /\ proposals[i].vote.run \in 1 .. runs
           /\ proposals[i].vote.vote \in 1 .. K + 2
           /\ proposals[i].vote.n \in Nat
           /\ i \in 1 .. Len(proposals) /\ Len(proposals) \in Nat
<1>1. proposals[i] \in ProposalRecords
  BY DEF RolloutTypeOK
<1>. QED
  BY <1>1 DEF ProposalRecords, VoteRecords, Votes, RolloutTypeOK

\* What a typed state says of a market.
LEMMA MarketType ==
    ASSUME RolloutTypeOK, NEW i \in DOMAIN markets
    PROVE  /\ markets[i] \in MarketRecords
           /\ i \in 1 .. MarketCount /\ MarketCount \in Nat
<1>. QED
  BY DEF RolloutTypeOK, MarketCount

\* Marking and passing a proposal keep the list typed.
LEMMA StatusType ==
    ASSUME RolloutTypeOK, NEW i \in DOMAIN proposals, NEW s \in Statuses
    PROVE  [proposals EXCEPT ![i].status = s] \in Seq(ProposalRecords)
<1>1. [proposals[i] EXCEPT !.status = s]
          \in ProposalRecords
  BY ProposalType DEF ProposalRecords
<1>. QED
  BY <1>1 DEF RolloutTypeOK

\* Appending a market of an existing run keeps the list typed.
LEMMA AppendType ==
    ASSUME RolloutTypeOK, NEW c \in Collaterals \cup {NoCollateral}, NEW r \in 0 .. runs
    PROVE  /\ Append(markets, NewMarket(c, r)) \in Seq(MarketRecords)
           /\ Len(Append(markets, NewMarket(c, r))) = MarketCount + 1
<1>1. NewMarket(c, r) \in MarketRecords
  BY DEF NewMarket, MarketRecords, RolloutTypeOK
<1>. QED
  BY <1>1 DEF RolloutTypeOK, MarketCount

\* Executing a proposal keeps the types of what it changes.
LEMMA ExecuteType ==
    ASSUME RolloutTypeOK, NEW i \in DOMAIN proposals, ExecuteProposal(i)
    PROVE  /\ proposals' \in Seq(ProposalRecords) /\ DOMAIN proposals' = DOMAIN proposals
           /\ cooling' = cooling
           /\ impl' \in 0 .. runs /\ setters' \subseteq 0 .. runs
           /\ markets' \in Seq(MarketRecords) /\ Len(markets') >= MarketCount
           /\ disabled' \subseteq Collaterals /\ limits' \subseteq Nat
<1> DEFINE v == proposals[i].vote
<1>1. v.run \in 1 .. runs /\ v.vote \in 1 .. K + 2 /\ v.n \in Nat
  BY ProposalType
<1>2. proposals' \in Seq(ProposalRecords) /\ DOMAIN proposals' = DOMAIN proposals
  BY StatusType DEF ExecuteProposal, MarkExecuted, Statuses
<1>3. cooling' = cooling /\ RolloutVoteEffect(v)
  BY DEF ExecuteProposal, MarkExecuted
<1> HIDE DEF v
<1>4. /\ impl \in 0 .. runs /\ setters \subseteq 0 .. runs /\ runs \in Nat
      /\ markets \in Seq(MarketRecords) /\ MarketCount \in Nat
      /\ disabled \subseteq Collaterals /\ limits \subseteq Nat
  BY DEF RolloutTypeOK, MarketCount
<1>5. CASE InstallCode(v)
  <2>0. v.run \in 0 .. runs
    BY <1>1, <1>4
  <2>1. impl' \in 0 .. runs /\ setters' \subseteq 0 .. runs
    BY <1>4, <1>5, <2>0, Zenon DEF InstallCode
  <2>. QED
    BY <1>2, <1>3, <1>4, <1>5, <2>1 DEF InstallCode, MarketCount
<1>6. CASE v.vote \in 2 .. K + 1 /\ ReplaceMarket(v)
  <2>1. v.vote - 1 \in Collaterals /\ v.run \in 0 .. runs
    BY <1>1, <1>4, <1>6, RolloutAssumption DEF Collaterals
  <2>2. markets' \in Seq(MarketRecords) /\ Len(markets') = MarketCount + 1
    BY <1>6, <2>1, AppendType DEF ReplaceMarket
  <2>. QED
    BY <1>2, <1>3, <1>4, <1>6, <2>1, <2>2 DEF ReplaceMarket
<1>7. CASE SwitchHybrid(v)
  <2>0. v.n + 1 .. v.n + K \subseteq Nat
    BY <1>1, RolloutAssumption
  <2>1. limits' \subseteq Nat
    BY <1>4, <1>7, <2>0, Zenon DEF SwitchHybrid
  <2>. QED
    BY <1>2, <1>3, <1>4, <1>7, <2>1 DEF SwitchHybrid, MarketCount
<1>. QED
  BY <1>3, <1>5, <1>6, <1>7 DEF RolloutVoteEffect

\* The collaterals that activation plans have markets.
LEMMA DiscoveredType ==
    ASSUME RolloutTypeOK, NEW c \in Collaterals, NewMarketsOf(c) # {}
    PROVE  Discovered(c) \in DOMAIN markets
<1> USE RolloutAssumption DEF RolloutTypeOK, MarketCount
<1>1. NewMarketsOf(c) \subseteq DOMAIN markets /\ NewMarketsOf(c) \subseteq 1 .. Len(markets)
  BY DEF NewMarketsOf
<1> DEFINE Below == {MarketCount - i : i \in NewMarketsOf(c)}
<1>2. Below \subseteq Nat /\ Below # {}
  BY <1>1
<1>3. PICK x \in Below : \A y \in Below : ~ (<<y, x>> \in OpToRel(<, Nat))
  BY <1>2, WFMin, NatLessThanWellFounded
<1>4. \A y \in Below : ~(y < x)
  <2>1. \A y \in Nat : y < x => <<y, x>> \in OpToRel(<, Nat)
    BY <1>2, Zenon DEF OpToRel
  <2>. QED
    BY <1>2, <1>3, <2>1
<1>5. PICK i \in NewMarketsOf(c) : x = MarketCount - i
  OBVIOUS
<1>6. \A j \in NewMarketsOf(c) : ~(MarketCount - j < MarketCount - i)
  BY <1>4, <1>5
<1>7. \A j \in NewMarketsOf(c) : j <= i
  BY <1>1, <1>6, SMT
<1>. QED
  BY <1>1, <1>7 DEF Discovered

\* While it deploys, executes or activates, the script remembers what that
\* mode needs.
LEMMA ScriptMode ==
    ASSUME RolloutTypeOK
    PROVE  /\ script.mode \in {"idle", "deploy", "execute", "activate"}
           /\ script.mode = "idle" => script = NotRunning
           /\ script.mode = "deploy" => script \in DeployRecords
           /\ script.mode = "execute" => script \in ExecuteRecords
           /\ script.mode = "activate" => script \in ActivateRecords
<1>1. NotRunning.mode = "idle"
  BY DEF NotRunning
<1>2. \A s \in DeployRecords : s.mode = "deploy"
  BY DEF DeployRecords
<1>3. \A s \in ExecuteRecords : s.mode = "execute"
  BY DEF ExecuteRecords
<1>4. \A s \in ActivateRecords : s.mode = "activate"
  BY DEF ActivateRecords
<1>. QED
  BY <1>1, <1>2, <1>3, <1>4 DEF RolloutTypeOK, ScriptRecords

\* What the type invariant says of the script's memory, and its next value.
ScriptTyped ==
    /\ script \in ScriptRecords
    /\ script.mode = "execute" => script.todo # <<>>
    /\ script.mode = "deploy" => runs >= 1

\* The records of the script grow with the proposals and the markets.
LEMMA ScriptRecordsGrow ==
    ASSUME RolloutTypeOK, DOMAIN proposals' = DOMAIN proposals,
           markets' \in Seq(MarketRecords), Len(markets') >= MarketCount
    PROVE  ScriptRecords \subseteq ScriptRecords'
<1>1. DOMAIN markets \subseteq DOMAIN markets'
  BY DEF RolloutTypeOK, MarketCount
<1>2. [Collaterals -> DOMAIN markets] \subseteq [Collaterals -> DOMAIN markets']
  BY <1>1
<1>3. ActivateRecords \subseteq ActivateRecords'
  BY <1>2 DEF ActivateRecords
<1>4. DeployRecords' = DeployRecords /\ ExecuteRecords' = ExecuteRecords
  BY DEF DeployRecords, ExecuteRecords
<1>. QED
  BY <1>3, <1>4 DEF ScriptRecords

\* What a step needs for the types, but for the script's memory, when it
\* neither starts a run nor creates a proposal.
LEMMA FrameType ==
    ASSUME RolloutTypeOK, runs' = runs, crashes' \in Nat, wallet' \subseteq Collaterals,
           proposals' \in Seq(ProposalRecords), cooling' \subseteq Votes,
           impl' \in 0 .. runs, setters' \subseteq 0 .. runs,
           markets' \in Seq(MarketRecords), Len(markets') >= MarketCount,
           disabled' \subseteq Collaterals, limits' \subseteq Nat, ScriptTyped'
    PROVE  RolloutTypeOK'
<1>1. MarketRecords' = MarketRecords /\ ProposalRecords' = ProposalRecords
  BY DEF MarketRecords, ProposalRecords, VoteRecords
<1>2. Len(markets') >= K
  BY RolloutAssumption DEF RolloutTypeOK, MarketCount
<1>. QED
  BY <1>1, <1>2 DEF RolloutTypeOK, ScriptTyped, MarketCount

\* A step of the script that leaves the chain and the proposals alone.
LEMMA ScriptOnlyType ==
    ASSUME RolloutTypeOK, UNCHANGED <<votingVars, chainVars, runs>>,
           wallet' \subseteq Collaterals, crashes' \in Nat,
           script' \in ScriptRecords,
           script'.mode = "execute" => script'.todo # <<>>,
           script'.mode = "deploy" => runs >= 1
    PROVE  RolloutTypeOK'
<1>1. ScriptRecords' = ScriptRecords
  BY DEF ScriptRecords, DeployRecords, ExecuteRecords, ActivateRecords, votingVars, chainVars
<1>2. ScriptTyped'
  BY <1>1 DEF ScriptTyped
<1>3. /\ Len(markets') = MarketCount /\ MarketCount \in Nat
      /\ markets' \in Seq(MarketRecords) /\ proposals' \in Seq(ProposalRecords)
      /\ cooling' \subseteq Votes /\ impl' \in 0 .. runs /\ setters' \subseteq 0 .. runs
      /\ disabled' \subseteq Collaterals /\ limits' \subseteq Nat /\ runs' = runs
  BY DEF RolloutTypeOK, votingVars, chainVars, MarketCount
<1>. QED
  BY <1>2, <1>3, FrameType

\* A change of one market keeps the types of the list.
LEMMA MarketChangeType ==
    ASSUME RolloutTypeOK, NEW i \in DOMAIN markets, NEW m \in MarketRecords,
           markets' = [markets EXCEPT ![i] = m]
    PROVE  /\ markets' \in Seq(MarketRecords)
           /\ DOMAIN markets' = DOMAIN markets
           /\ Len(markets') = MarketCount
<1>. QED
  BY DEF RolloutTypeOK, MarketCount

\* A step of the activation that changes the markets, but not how many.
LEMMA MarketsOnlyType ==
    ASSUME RolloutTypeOK, UNCHANGED <<votingVars, impl, setters, disabled, limits, runs, crashes>>,
           markets' \in Seq(MarketRecords), DOMAIN markets' = DOMAIN markets,
           Len(markets') = MarketCount, wallet' \subseteq Collaterals,
           script' \in ScriptRecords,
           script'.mode = "execute" => script'.todo # <<>>,
           script'.mode = "deploy" => runs >= 1
    PROVE  RolloutTypeOK'
<1>1. ScriptRecords' = ScriptRecords
  BY DEF ScriptRecords, DeployRecords, ExecuteRecords, ActivateRecords, votingVars
<1>2. ScriptTyped'
  BY <1>1 DEF ScriptTyped
<1>3. /\ Len(markets') >= MarketCount
      /\ proposals' \in Seq(ProposalRecords) /\ crashes' \in Nat
      /\ cooling' \subseteq Votes /\ impl' \in 0 .. runs /\ setters' \subseteq 0 .. runs
      /\ disabled' \subseteq Collaterals /\ limits' \subseteq Nat /\ runs' = runs
  BY DEF RolloutTypeOK, votingVars, MarketCount
<1>. QED
  BY <1>2, <1>3, FrameType

\* The next collateral, or the end of the activation.
LEMMA ActivateMoves ==
    ASSUME RolloutTypeOK, script.mode = "activate"
    PROVE  /\ Planned \in DOMAIN markets
           /\ script.at \in Collaterals
           /\ [script EXCEPT !.seeding = TRUE] \in ScriptRecords
           /\ NextPool \in ScriptRecords /\ NotRunning \in ScriptRecords
           /\ [script EXCEPT !.seeding = TRUE].mode = "activate"
           /\ NextPool.mode \in {"activate", "idle"} /\ NotRunning.mode = "idle"
<1>1. script \in ActivateRecords
  BY ScriptMode
<1>2. /\ Planned \in DOMAIN markets /\ script.at \in 1 .. K
      /\ script.plan \in [Collaterals -> DOMAIN markets]
  BY <1>1 DEF ActivateRecords, Planned, Collaterals
<1>3. [script EXCEPT !.seeding = TRUE] \in ActivateRecords
  BY <1>1 DEF ActivateRecords
<1>4. script.at # K => [script EXCEPT !.at = @ + 1, !.seeding = FALSE] \in ActivateRecords
  <2> SUFFICES ASSUME script.at # K
               PROVE  [script EXCEPT !.at = @ + 1, !.seeding = FALSE] \in ActivateRecords
    OBVIOUS
  <2> DEFINE Plans == [Collaterals -> DOMAIN markets]
  <2>1. script.at + 1 \in Collaterals
    BY <1>2, RolloutAssumption DEF Collaterals
  <2>2. script \in [mode : {"activate"}, at : Collaterals, seeding : BOOLEAN, plan : Plans]
    BY <1>1 DEF ActivateRecords
  <2> HIDE DEF Plans
  <2>3. [script EXCEPT !.at = @ + 1, !.seeding = FALSE]
            \in [mode : {"activate"}, at : Collaterals, seeding : BOOLEAN, plan : Plans]
    BY <2>1, <2>2
  <2>. QED
    BY <2>3 DEF ActivateRecords, Plans
<1>5. \A s \in ActivateRecords : s.mode = "activate"
  BY DEF ActivateRecords
<1>6. NotRunning.mode = "idle"
  BY DEF NotRunning
<1>. QED
  BY <1>2, <1>3, <1>4, <1>5, <1>6 DEF NextPool, ScriptRecords, Collaterals

\* Every step keeps the types.
LEMMA TypeStep == RolloutTypeOK /\ [RolloutNext]_rolloutVars => RolloutTypeOK'
<1> SUFFICES ASSUME RolloutTypeOK, [RolloutNext]_rolloutVars PROVE RolloutTypeOK'
  OBVIOUS
<1> DEFINE Frame == /\ runs' = runs /\ crashes' \in Nat /\ wallet' \subseteq Collaterals
                    /\ proposals' \in Seq(ProposalRecords) /\ cooling' \subseteq Votes
                    /\ impl' \in 0 .. runs /\ setters' \subseteq 0 .. runs
                    /\ markets' \in Seq(MarketRecords) /\ Len(markets') >= MarketCount
                    /\ disabled' \subseteq Collaterals /\ limits' \subseteq Nat
<1>0. /\ runs \in Nat /\ crashes \in Nat /\ wallet \subseteq Collaterals
      /\ proposals \in Seq(ProposalRecords) /\ cooling \subseteq Votes
      /\ impl \in 0 .. runs /\ setters \subseteq 0 .. runs
      /\ markets \in Seq(MarketRecords) /\ MarketCount \in Nat
      /\ disabled \subseteq Collaterals /\ limits \subseteq Nat /\ ScriptTyped
  BY DEF RolloutTypeOK, MarketCount, ScriptTyped
<1>a. Frame /\ ScriptTyped' => RolloutTypeOK'
  BY FrameType
<1>b. NotRunning \in ScriptRecords /\ NotRunning.mode = "idle"
  BY DEF ScriptRecords, NotRunning
<1>1. CASE AnyoneExecutes
  <2>1. PICK i \in DOMAIN proposals : ExecuteProposal(i)
    BY <1>1 DEF AnyoneExecutes
  <2>2. UNCHANGED <<wallet, runs, script, crashes>>
    BY <1>1 DEF AnyoneExecutes, operatorVars
  <2>3. Frame /\ DOMAIN proposals' = DOMAIN proposals
    BY <1>0, <2>1, <2>2, ExecuteType
  <2>4. ScriptTyped'
    BY <1>0, <2>2, <2>3, ScriptRecordsGrow DEF ScriptTyped
  <2>. QED
    BY <1>a, <2>3, <2>4
<1>2. CASE VotersPass
  <2>1. PICK i \in DOMAIN proposals : PassVote(i)
    BY <1>2 DEF VotersPass
  <2>2. proposals' \in Seq(ProposalRecords) /\ DOMAIN proposals' = DOMAIN proposals
    BY <2>1, StatusType DEF PassVote, Statuses
  <2>3. UNCHANGED <<impl, setters, markets, disabled, limits, wallet, runs, script, crashes, cooling>>
    BY <1>2, <2>1 DEF VotersPass, PassVote, chainVars, operatorVars
  <2>4. Frame
    BY <1>0, <2>2, <2>3 DEF MarketCount
  <2>5. ScriptTyped'
    BY <1>0, <2>2, <2>3, <2>4, ScriptRecordsGrow DEF ScriptTyped
  <2>. QED
    BY <1>a, <2>4, <2>5
<1>3. CASE RolloutDayPasses
  <2>1. /\ UNCHANGED <<proposals, impl, setters, markets, disabled, limits, wallet, runs, script, crashes>>
        /\ cooling' = {}
    BY <1>3 DEF RolloutDayPasses, CooldownEnds, chainVars, operatorVars
  <2>2. Frame
    BY <1>0, <2>1 DEF MarketCount
  <2>3. ScriptTyped'
    BY <1>0, <2>1, <2>2, ScriptRecordsGrow DEF ScriptTyped
  <2>. QED
    BY <1>a, <2>2, <2>3
<1>4. CASE ForeignVoteAddsMarket
  <2>1. PICK c \in ForeignCollaterals : markets' = Append(markets, NewMarket(c, 0))
    BY <1>4 DEF ForeignVoteAddsMarket
  <2>2. UNCHANGED <<impl, setters, disabled, limits, proposals, cooling, wallet, runs, script, crashes>>
    BY <1>4 DEF ForeignVoteAddsMarket, votingVars, operatorVars
  <2>3. c \in Collaterals \cup {NoCollateral} /\ 0 \in 0 .. runs
    BY <1>0, RolloutAssumption DEF Collaterals, NoCollateral
  <2>4. markets' \in Seq(MarketRecords) /\ Len(markets') = MarketCount + 1
    BY <2>1, <2>3, AppendType
  <2>5. Frame
    BY <1>0, <2>2, <2>4
  <2>6. ScriptTyped'
    BY <1>0, <2>2, <2>5, ScriptRecordsGrow DEF ScriptTyped
  <2>. QED
    BY <1>a, <2>5, <2>6
<1>5. CASE UserDeposits
  <2>1. PICK i \in DOMAIN markets : markets' = [markets EXCEPT ![i].held = TRUE]
    BY <1>5 DEF UserDeposits
  <2>2. UNCHANGED <<impl, setters, disabled, limits, votingVars, wallet, runs, script, crashes>>
    BY <1>5 DEF UserDeposits, operatorVars
  <2>3. [markets[i] EXCEPT !.held = TRUE] \in MarketRecords
    BY MarketType DEF MarketRecords
  <2>4. /\ markets' \in Seq(MarketRecords) /\ DOMAIN markets' = DOMAIN markets
        /\ Len(markets') = MarketCount
    BY <2>1, <2>3, MarketChangeType
  <2>. QED
    BY <1>0, <2>2, <2>4, MarketsOnlyType DEF ScriptTyped
<1>6. CASE StartDeploy
  <2>1. /\ UNCHANGED <<votingVars, chainVars, wallet, crashes>>
        /\ runs' = runs + 1
        /\ script' = [mode |-> "deploy", n |-> MarketCount, next |-> 0]
    BY <1>6 DEF StartDeploy
  <2>2. /\ runs \in Nat /\ 0 .. runs \subseteq 0 .. runs' /\ 1 .. runs \subseteq 1 .. runs'
        /\ runs' >= 1
    BY <1>0, <2>1
  <2>3. MarketRecords \subseteq MarketRecords' /\ VoteRecords \subseteq VoteRecords'
    BY <2>2 DEF MarketRecords, VoteRecords
  <2>4. ProposalRecords \subseteq ProposalRecords'
    BY <2>3 DEF ProposalRecords
  <2>5. script' \in DeployRecords /\ script'.mode = "deploy"
    BY <1>0, <2>1, RolloutAssumption DEF DeployRecords
  <2>6. DeployRecords \subseteq ScriptRecords'
    BY DEF DeployRecords, ScriptRecords
  <2>7. proposals' \in Seq(ProposalRecords') /\ markets' \in Seq(MarketRecords')
    BY <1>0, <2>1, <2>3, <2>4 DEF votingVars, chainVars
  <2>. QED
    BY <2>1, <2>2, <2>5, <2>6, <2>7 DEF RolloutTypeOK, votingVars, chainVars, MarketCount
<1>7. CASE CheckHybridLimits
  <2>1. UNCHANGED <<votingVars, chainVars, wallet, runs, crashes>>
    BY <1>7 DEF CheckHybridLimits
  <2>2. script \in DeployRecords
    BY <1>7, ScriptMode DEF CheckHybridLimits
  <2>3. [script EXCEPT !.next = 1] \in DeployRecords /\ [script EXCEPT !.next = 1].mode = "deploy"
    BY <2>2, RolloutAssumption DEF DeployRecords
  <2>4. script' = [script EXCEPT !.next = 1] \/ script' = NotRunning
    BY <1>7 DEF CheckHybridLimits
  <2>5. script' \in ScriptRecords /\ script'.mode # "execute" /\ runs >= 1
    BY <1>7, <1>0, <1>b, <2>3, <2>4 DEF ScriptRecords, ScriptTyped, CheckHybridLimits
  <2>. QED
    BY <1>0, <2>1, <2>5, ScriptOnlyType
<1>8. CASE CreateVote
  <2>0. script \in DeployRecords /\ runs >= 1
    BY <1>0, <1>8, ScriptMode DEF CreateVote, ScriptTyped
  <2>1. /\ UNCHANGED <<impl, setters, markets, disabled, limits, wallet, runs, crashes>>
        /\ script.next \in Votes /\ script.next \in 1 .. K + 2 /\ script.n \in Nat
    BY <1>8, <2>0 DEF CreateVote, chainVars, Votes, DeployRecords
  <2>2. CASE script.next \in cooling
    <3>1. script' = NotRunning /\ UNCHANGED votingVars
      BY <1>8, <2>2 DEF CreateVote
    <3>. QED
      BY <1>0, <1>b, <2>1, <3>1, ScriptOnlyType DEF chainVars
  <2>3. CASE script.next \notin cooling
    <3> DEFINE v == [run |-> runs, vote |-> script.next, n |-> script.n]
               p == [by |-> script.next, vote |-> v, status |-> "open"]
               s == [script EXCEPT !.next = @ + 1]
    <3>1. proposals' = Append(proposals, p) /\ cooling' = cooling \cup {script.next}
      BY <1>8, <2>3 DEF CreateVote, CreateProposal
    <3>2. script' = NotRunning \/ (script' = s /\ script.next # K + 2)
      BY <1>8, <2>3 DEF CreateVote
    <3>3. script.next # K + 2 => s \in DeployRecords /\ s.mode = "deploy"
      BY <2>0, <2>1, RolloutAssumption DEF DeployRecords
    <3>4. p \in ProposalRecords
      <4>1. v \in VoteRecords
        BY <1>0, <2>0, <2>1 DEF VoteRecords
      <4>. QED
        BY <2>1, <4>1 DEF ProposalRecords, Statuses
    <3>5. proposals' \in Seq(ProposalRecords) /\ cooling' \subseteq Votes
      BY <1>0, <2>1, <3>1, <3>4
    <3>6. DeployRecords \subseteq ScriptRecords' /\ NotRunning \in ScriptRecords'
      BY DEF ScriptRecords, DeployRecords, NotRunning
    <3>7. ScriptTyped'
      BY <1>b, <2>0, <2>1, <3>2, <3>3, <3>6 DEF ScriptTyped
    <3>8. Frame
      BY <1>0, <2>1, <3>5 DEF MarketCount
    <3>. QED
      BY <1>a, <3>7, <3>8
  <2>. QED
    BY <2>2, <2>3
<1>9. CASE StartExecute
  <2>1. /\ UNCHANGED <<votingVars, chainVars, wallet, runs, crashes>>
        /\ script' = [mode |-> "execute", todo |-> Recent]
        /\ proposals # <<>>
    BY <1>9 DEF StartExecute
  <2>2. Len(proposals) \in Nat \ {0} /\ DOMAIN proposals = 1 .. Len(proposals)
    BY <1>0, <2>1
  <2>3. Recent \in Seq(DOMAIN proposals) /\ Recent # <<>>
    <3> DEFINE first == IF Len(proposals) > K + 2 THEN Len(proposals) - K - 1 ELSE 1
               m == Len(proposals) + 1 - first
    <3>0. Len(proposals) \in Int /\ Len(proposals) >= 1 /\ K \in Int /\ K >= 1
      BY <2>2, RolloutAssumption
    <3>1. /\ m \in Int /\ m >= 1 /\ first \in Int /\ first >= 1
          /\ first + m - 1 = Len(proposals)
      <4>1. CASE Len(proposals) > K + 2
        BY <3>0, <4>1
      <4>2. CASE ~(Len(proposals) > K + 2)
        BY <3>0, <4>2
      <4>. QED
        BY <4>1, <4>2
    <3>2. Recent = [i \in 1 .. m |-> first + i - 1]
      BY DEF Recent
    <3> HIDE DEF first, m
    <3>3. \A i \in 1 .. m : first + i - 1 \in DOMAIN proposals
      BY <2>2, <3>1
    <3>4. Recent \in [1 .. m -> DOMAIN proposals]
      BY <3>2, <3>3
    <3>5. Len(Recent) = m
      BY <3>1, <3>2
    <3>. QED
      BY <3>1, <3>4, <3>5
  <2>4. script' \in ExecuteRecords /\ script'.mode = "execute" /\ script'.todo # <<>>
    BY <2>1, <2>3 DEF ExecuteRecords
  <2>5. script' \in ScriptRecords
    BY <2>4 DEF ScriptRecords
  <2>. QED
    BY <1>0, <2>1, <2>4, <2>5, ScriptOnlyType
<1>10. CASE ExecuteNext
  <2>0. script \in ExecuteRecords /\ script.todo # <<>>
    BY <1>0, <1>10, ScriptMode DEF ExecuteNext, ScriptTyped
  <2>1. UNCHANGED <<wallet, runs, crashes>>
    BY <1>10 DEF ExecuteNext
  <2>2. script.todo \in Seq(DOMAIN proposals) /\ Head(script.todo) \in DOMAIN proposals
    BY <2>0 DEF ExecuteRecords
  <2> DEFINE next == Finished(script.todo)
  <2>3. /\ next \in ScriptRecords
        /\ next.mode = "execute" => next.todo # <<>>
        /\ next.mode # "deploy"
    <3>1. CASE Len(script.todo) = 1
      BY <1>b, <3>1 DEF Finished
    <3>2. CASE Len(script.todo) # 1
      <4>1. Tail(script.todo) \in Seq(DOMAIN proposals) /\ Tail(script.todo) # <<>>
        <5>1. Len(script.todo) \in Nat /\ Len(script.todo) # 0
          BY <2>0, <2>2, EmptySeq
        <5>2. Tail(script.todo) \in Seq(DOMAIN proposals) /\ Len(Tail(script.todo)) = Len(script.todo) - 1
          BY <2>0, <2>2, HeadTailProperties
        <5>3. Len(Tail(script.todo)) # 0
          BY <3>2, <5>1, <5>2
        <5>. QED
          BY <5>2, <5>3, EmptySeq
      <4>2. next \in ExecuteRecords /\ next.mode = "execute" /\ next.todo # <<>>
        BY <3>2, <4>1 DEF Finished, ExecuteRecords
      <4>. QED
        BY <4>2 DEF ScriptRecords
    <3>. QED
      BY <3>1, <3>2
  <2>4. CASE ExecuteProposal(Head(script.todo)) /\ script' = next
    <3> HIDE DEF next
    <3>1. Frame /\ DOMAIN proposals' = DOMAIN proposals
      BY <1>0, <2>1, <2>2, <2>4, ExecuteType
    <3>2. ScriptTyped'
      BY <2>3, <2>4, <3>1, ScriptRecordsGrow DEF ScriptTyped
    <3>. QED
      BY <1>a, <3>1, <3>2
  <2>5. CASE UNCHANGED <<votingVars, chainVars>> /\ script' \in {NotRunning, next}
    <3> HIDE DEF next
    <3>. QED
      BY <1>0, <1>b, <2>1, <2>3, <2>5, ScriptOnlyType
  <2>. QED
    BY <1>10, <2>4, <2>5 DEF ExecuteNext
<1>11. CASE StartActivation
  <2>1. UNCHANGED <<votingVars, chainVars, wallet, runs, crashes>>
    BY <1>11 DEF StartActivation
  <2>2. \A c \in Collaterals : Discovered(c) \in DOMAIN markets
    BY <1>11, DiscoveredType DEF StartActivation
  <2>3. script' = [mode |-> "activate", at |-> 1, seeding |-> FALSE,
                   plan |-> [c \in Collaterals |-> Discovered(c)]]
    BY <1>11 DEF StartActivation
  <2>4. script' \in ActivateRecords /\ script'.mode = "activate"
    BY <2>2, <2>3, RolloutAssumption DEF ActivateRecords, Collaterals
  <2>5. script' \in ScriptRecords
    BY <2>4 DEF ScriptRecords
  <2>. QED
    BY <1>0, <2>1, <2>4, <2>5, ScriptOnlyType
<1>12. CASE InitializePool
  <2>1. UNCHANGED <<votingVars, impl, setters, disabled, limits, wallet, runs, crashes>>
    BY <1>12 DEF InitializePool
  <2>2. script.mode = "activate" /\ Planned \in DOMAIN markets
    BY <1>12, ActivateMoves DEF InitializePool
  <2>3. script' = [script EXCEPT !.seeding = TRUE] \/ script' = NotRunning
    BY <1>12 DEF InitializePool
  <2>4. script' \in ScriptRecords /\ script'.mode \in {"activate", "idle"}
    BY <2>2, <2>3, ActivateMoves
  <2>5. CASE UNCHANGED markets
    BY <1>0, <2>1, <2>4, <2>5, ScriptOnlyType DEF chainVars
  <2>6. CASE markets' = [markets EXCEPT ![Planned].ready = TRUE]
    <3>1. [markets[Planned] EXCEPT !.ready = TRUE] \in MarketRecords
      BY <2>2, MarketType DEF MarketRecords
    <3>2. /\ markets' \in Seq(MarketRecords) /\ DOMAIN markets' = DOMAIN markets
          /\ Len(markets') = MarketCount
      BY <2>2, <2>6, <3>1, MarketChangeType
    <3>. QED
      BY <1>0, <2>1, <2>4, <3>2, MarketsOnlyType
  <2>. QED
    BY <1>12, <2>5, <2>6 DEF InitializePool
<1>13. CASE SeedMarket
  <2>1. UNCHANGED <<votingVars, impl, setters, disabled, limits, runs, crashes>>
    BY <1>13 DEF SeedMarket
  <2>2. script.mode = "activate" /\ Planned \in DOMAIN markets
    BY <1>13, ActivateMoves DEF SeedMarket
  <2>3. script' \in ScriptRecords /\ script'.mode \in {"activate", "idle"}
    BY <1>13, <2>2, ActivateMoves DEF SeedMarket
  <2>4. wallet' \subseteq Collaterals
    BY <1>0, <1>13 DEF SeedMarket
  <2>5. CASE UNCHANGED markets
    BY <1>0, <2>1, <2>3, <2>4, <2>5, ScriptOnlyType DEF chainVars
  <2>6. CASE markets' = [markets EXCEPT ![Planned].held = TRUE, ![Planned].seeds = @ + 1]
    <3> DEFINE m == [markets[Planned] EXCEPT !.held = TRUE, !.seeds = @ + 1]
    <3>1. m \in MarketRecords
      <4>1. markets[Planned] \in MarketRecords /\ markets[Planned].seeds \in Nat
        BY <2>2, MarketType DEF MarketRecords
      <4>2. markets[Planned].seeds + 1 \in Nat
        BY <4>1
      <4>. QED
        BY <4>1, <4>2 DEF MarketRecords
    <3>2. markets' = [markets EXCEPT ![Planned] = m]
      BY <1>0, <2>2, <2>6
    <3> HIDE DEF m
    <3>3. /\ markets' \in Seq(MarketRecords) /\ DOMAIN markets' = DOMAIN markets
          /\ Len(markets') = MarketCount
      BY <2>2, <3>1, <3>2, MarketChangeType
    <3>. QED
      BY <1>0, <2>1, <2>3, <2>4, <3>3, MarketsOnlyType
  <2>. QED
    BY <1>13, <2>5, <2>6 DEF SeedMarket
<1>14. CASE Fund
  <2>1. UNCHANGED <<votingVars, chainVars, runs, script, crashes>> /\ wallet' = Collaterals
    BY <1>14 DEF Fund
  <2>. QED
    BY <1>0, <2>1, ScriptOnlyType DEF ScriptTyped
<1>15. CASE Crash
  <2>1. /\ UNCHANGED <<votingVars, chainVars, wallet, runs>> /\ script' = NotRunning
        /\ crashes' = crashes + 1
    BY <1>15 DEF Crash
  <2>2. crashes' \in Nat
    BY <1>0, <2>1
  <2>. QED
    BY <1>0, <1>b, <2>1, <2>2, ScriptOnlyType
<1>16. CASE UNCHANGED rolloutVars
  <2>1. UNCHANGED <<votingVars, chainVars, wallet, runs, script, crashes>>
    BY <1>16 DEF rolloutVars, operatorVars
  <2>. QED
    BY <1>0, <2>1, ScriptOnlyType DEF ScriptTyped
<1>. QED
  BY <1>1, <1>2, <1>3, <1>4, <1>5, <1>6, <1>7, <1>8, <1>9, <1>10, <1>11, <1>12,
     <1>13, <1>14, <1>15, <1>16 DEF RolloutNext, ChainSteps, ScriptSteps

---------------------------------------------------------------------------
(* The kinds of steps. *)

SameVotes ==
    /\ Len(proposals') = Len(proposals)
    /\ \A i \in 1 .. Len(proposals) : proposals'[i].vote = proposals[i].vote

SameMarkets ==
    /\ Len(markets') = MarketCount
    /\ \A i \in 1 .. MarketCount :
           /\ markets'[i].coin = markets[i].coin
           /\ markets'[i].run = markets[i].run
           /\ markets'[i].code = markets[i].code

\* Nothing that identifies a vote or a market changes.
Quiet == SameVotes /\ SameMarkets /\ UNCHANGED <<disabled, limits>>

\* The script creates a proposal.
Created ==
    /\ script.mode = "deploy"
    /\ \E p \in ProposalRecords :
           proposals' = Append(proposals, p) /\ p.vote.n = script.n
    /\ UNCHANGED <<markets, disabled, limits>>

\* A market vote is executed.
Replaced ==
    \E i \in DOMAIN proposals :
        LET v == proposals[i].vote
        IN  /\ SameVotes
            /\ v.vote \in 2 .. K + 1
            /\ impl = v.run /\ MarketCount = v.n + (v.vote - 2)
            /\ markets' = Append(markets, NewMarket(v.vote - 1, v.run))
            /\ disabled' = disabled \cup {v.vote - 1}
            /\ limits' = limits

\* The vote for the hybrid vaults is executed.
Switched ==
    \E i \in DOMAIN proposals :
        LET v == proposals[i].vote
        IN  /\ SameVotes
            /\ MarketCount = v.n + K
            /\ limits' = (limits \cup (v.n + 1 .. v.n + K)) \ {K}
            /\ UNCHANGED <<markets, disabled>>

\* Another proposal adds a market.
Foreign ==
    /\ SameVotes
    /\ \E c \in ForeignCollaterals : markets' = Append(markets, NewMarket(c, 0))
    /\ UNCHANGED <<disabled, limits>>

\* A step that changes neither proposals nor markets is quiet.
LEMMA UnchangedIsQuiet ==
    ASSUME UNCHANGED <<proposals, markets, disabled, limits>> PROVE Quiet
<1>. QED
  BY DEF Quiet, SameVotes, SameMarkets, MarketCount

\* Executing a proposal is one of three kinds.
LEMMA ExecuteKind ==
    ASSUME RolloutTypeOK, NEW i \in DOMAIN proposals, ExecuteProposal(i)
    PROVE  Quiet \/ Replaced \/ Switched
<1> DEFINE v == proposals[i].vote
<1>1. v.vote \in 1 .. K + 2 /\ v \in VoteRecords
  BY ProposalType
<1>2. SameVotes
  BY DEF ExecuteProposal, MarkExecuted, SameVotes, RolloutTypeOK
<1>3. GuardsHold(v) /\ RolloutVoteEffect(v)
  BY DEF ExecuteProposal
<1>4. CASE v.vote = 1
  <2>1. InstallCode(v)
    BY <1>3, <1>4, RolloutAssumption DEF RolloutVoteEffect
  <2>. QED
    BY <1>2, <2>1 DEF InstallCode, Quiet, SameMarkets, MarketCount
<1>5. CASE v.vote \in 2 .. K + 1
  <2>1. v.vote # 1 /\ v.vote # K + 2
    BY <1>5, RolloutAssumption
  <2>2. impl = v.run /\ MarketCount = v.n + (v.vote - 2)
    BY <1>3, <2>1 DEF GuardsHold
  <2>3. ReplaceMarket(v)
    BY <1>3, <2>1 DEF RolloutVoteEffect
  <2>. QED
    BY <1>2, <1>5, <2>2, <2>3 DEF Replaced, ReplaceMarket
<1>6. CASE v.vote = K + 2
  <2>1. v.vote # 1 /\ v.vote \notin 2 .. K + 1
    BY <1>6, RolloutAssumption
  <2>2. MarketCount = v.n + K
    BY <1>3, <1>6, <2>1 DEF GuardsHold
  <2>3. SwitchHybrid(v)
    BY <1>3, <2>1 DEF RolloutVoteEffect
  <2>. QED
    BY <1>2, <2>2, <2>3 DEF Switched, SwitchHybrid
<1>. QED
  BY <1>1, <1>4, <1>5, <1>6, RolloutAssumption

\* A change of one market's readiness, supply or seeds is quiet.
LEMMA MarketChangeIsQuiet ==
    ASSUME RolloutTypeOK, NEW i \in DOMAIN markets, NEW m,
           m.coin = markets[i].coin, m.run = markets[i].run, m.code = markets[i].code,
           markets' = [markets EXCEPT ![i] = m],
           UNCHANGED <<proposals, disabled, limits>>
    PROVE  Quiet
<1>. QED
  BY DEF Quiet, SameVotes, SameMarkets, MarketCount, RolloutTypeOK

\* Every step is of one of these kinds.
LEMMA StepKinds ==
    ASSUME RolloutTypeOK, [RolloutNext]_rolloutVars
    PROVE  Quiet \/ Created \/ Replaced \/ Switched \/ Foreign
<1>1. CASE AnyoneExecutes
  BY <1>1, ExecuteKind DEF AnyoneExecutes
<1>2. CASE VotersPass
  <2>1. PICK i \in DOMAIN proposals : PassVote(i)
    BY <1>2 DEF VotersPass
  <2>2. SameVotes
    BY <2>1 DEF PassVote, SameVotes, RolloutTypeOK
  <2>. QED
    BY <1>2, <2>2 DEF VotersPass, chainVars, Quiet, SameMarkets, MarketCount
<1>3. CASE RolloutDayPasses
  BY <1>3, UnchangedIsQuiet DEF RolloutDayPasses, CooldownEnds, chainVars
<1>4. CASE ForeignVoteAddsMarket
  BY <1>4 DEF ForeignVoteAddsMarket, votingVars, Foreign, SameVotes
<1>5. CASE UserDeposits
  <2>1. PICK i \in DOMAIN markets : markets' = [markets EXCEPT ![i].held = TRUE]
    BY <1>5 DEF UserDeposits
  <2> DEFINE m == [markets[i] EXCEPT !.held = TRUE]
  <2>2. m.coin = markets[i].coin /\ m.run = markets[i].run /\ m.code = markets[i].code
    BY MarketType DEF MarketRecords
  <2>3. markets' = [markets EXCEPT ![i] = m]
    BY <2>1
  <2> HIDE DEF m
  <2>. QED
    BY <1>5, <2>2, <2>3, MarketChangeIsQuiet DEF UserDeposits, votingVars
<1>6. CASE StartDeploy
  BY <1>6, UnchangedIsQuiet DEF StartDeploy, votingVars, chainVars
<1>7. CASE CheckHybridLimits
  BY <1>7, UnchangedIsQuiet DEF CheckHybridLimits, votingVars, chainVars
<1>8. CASE CreateVote
  <2>1. UNCHANGED <<markets, disabled, limits>> /\ script.mode = "deploy"
    BY <1>8 DEF CreateVote, chainVars
  <2>2. CASE script.next \in cooling
    BY <1>8, <2>1, <2>2, UnchangedIsQuiet DEF CreateVote, votingVars
  <2>3. CASE script.next \notin cooling
    <3> DEFINE v == [run |-> runs, vote |-> script.next, n |-> script.n]
               p == [by |-> script.next, vote |-> v, status |-> "open"]
    <3>1. proposals' = Append(proposals, p)
      BY <1>8, <2>3 DEF CreateVote, CreateProposal
    <3>2. p \in ProposalRecords
      <4>1. script \in DeployRecords /\ runs \in Nat /\ runs >= 1
        BY <2>1, ScriptMode DEF RolloutTypeOK
      <4>2. v \in VoteRecords
        BY <1>8, <4>1 DEF VoteRecords, DeployRecords, CreateVote
      <4>. QED
        BY <1>8, <4>2 DEF ProposalRecords, Statuses, CreateVote
    <3>. QED
      BY <2>1, <3>1, <3>2 DEF Created
  <2>. QED
    BY <2>2, <2>3
<1>9. CASE StartExecute
  BY <1>9, UnchangedIsQuiet DEF StartExecute, votingVars, chainVars
<1>10. CASE ExecuteNext
  <2>1. script.todo \in Seq(DOMAIN proposals) /\ script.todo # <<>>
    BY <1>10, ScriptMode DEF ExecuteNext, ExecuteRecords, RolloutTypeOK
  <2>2. Head(script.todo) \in DOMAIN proposals
    BY <2>1
  <2>. QED
    BY <1>10, <2>2, ExecuteKind, UnchangedIsQuiet DEF ExecuteNext, votingVars, chainVars
<1>11. CASE StartActivation
  BY <1>11, UnchangedIsQuiet DEF StartActivation, votingVars, chainVars
<1>12. CASE InitializePool
  <2>1. UNCHANGED <<proposals, disabled, limits>> /\ Planned \in DOMAIN markets
    BY <1>12, ActivateMoves DEF InitializePool, votingVars
  <2>2. CASE UNCHANGED markets
    BY <2>1, <2>2, UnchangedIsQuiet
  <2>3. CASE markets' = [markets EXCEPT ![Planned].ready = TRUE]
    <3> DEFINE m == [markets[Planned] EXCEPT !.ready = TRUE]
    <3>1. m.coin = markets[Planned].coin /\ m.run = markets[Planned].run /\ m.code = markets[Planned].code
      BY <2>1, MarketType DEF MarketRecords
    <3>2. markets' = [markets EXCEPT ![Planned] = m]
      BY <2>3
    <3> HIDE DEF m
    <3>. QED
      BY <2>1, <3>1, <3>2, MarketChangeIsQuiet
  <2>. QED
    BY <1>12, <2>2, <2>3 DEF InitializePool
<1>13. CASE SeedMarket
  <2>1. UNCHANGED <<proposals, disabled, limits>> /\ Planned \in DOMAIN markets
    BY <1>13, ActivateMoves DEF SeedMarket, votingVars
  <2>2. CASE UNCHANGED markets
    BY <2>1, <2>2, UnchangedIsQuiet
  <2>3. CASE markets' = [markets EXCEPT ![Planned].held = TRUE, ![Planned].seeds = @ + 1]
    <3> DEFINE m == [markets[Planned] EXCEPT !.held = TRUE, !.seeds = @ + 1]
    <3>1. m.coin = markets[Planned].coin /\ m.run = markets[Planned].run /\ m.code = markets[Planned].code
      BY <2>1, MarketType DEF MarketRecords
    <3>2. markets' = [markets EXCEPT ![Planned] = m]
      BY <2>1, <2>3 DEF RolloutTypeOK
    <3> HIDE DEF m
    <3>. QED
      BY <2>1, <3>1, <3>2, MarketChangeIsQuiet
  <2>. QED
    BY <1>13, <2>2, <2>3 DEF SeedMarket
<1>14. CASE Fund
  BY <1>14, UnchangedIsQuiet DEF Fund, votingVars, chainVars
<1>15. CASE Crash
  BY <1>15, UnchangedIsQuiet DEF Crash, votingVars, chainVars
<1>16. CASE UNCHANGED rolloutVars
  BY <1>16, UnchangedIsQuiet DEF rolloutVars, votingVars, chainVars
<1>. QED
  BY <1>1, <1>2, <1>3, <1>4, <1>5, <1>6, <1>7, <1>8, <1>9, <1>10, <1>11, <1>12,
     <1>13, <1>14, <1>15, <1>16 DEF RolloutNext, ChainSteps, ScriptSteps

---------------------------------------------------------------------------
(* The inductive invariant. *)

Base == proposals[1].vote.n

\* The count of markets that a vote or a deploying script remembers is a
\* count the factory had; before the first proposal nothing has changed.
CountsOK ==
    /\ \A i \in 1 .. Len(proposals) :
           K <= proposals[i].vote.n /\ proposals[i].vote.n <= MarketCount
    /\ script.mode = "deploy" => K <= script.n /\ script.n <= MarketCount
    /\ proposals = <<>> => OwnMarkets = {} /\ limits = {K}

\* Undisturbed, the markets of the votes come in the order of the votes.
Order ==
    Undisturbed /\ proposals # <<>> =>
        \A i \in OwnMarkets : i > Base /\ markets[i].coin = i - Base

\* Undisturbed, the old WETH market loses its limit to all the new ones.
Switch ==
    /\ limits \subseteq 1 .. MarketCount
    /\ Undisturbed /\ K \notin limits => Base + 1 .. Base + K \subseteq limits

RolloutInv ==
    /\ RolloutTypeOK /\ NewMarketsRunTheirOwnCode
    /\ CountsOK /\ Order /\ Switch

\* Typed facts about a market or a vote.
LEMMA OwnType ==
    ASSUME RolloutTypeOK
    PROVE  /\ MarketCount \in Nat /\ MarketCount >= K /\ K \in Nat /\ K >= 1
           /\ DOMAIN markets = 1 .. MarketCount
           /\ Len(proposals) \in Nat /\ DOMAIN proposals = 1 .. Len(proposals)
           /\ \A i \in 1 .. MarketCount : markets[i].run \in Nat
           /\ \A i \in 1 .. Len(proposals) :
                  proposals[i].vote.n \in Nat /\ proposals[i].vote.run >= 1
<1>1. \A i \in 1 .. MarketCount : markets[i].run \in Nat
  <2>1. \A i \in 1 .. MarketCount : markets[i] \in MarketRecords
    BY DEF RolloutTypeOK, MarketCount
  <2>2. \A i \in 1 .. MarketCount : markets[i].run \in 0 .. runs
    BY <2>1 DEF MarketRecords
  <2>. QED
    BY <2>2 DEF RolloutTypeOK
<1>2. \A i \in 1 .. Len(proposals) :
          proposals[i].vote.n \in Nat /\ proposals[i].vote.run \in 1 .. runs
  <2>1. DOMAIN proposals = 1 .. Len(proposals)
    BY DEF RolloutTypeOK
  <2>. QED
    BY <2>1, ProposalType
<1>. QED
  BY <1>1, <1>2, RolloutAssumption DEF RolloutTypeOK, MarketCount

\* The markets when one is appended.
LEMMA MarketAppended ==
    ASSUME RolloutTypeOK, NEW c, NEW r \in Nat, markets' = Append(markets, NewMarket(c, r))
    PROVE  /\ Len(markets') = MarketCount + 1
           /\ \A i \in 1 .. MarketCount : markets'[i] = markets[i]
           /\ markets'[MarketCount + 1].coin = c
           /\ markets'[MarketCount + 1].run = r
           /\ markets'[MarketCount + 1].code = impl
           /\ OwnMarkets' = OwnMarkets \cup (IF r = 0 THEN {} ELSE {MarketCount + 1})
           /\ ForeignMarkets' = ForeignMarkets \cup (IF r = 0 THEN {MarketCount + 1} ELSE {})
<1>1. /\ Len(markets') = MarketCount + 1
      /\ \A i \in 1 .. MarketCount : markets'[i] = markets[i]
      /\ markets'[MarketCount + 1] = NewMarket(c, r)
  BY DEF RolloutTypeOK, MarketCount
<1>2. /\ NewMarket(c, r).coin = c /\ NewMarket(c, r).run = r /\ NewMarket(c, r).code = impl
  BY DEF NewMarket
<1>3. /\ MarketCount' = MarketCount + 1
      /\ MarketCount \in Nat /\ MarketCount >= K /\ K \in Nat
  BY <1>1, OwnType DEF MarketCount
<1>4. K + 1 .. MarketCount' = (K + 1 .. MarketCount) \cup {MarketCount + 1}
  BY <1>3
<1>5. /\ OwnMarkets' = {i \in K + 1 .. MarketCount' : markets'[i].run # 0}
      /\ ForeignMarkets' = {i \in K + 1 .. MarketCount' : markets'[i].run = 0}
      /\ OwnMarkets = {i \in K + 1 .. MarketCount : markets[i].run # 0}
      /\ ForeignMarkets = {i \in K + 1 .. MarketCount : markets[i].run = 0}
  BY DEF OwnMarkets, ForeignMarkets, IsForeign
<1>6. \A i \in K + 1 .. MarketCount : markets'[i].run = markets[i].run
  BY <1>1, <1>3
<1>7. markets'[MarketCount + 1].run = r /\ MarketCount + 1 \notin K + 1 .. MarketCount
  BY <1>1, <1>2, <1>3
<1>. QED
  BY <1>1, <1>2, <1>4, <1>5, <1>6, <1>7

\* The sets of markets when no market changes its identity.
LEMMA SameOwn ==
    ASSUME RolloutTypeOK, SameMarkets
    PROVE  /\ MarketCount' = MarketCount /\ OwnMarkets' = OwnMarkets
           /\ ForeignMarkets' = ForeignMarkets
           /\ \A i \in OwnMarkets :
                  i \in 1 .. MarketCount /\ markets'[i].coin = markets[i].coin
                  /\ markets'[i].run = markets[i].run /\ markets'[i].code = markets[i].code
<1>1. MarketCount \in Nat /\ K \in Nat /\ K >= 1
  BY OwnType
<1>2. \A i \in K + 1 .. MarketCount : i \in 1 .. MarketCount
  BY <1>1
<1>. QED
  <2>1. MarketCount' = MarketCount
    BY DEF SameMarkets, MarketCount
  <2>2. \A i \in K + 1 .. MarketCount : markets'[i].run = markets[i].run
    BY <1>2 DEF SameMarkets
  <2>3. OwnMarkets' = OwnMarkets /\ ForeignMarkets' = ForeignMarkets
    BY <2>1, <2>2 DEF OwnMarkets, ForeignMarkets, IsForeign
  <2>. QED
    BY <1>2, <2>1, <2>3 DEF SameMarkets, OwnMarkets

\* Without a change of the markets, the sets of markets stay.
LEMMA UnchangedOwn ==
    ASSUME UNCHANGED markets
    PROVE  MarketCount' = MarketCount /\ OwnMarkets' = OwnMarkets /\ ForeignMarkets' = ForeignMarkets
<1>. QED
  BY DEF OwnMarkets, ForeignMarkets, IsForeign, MarketCount

\* New markets run their own code, through every step.
LEMMA MarketsStep ==
    ASSUME RolloutInv, [RolloutNext]_rolloutVars
    PROVE  NewMarketsRunTheirOwnCode'
<1> USE DEF RolloutInv
<1>0. OwnMarkets \subseteq 1 .. MarketCount
  BY OwnType DEF OwnMarkets
<1>1. CASE Quiet
  <2>1. SameMarkets
    BY <1>1 DEF Quiet
  <2>. QED
    BY <2>1, SameOwn DEF NewMarketsRunTheirOwnCode
<1>2. CASE Created \/ Switched
  BY <1>2, UnchangedOwn DEF Created, Switched, NewMarketsRunTheirOwnCode
<1>3. CASE Replaced
  <2>1. PICK i \in DOMAIN proposals :
            LET v == proposals[i].vote
            IN  /\ v.vote \in 2 .. K + 1 /\ impl = v.run
                /\ markets' = Append(markets, NewMarket(v.vote - 1, v.run))
    BY <1>3 DEF Replaced
  <2> DEFINE v == proposals[i].vote
             k == MarketCount + 1
  <2>2. v.run \in Nat /\ v.run # 0 /\ v.vote - 1 \in Collaterals
    <3>1. v.run \in 1 .. runs /\ runs \in Nat
      BY ProposalType DEF RolloutTypeOK
    <3>2. v.vote \in 2 .. K + 1
      BY <2>1
    <3>. QED
      BY <3>1, <3>2, RolloutAssumption DEF Collaterals
  <2>3. /\ OwnMarkets' = OwnMarkets \cup {k}
        /\ \A j \in OwnMarkets : markets'[j] = markets[j]
        /\ markets'[k].coin = v.vote - 1 /\ markets'[k].run = v.run /\ markets'[k].code = impl
    BY <1>0, <2>1, <2>2, MarketAppended
  <2>4. impl = v.run
    BY <2>1
  <2> HIDE DEF v, k
  <2>. QED
    BY <2>3, <2>4 DEF NewMarketsRunTheirOwnCode
<1>4. CASE Foreign
  <2>1. PICK c \in ForeignCollaterals : markets' = Append(markets, NewMarket(c, 0))
    BY <1>4 DEF Foreign
  <2>2. OwnMarkets' = OwnMarkets /\ \A j \in OwnMarkets : markets'[j] = markets[j]
    BY <1>0, <2>1, MarketAppended
  <2>. QED
    BY <2>2 DEF NewMarketsRunTheirOwnCode
<1>. QED
  BY <1>1, <1>2, <1>3, <1>4, StepKinds

\* What a step does to the script's count of markets: it stays, or it is read.
LEMMA ScriptCount ==
    ASSUME RolloutInv, [RolloutNext]_rolloutVars, script'.mode = "deploy"
    PROVE  \/ script.mode = "deploy" /\ script'.n = script.n
           \/ script'.n = MarketCount
<1>1. CASE script' = script
  <2>. QED
    BY <1>1
<1>2. CASE StartDeploy
  BY <1>2 DEF StartDeploy
<1>3. CASE CheckHybridLimits \/ CreateVote
  <2>1. script.mode = "deploy"
    BY <1>3 DEF CheckHybridLimits, CreateVote
  <2>2. script \in DeployRecords
    BY <2>1, ScriptMode DEF RolloutInv
  <2>3. \E k : script' = [script EXCEPT !.next = k]
    BY <1>3 DEF CheckHybridLimits, CreateVote, NotRunning
  <2>. QED
    BY <2>1, <2>2, <2>3 DEF DeployRecords
<1>4. CASE StartExecute \/ ExecuteNext \/ StartActivation \/ Crash
  BY <1>4 DEF StartExecute, ExecuteNext, Finished, StartActivation, Crash, NotRunning
<1>5. CASE InitializePool \/ SeedMarket
  <2>1. script.mode = "activate"
    BY <1>5 DEF InitializePool, SeedMarket
  <2>2. script'.mode \in {"activate", "idle"}
    BY <1>5, <2>1, ActivateMoves DEF InitializePool, SeedMarket, RolloutInv
  <2>. QED
    BY <2>2
<1>6. CASE ChainSteps \/ Fund \/ UNCHANGED rolloutVars
  BY <1>1, <1>6 DEF ChainSteps, AnyoneExecutes, VotersPass, RolloutDayPasses, ForeignVoteAddsMarket,
     UserDeposits, Fund, rolloutVars, operatorVars
<1>. QED
  BY <1>2, <1>3, <1>4, <1>5, <1>6 DEF RolloutNext, ScriptSteps

\* How the votes go on: the same ones, or one more for the script's count.
LEMMA VotesGoOn ==
    ASSUME RolloutInv, [RolloutNext]_rolloutVars
    PROVE  /\ Len(proposals) \in Nat /\ Len(proposals') \in Nat /\ Len(proposals') >= Len(proposals)
           /\ \A i \in 1 .. Len(proposals) : proposals'[i].vote = proposals[i].vote
           /\ \A i \in 1 .. Len(proposals') :
                  i > Len(proposals) => script.mode = "deploy" /\ proposals'[i].vote.n = script.n
<1>0. Len(proposals) \in Nat /\ proposals \in Seq(ProposalRecords)
  BY OwnType DEF RolloutInv, RolloutTypeOK
<1>1. CASE SameVotes
  BY <1>0, <1>1 DEF SameVotes
<1>2. CASE Created
  <2>1. PICK p \in ProposalRecords : proposals' = Append(proposals, p) /\ p.vote.n = script.n
    BY <1>2 DEF Created
  <2>2. /\ Len(proposals') = Len(proposals) + 1
        /\ \A i \in 1 .. Len(proposals) : proposals'[i] = proposals[i]
        /\ proposals'[Len(proposals) + 1] = p
    BY <1>0, <2>1
  <2>. QED
    BY <1>0, <1>2, <2>1, <2>2 DEF Created
<1>. QED
  BY <1>1, <1>2, StepKinds DEF RolloutInv, Quiet, Replaced, Switched, Foreign

\* How the markets go on: there are never fewer.
LEMMA MarketsGoOn ==
    ASSUME RolloutInv, [RolloutNext]_rolloutVars
    PROVE  /\ MarketCount \in Nat /\ MarketCount' \in Nat /\ MarketCount' >= MarketCount
           /\ MarketCount >= K /\ K \in Nat /\ K >= 1
<1>0. MarketCount \in Nat /\ MarketCount >= K /\ K \in Nat /\ K >= 1
  BY OwnType DEF RolloutInv
<1>1. CASE Quiet
  BY <1>0, <1>1, SameOwn DEF RolloutInv, Quiet
<1>2. CASE Created \/ Switched
  BY <1>0, <1>2, UnchangedOwn DEF Created, Switched
<1>3. CASE Replaced \/ Foreign
  <2>1. \E m : markets' = Append(markets, m)
    BY <1>3 DEF Replaced, Foreign
  <2>2. Len(markets') = MarketCount + 1
    BY <2>1 DEF RolloutInv, RolloutTypeOK, MarketCount
  <2>. QED
    BY <1>0, <2>2 DEF MarketCount
<1>. QED
  BY <1>1, <1>2, <1>3, StepKinds DEF RolloutInv

\* The remembered counts stay counts the factory had.
LEMMA CountsStep == ASSUME RolloutInv, [RolloutNext]_rolloutVars PROVE CountsOK'
<1> DEFINE Remembered(q, m) ==
        \A i \in 1 .. Len(q) : K <= q[i].vote.n /\ q[i].vote.n <= m
<1>0. /\ MarketCount \in Nat /\ MarketCount' \in Nat /\ MarketCount' >= MarketCount
      /\ MarketCount >= K /\ K \in Nat
  BY MarketsGoOn
<1>1. Remembered(proposals', MarketCount')
  <2> SUFFICES ASSUME NEW i \in 1 .. Len(proposals')
               PROVE  K <= proposals'[i].vote.n /\ proposals'[i].vote.n <= MarketCount'
    OBVIOUS
  <2>1. CASE i <= Len(proposals)
    <3>1. i \in 1 .. Len(proposals)
      BY <2>1, VotesGoOn
    <3>2. proposals'[i].vote.n = proposals[i].vote.n /\ proposals[i].vote.n \in Nat
      BY <3>1, VotesGoOn, OwnType DEF RolloutInv
    <3>3. K <= proposals[i].vote.n /\ proposals[i].vote.n <= MarketCount
      BY <3>1 DEF RolloutInv, CountsOK
    <3>. QED
      BY <1>0, <3>2, <3>3
  <2>2. CASE i > Len(proposals)
    <3>1. script.mode = "deploy" /\ proposals'[i].vote.n = script.n
      BY <2>2, VotesGoOn
    <3>2. script.n \in Nat
      BY <3>1, ScriptMode DEF DeployRecords, RolloutInv
    <3>. QED
      BY <1>0, <3>1, <3>2 DEF RolloutInv, CountsOK
  <2>. QED
    BY <2>1, <2>2, VotesGoOn
<1>2. script'.mode = "deploy" => K <= script'.n /\ script'.n <= MarketCount'
  <2> SUFFICES ASSUME script'.mode = "deploy"
               PROVE  K <= script'.n /\ script'.n <= MarketCount'
    OBVIOUS
  <2>1. CASE script.mode = "deploy" /\ script'.n = script.n
    <3>1. script.n \in Nat
      BY <2>1, ScriptMode DEF DeployRecords, RolloutInv
    <3>. QED
      BY <1>0, <2>1, <3>1 DEF RolloutInv, CountsOK
  <2>2. CASE script'.n = MarketCount
    BY <1>0, <2>2
  <2>. QED
    BY <2>1, <2>2, ScriptCount
<1>3. proposals' = <<>> => OwnMarkets' = {} /\ limits' = {K}
  <2> SUFFICES ASSUME proposals' = <<>> PROVE OwnMarkets' = {} /\ limits' = {K}
    OBVIOUS
  <2>1. Len(proposals') = 0 /\ Len(proposals) = 0
    BY VotesGoOn
  <2>2. proposals = <<>>
    BY <2>1 DEF RolloutInv, RolloutTypeOK
  <2>3. OwnMarkets = {} /\ limits = {K} /\ DOMAIN proposals = {}
    BY <2>2 DEF RolloutInv, CountsOK
  <2>4. ~Replaced /\ ~Switched
    BY <2>3 DEF Replaced, Switched
  <2>5. CASE Quiet
    BY <2>3, <2>5, SameOwn DEF Quiet, RolloutInv
  <2>6. CASE Created
    BY <2>3, <2>6, UnchangedOwn DEF Created
  <2>7. CASE Foreign
    <3>1. PICK c \in ForeignCollaterals : markets' = Append(markets, NewMarket(c, 0))
      BY <2>7 DEF Foreign
    <3>2. OwnMarkets' = OwnMarkets
      BY <3>1, MarketAppended DEF RolloutInv
    <3>. QED
      BY <2>3, <2>7, <3>2 DEF Foreign
  <2>. QED
    BY <2>4, <2>5, <2>6, <2>7, StepKinds DEF RolloutInv
<1>. QED
  BY <1>1, <1>2, <1>3 DEF CountsOK

\* A disturbed rollout stays disturbed.
LEMMA DisturbedStays ==
    ASSUME RolloutInv, [RolloutNext]_rolloutVars, Undisturbed', proposals # <<>>
    PROVE  /\ Undisturbed /\ Base' = Base /\ proposals' # <<>>
           /\ Base \in Nat /\ K <= Base /\ Base <= MarketCount
           /\ \A i \in DOMAIN proposals : proposals[i].vote.n = Base
           /\ \A j \in ForeignMarkets' : j <= Base
<1>1. /\ 1 \in 1 .. Len(proposals) /\ 1 \in 1 .. Len(proposals')
      /\ 1 .. Len(proposals) \subseteq 1 .. Len(proposals')
  <2>1. Len(proposals) # 0
    BY DEF RolloutInv, RolloutTypeOK
  <2>. QED
    BY <2>1, VotesGoOn
<1>2. DOMAIN proposals = 1 .. Len(proposals) /\ DOMAIN proposals' = 1 .. Len(proposals')
  BY TypeStep DEF RolloutInv, RolloutTypeOK
<1>3. \A i \in DOMAIN proposals' :
          /\ proposals'[i].vote.n = proposals'[1].vote.n
          /\ \A j \in ForeignMarkets' : j <= proposals'[i].vote.n
  BY DEF Undisturbed
<1>4. \A i \in DOMAIN proposals : proposals'[i].vote = proposals[i].vote
  BY <1>2, VotesGoOn
<1>5. /\ \A i \in DOMAIN proposals : proposals[i].vote.n = Base
      /\ Base' = Base /\ \A j \in ForeignMarkets' : j <= Base
  BY <1>1, <1>2, <1>3, <1>4 DEF Base
<1>6. ForeignMarkets \subseteq ForeignMarkets'
  <2>1. CASE Quiet
    BY <2>1, SameOwn DEF Quiet, RolloutInv
  <2>2. CASE Created \/ Switched
    BY <2>2, UnchangedOwn DEF Created, Switched
  <2>3. CASE Foreign
    BY <2>3, MarketAppended DEF Foreign, RolloutInv
  <2>4. CASE Replaced
    <3>1. PICK i \in DOMAIN proposals : LET v == proposals[i].vote
                IN markets' = Append(markets, NewMarket(v.vote - 1, v.run))
      BY <2>4 DEF Replaced
    <3>2. proposals[i].vote.run \in Nat
      <4>1. proposals[i].vote.run \in 1 .. runs /\ runs \in Nat
        BY ProposalType DEF RolloutInv, RolloutTypeOK
      <4>. QED
        BY <4>1
    <3>. QED
      BY <3>1, <3>2, MarketAppended DEF RolloutInv
  <2>. QED
    BY <2>1, <2>2, <2>3, <2>4, StepKinds DEF RolloutInv
<1>7. Undisturbed
  BY <1>1, <1>2, <1>5, <1>6 DEF Undisturbed
<1>8. Base \in Nat /\ K <= Base /\ Base <= MarketCount
  BY <1>1, OwnType DEF Base, RolloutInv, CountsOK
<1>9. proposals' # <<>>
  BY <1>1
<1>. QED
  BY <1>5, <1>7, <1>8, <1>9

\* The id of the market that is added next.
NextId == MarketCount + 1

\* What an undisturbed market vote does.
LEMMA ReplacedAt ==
    ASSUME RolloutInv, Replaced, proposals # <<>>, Base \in Nat,
           \A i \in DOMAIN proposals : proposals[i].vote.n = Base
    PROVE  /\ OwnMarkets' = OwnMarkets \cup {NextId}
           /\ NextId > Base
           /\ markets'[NextId].coin = NextId - Base
           /\ \A i \in 1 .. MarketCount : markets'[i] = markets[i]
           /\ MarketCount' = MarketCount + 1 /\ limits' = limits
<1>1. PICK i \in DOMAIN proposals :
          LET v == proposals[i].vote
          IN  /\ v.vote \in 2 .. K + 1 /\ MarketCount = v.n + (v.vote - 2)
              /\ markets' = Append(markets, NewMarket(v.vote - 1, v.run))
              /\ limits' = limits
  BY DEF Replaced
<1> DEFINE v == proposals[i].vote
<1>2. v.run \in 1 .. runs /\ runs \in Nat
  BY ProposalType DEF RolloutInv, RolloutTypeOK
<1>3. v.run \in Nat /\ v.run # 0
  BY <1>2
<1>4. markets' = Append(markets, NewMarket(v.vote - 1, v.run)) /\ v.n = Base
  BY <1>1
<1>5. v.vote \in 2 .. K + 1 /\ MarketCount = v.n + (v.vote - 2) /\ MarketCount \in Nat /\ K \in Nat
  BY <1>1, OwnType DEF RolloutInv
<1> HIDE DEF v
<1>6. /\ Len(markets') = MarketCount + 1
      /\ \A j \in 1 .. MarketCount : markets'[j] = markets[j]
      /\ markets'[NextId].coin = v.vote - 1
      /\ OwnMarkets' = OwnMarkets \cup {NextId}
  BY <1>3, <1>4, MarketAppended DEF RolloutInv, NextId
<1>7. NextId > Base /\ v.vote - 1 = NextId - Base
  BY <1>4, <1>5 DEF NextId
<1>8. MarketCount' = MarketCount + 1
  BY <1>6 DEF MarketCount
<1>. QED
  BY <1>1, <1>6, <1>7, <1>8

\* Another proposal's market disturbs the rollout once there are votes.
LEMMA ForeignDisturbs ==
    ASSUME RolloutInv, Foreign, Base <= MarketCount, Base \in Nat,
           \A j \in ForeignMarkets' : j <= Base
    PROVE  FALSE
<1>1. PICK c \in ForeignCollaterals : markets' = Append(markets, NewMarket(c, 0))
  BY DEF Foreign
<1>2. MarketCount + 1 \in ForeignMarkets'
  BY <1>1, MarketAppended DEF RolloutInv
<1>3. MarketCount \in Nat
  BY OwnType DEF RolloutInv
<1>. QED
  BY <1>2, <1>3

\* The order of the markets is kept.
LEMMA OrderStep == ASSUME RolloutInv, [RolloutNext]_rolloutVars PROVE Order'
<1> SUFFICES ASSUME Undisturbed', proposals' # <<>>
             PROVE  \A i \in OwnMarkets' : i > Base' /\ markets'[i].coin = i - Base'
  BY DEF Order
<1>1. CASE proposals = <<>>
  <2>1. OwnMarkets = {} /\ DOMAIN proposals = {} /\ Len(proposals) = 0
    BY <1>1 DEF RolloutInv, CountsOK
  <2>2. ~Replaced /\ ~Switched
    BY <2>1 DEF Replaced, Switched
  <2>3. ~SameVotes
    <3>1. Len(proposals') # 0
      <4>1. RolloutTypeOK'
        BY TypeStep DEF RolloutInv
      <4>2. proposals' \in Seq(ProposalRecords')
        BY <4>1 DEF RolloutTypeOK
      <4>. QED
        BY <4>2, EmptySeq
    <3>. QED
      BY <2>1, <3>1 DEF SameVotes
  <2>4. Created
    BY <2>2, <2>3, StepKinds DEF Quiet, Foreign, RolloutInv
  <2>. QED
    BY <2>1, <2>4, UnchangedOwn DEF Created
<1>2. CASE proposals # <<>>
  <2>1. /\ Undisturbed /\ Base' = Base /\ Base \in Nat /\ Base <= MarketCount
        /\ \A i \in DOMAIN proposals : proposals[i].vote.n = Base
        /\ \A j \in ForeignMarkets' : j <= Base
    BY <1>2, DisturbedStays
  <2>2. \A i \in OwnMarkets : i > Base /\ markets[i].coin = i - Base
    BY <1>2, <2>1 DEF RolloutInv, Order
  <2>3. CASE Quiet
    BY <2>1, <2>2, <2>3, SameOwn DEF Quiet, RolloutInv
  <2>4. CASE Created \/ Switched
    BY <2>1, <2>2, <2>4, UnchangedOwn DEF Created, Switched
  <2>5. CASE Replaced
    <3>1. OwnMarkets \subseteq 1 .. MarketCount
      BY OwnType DEF OwnMarkets, RolloutInv
    <3>2. /\ OwnMarkets' = OwnMarkets \cup {NextId}
          /\ NextId > Base /\ markets'[NextId].coin = NextId - Base
          /\ \A i \in 1 .. MarketCount : markets'[i] = markets[i]
      BY <1>2, <2>1, <2>5, ReplacedAt
    <3> TAKE i \in OwnMarkets'
    <3>3. CASE i = NextId
      BY <2>1, <3>2, <3>3
    <3>4. CASE i \in OwnMarkets
      <4>1. markets'[i] = markets[i]
        BY <3>1, <3>2, <3>4
      <4>. QED
        BY <2>1, <2>2, <3>4, <4>1
    <3>. QED
      BY <3>2, <3>3, <3>4
  <2>6. ~Foreign
    BY <2>1, ForeignDisturbs
  <2>. QED
    BY <2>3, <2>4, <2>5, <2>6, StepKinds DEF RolloutInv
<1>. QED
  BY <1>1, <1>2

\* The hybrid vaults' limits are kept.
LEMMA SwitchStep == ASSUME RolloutInv, [RolloutNext]_rolloutVars PROVE Switch'
<1>0. /\ MarketCount \in Nat /\ MarketCount' \in Nat /\ MarketCount' >= MarketCount
      /\ MarketCount >= K /\ K \in Nat /\ K >= 1
  BY MarketsGoOn
<1>s. CASE Switched
  <2>1. PICK i \in DOMAIN proposals :
            LET v == proposals[i].vote
            IN  /\ MarketCount = v.n + K
                /\ limits' = (limits \cup (v.n + 1 .. v.n + K)) \ {K}
    BY <1>s DEF Switched
  <2> DEFINE n == proposals[i].vote.n
  <2>2. n \in Nat /\ K <= n
    BY ProposalType, OwnType DEF RolloutInv, CountsOK
  <2>3. MarketCount = n + K /\ limits' = (limits \cup (n + 1 .. n + K)) \ {K}
    BY <2>1
  <2>4. proposals # <<>>
    OBVIOUS
  <2>5. Undisturbed' => n = Base /\ Base' = Base
    BY <2>4, DisturbedStays
  <2> HIDE DEF n
  <2>6. n + 1 .. n + K \subseteq 1 .. MarketCount /\ K \notin n + 1 .. n + K
    BY <1>0, <2>2, <2>3
  <2>7. limits' \subseteq 1 .. MarketCount /\ n + 1 .. n + K \subseteq limits'
    BY <2>3, <2>6 DEF RolloutInv, Switch
  <2>8. MarketCount' = MarketCount
    BY <1>s, UnchangedOwn DEF Switched
  <2>. QED
    BY <2>5, <2>7, <2>8 DEF Switch
<1>o. CASE limits' = limits
  <2>1. limits' \subseteq 1 .. MarketCount'
    BY <1>0, <1>o DEF RolloutInv, Switch
  <2>2. ASSUME Undisturbed', K \notin limits
        PROVE  Base' + 1 .. Base' + K \subseteq limits'
    <3>1. proposals # <<>>
      BY <2>2 DEF RolloutInv, CountsOK
    <3>2. Undisturbed /\ Base' = Base
      BY <2>2, <3>1, DisturbedStays
    <3>. QED
      BY <1>o, <2>2, <3>2 DEF RolloutInv, Switch
  <2>. QED
    BY <1>o, <2>1, <2>2 DEF Switch
<1>. QED
  BY <1>s, <1>o, StepKinds DEF RolloutInv, Quiet, Created, Replaced, Foreign

\* The invariant holds at first, and every step keeps it.
THEOREM RolloutInvariant == RolloutSafetySpec => []RolloutInv
<1>1. RolloutInit => RolloutInv
  <2> SUFFICES ASSUME RolloutInit PROVE RolloutInv
    OBVIOUS
  <2>1. RolloutTypeOK
    BY InitTypeOK
  <2>2. MarketCount = K /\ K \in Nat /\ K >= 1 /\ proposals = <<>> /\ Len(proposals) = 0
    <3>1. markets \in [1 .. K -> {OldMarket(c) : c \in 1 .. K}]
      BY DEF RolloutInit, Collaterals
    <3>. QED
      BY <3>1, RolloutAssumption DEF RolloutInit, VotingInit, MarketCount
  <2>3. OwnMarkets = {}
    BY <2>2 DEF OwnMarkets
  <2>4. limits = {K} /\ disabled = {} /\ script.mode = "idle"
    BY DEF RolloutInit, NotRunning
  <2>5. NewMarketsRunTheirOwnCode
    BY <2>3, <2>4 DEF NewMarketsRunTheirOwnCode
  <2>6. CountsOK /\ Order /\ Switch
    BY <2>2, <2>3, <2>4 DEF CountsOK, Order, Switch
  <2>. QED
    BY <2>1, <2>5, <2>6 DEF RolloutInv
<1>2. RolloutInv /\ [RolloutNext]_rolloutVars => RolloutInv'
  BY TypeStep, MarketsStep, CountsStep, OrderStep, SwitchStep DEF RolloutInv
<1>. QED
  BY <1>1, <1>2, PTL DEF RolloutSafetySpec

---------------------------------------------------------------------------
(* The properties. *)

\* The state of the rollout is typed, for every number of collaterals, runs,
\* crashes and foreign markets.
THEOREM RolloutTyped == RolloutSpec => []RolloutTypeOK
<1>1. RolloutInv => RolloutTypeOK
  BY DEF RolloutInv
<1>. QED
  BY <1>1, RolloutInvariant, PTL DEF RolloutSpec

\* Every market that a vote of the rollout adds runs the code of its own run.
THEOREM NewMarketsOwnCode == RolloutSpec => []NewMarketsRunTheirOwnCode
<1>1. RolloutInv => NewMarketsRunTheirOwnCode
  BY DEF RolloutInv
<1>. QED
  BY <1>1, RolloutInvariant, PTL DEF RolloutSpec

\* The markets of an undisturbed rollout are found at Base plus their
\* collateral, so no collateral has two.
THEOREM NoTwoMarkets == RolloutSpec => []OneMarketPerCollateral
<1>1. ASSUME RolloutInv PROVE OneMarketPerCollateral
  <2> SUFFICES ASSUME Undisturbed, NEW i \in OwnMarkets, NEW j \in OwnMarkets,
                      markets[i].coin = markets[j].coin
               PROVE  i = j
    BY DEF OneMarketPerCollateral
  <2>1. proposals # <<>>
    BY <1>1, Zenon DEF RolloutInv, CountsOK
  <2>2. markets[i].coin = i - Base /\ markets[j].coin = j - Base
    BY <1>1, <2>1 DEF RolloutInv, Order
  <2>3. Base \in Nat /\ i \in Nat /\ j \in Nat
    <3>1. 1 \in 1 .. Len(proposals)
      BY <1>1, <2>1 DEF RolloutInv, RolloutTypeOK
    <3>. QED
      BY <1>1, <3>1, OwnType DEF RolloutInv, Base, OwnMarkets
  <2>4. i - Base = j - Base
    BY <2>2
  <2>. QED
    BY <2>3, <2>4
<1>. QED
  BY <1>1, RolloutInvariant, PTL DEF RolloutSpec

\* The hybrid vaults always have a market: the old one, or undisturbed all
\* of the new ones.
THEOREM HybridVaultsKeepAMarket == RolloutSpec => []HybridVaultsHaveAMarket
<1>1. ASSUME RolloutInv PROVE HybridVaultsHaveAMarket
  <2>1. limits \subseteq 1 .. MarketCount
    BY <1>1 DEF RolloutInv, Switch
  <2>2. ASSUME Undisturbed, K \notin limits, NEW c \in Collaterals
        PROVE  \E i \in limits \cap OwnMarkets : markets[i].coin = c
    <3>1. proposals # <<>> /\ Base + 1 .. Base + K \subseteq limits
      <4>1. proposals = <<>> => limits = {K}
        BY <1>1 DEF RolloutInv, CountsOK
      <4>. QED
        BY <1>1, <2>2, <4>1 DEF RolloutInv, Switch
    <3>2. 1 \in DOMAIN proposals /\ 1 \in 1 .. Len(proposals)
      BY <1>1, <3>1 DEF RolloutInv, RolloutTypeOK
    <3>3. Base \in Nat /\ K <= Base /\ K \in Nat /\ MarketCount \in Nat
      BY <1>1, <3>2, OwnType DEF RolloutInv, CountsOK, Base
    <3>4. c \in 1 .. K
      BY DEF Collaterals
    <3>5. Base + c \in limits /\ Base + c > Base
      BY <3>1, <3>3, <3>4
    <3>6. Base + c \in K + 1 .. MarketCount
      BY <2>1, <3>3, <3>4, <3>5
    <3>7. ~IsForeign(markets[Base + c])
      <4>1. \A j \in ForeignMarkets : j <= Base
        BY <2>2, <3>2 DEF Undisturbed, Base
      <4>2. Base + c \notin ForeignMarkets
        BY <3>3, <3>4, <4>1
      <4>. QED
        BY <3>6, <4>2 DEF ForeignMarkets
    <3>8. Base + c \in OwnMarkets
      BY <3>6, <3>7 DEF OwnMarkets
    <3> DEFINE b == Base + c
    <3>9. b \in limits \cap OwnMarkets /\ b - Base = c
      BY <3>3, <3>4, <3>5, <3>8
    <3> HIDE DEF b
    <3>10. markets[b].coin = b - Base
      <4>1. \A i \in OwnMarkets : markets[i].coin = i - Base
        BY <1>1, <2>2, <3>1 DEF RolloutInv, Order
      <4>. QED
        BY <3>9, <4>1
    <3>. QED
      BY <3>9, <3>10
  <2>. QED
    BY <2>1, <2>2 DEF HybridVaultsHaveAMarket
<1>. QED
  BY <1>1, RolloutInvariant, PTL DEF RolloutSpec

---------------------------------------------------------------------------
(* Seeds. *)

\* The pool that the activation is about to seed is initialised.
SeedingReady == script.mode = "activate" /\ script.seeding => markets[Planned].ready

SeedInv == RolloutTypeOK /\ SeededAtMostOnce /\ SeedingReady

\* No market is seeded, loses its pool's initialisation or its supply, and
\* new markets have no seeds.
SeedsKept ==
    /\ \A i \in DOMAIN markets :
           /\ i \in DOMAIN markets'
           /\ markets'[i].seeds = markets[i].seeds
           /\ markets[i].ready => markets'[i].ready
           /\ markets[i].held => markets'[i].held
    /\ \A i \in DOMAIN markets' \ DOMAIN markets : markets'[i].seeds = 0

\* Such a step keeps the invariant when the script goes on as before or is
\* not about to seed.
LEMMA KeptSeeds ==
    ASSUME SeedInv, RolloutTypeOK', SeedsKept,
           script' = script \/ script'.mode # "activate" \/ ~script'.seeding
    PROVE  SeedInv'
<1> USE DEF SeedInv
<1>1. SeededAtMostOnce'
  <2> SUFFICES ASSUME NEW i \in DOMAIN markets'
               PROVE  /\ markets'[i].seeds <= 1
                      /\ markets'[i].seeds = 1 => markets'[i].ready /\ markets'[i].held
    BY DEF SeededAtMostOnce
  <2>1. CASE i \in DOMAIN markets
    BY <2>1 DEF SeedsKept, SeededAtMostOnce
  <2>2. CASE i \notin DOMAIN markets
    BY <2>2 DEF SeedsKept
  <2>. QED
    BY <2>1, <2>2
<1>2. SeedingReady'
  <2>1. CASE script' = script /\ script.mode = "activate"
    <3>1. Planned \in DOMAIN markets /\ Planned' = Planned
      BY <2>1, ActivateMoves DEF Planned
    <3>. QED
      BY <2>1, <3>1 DEF SeedingReady, SeedsKept
  <2>. QED
    BY <2>1 DEF SeedingReady
<1>. QED
  BY <1>1, <1>2

\* Appending a market keeps the seeds.
LEMMA AppendKeepsSeeds ==
    ASSUME RolloutTypeOK, NEW c, NEW r, markets' = Append(markets, NewMarket(c, r))
    PROVE  SeedsKept
<1>1. NewMarket(c, r).seeds = 0
  BY DEF NewMarket
<1> DEFINE m == NewMarket(c, r)
<1>2. markets' = Append(markets, m) /\ m.seeds = 0
  BY <1>1
<1> HIDE DEF m
<1>3. /\ DOMAIN markets' = 1 .. Len(markets) + 1 /\ DOMAIN markets = 1 .. Len(markets)
      /\ Len(markets) \in Nat /\ markets'[Len(markets) + 1] = m
      /\ \A i \in 1 .. Len(markets) : markets'[i] = markets[i]
  BY <1>2 DEF RolloutTypeOK
<1>. QED
  BY <1>2, <1>3 DEF SeedsKept

\* Without a change of the markets, the seeds are kept.
LEMMA UnchangedKeepsSeeds == ASSUME UNCHANGED markets PROVE SeedsKept
<1>. QED
  BY DEF SeedsKept

\* Executing a proposal keeps the seeds.
LEMMA ExecuteKeepsSeeds ==
    ASSUME RolloutTypeOK, NEW i \in DOMAIN proposals, ExecuteProposal(i)
    PROVE  SeedsKept
<1>. QED
  BY AppendKeepsSeeds, UnchangedKeepsSeeds
     DEF ExecuteProposal, RolloutVoteEffect, InstallCode, ReplaceMarket, SwitchHybrid

\* Every step keeps the invariant of the seeds.
LEMMA SeedStep == SeedInv /\ [RolloutNext]_rolloutVars => SeedInv'
<1> SUFFICES ASSUME SeedInv, [RolloutNext]_rolloutVars PROVE SeedInv'
  OBVIOUS
<1>0. RolloutTypeOK /\ RolloutTypeOK'
  BY TypeStep DEF SeedInv
<1>1. CASE AnyoneExecutes
  <2>1. SeedsKept /\ script' = script
    BY <1>0, <1>1, ExecuteKeepsSeeds DEF AnyoneExecutes, operatorVars
  <2>. QED
    BY <1>0, <2>1, KeptSeeds
<1>2. CASE VotersPass \/ RolloutDayPasses \/ Fund \/ UNCHANGED rolloutVars
  <2>1. script' = script /\ markets' = markets
    BY <1>2 DEF VotersPass, RolloutDayPasses, Fund, rolloutVars, chainVars, operatorVars
  <2>. QED
    BY <1>0, <2>1, KeptSeeds, UnchangedKeepsSeeds
<1>3. CASE ForeignVoteAddsMarket
  <2>1. SeedsKept /\ script' = script
    BY <1>0, <1>3, AppendKeepsSeeds DEF ForeignVoteAddsMarket, operatorVars
  <2>. QED
    BY <1>0, <2>1, KeptSeeds
<1>4. CASE UserDeposits
  <2>1. PICK i \in DOMAIN markets : markets' = [markets EXCEPT ![i].held = TRUE]
    BY <1>4 DEF UserDeposits
  <2>2. markets[i] \in MarketRecords
    BY <1>0, MarketType
  <2>3. SeedsKept
    BY <2>1, <2>2 DEF SeedsKept, MarketRecords
  <2>. QED
    BY <1>0, <1>4, <2>3, KeptSeeds DEF UserDeposits, operatorVars
<1>5. CASE StartDeploy \/ CheckHybridLimits \/ CreateVote \/ StartExecute
               \/ StartActivation \/ Crash
  <2>1. markets' = markets
    BY <1>5 DEF StartDeploy, CheckHybridLimits, CreateVote, StartExecute,
       StartActivation, Crash, chainVars
  <2>2. script'.mode # "activate" \/ ~script'.seeding
    <3>1. CASE CheckHybridLimits \/ CreateVote
      <4>1. script \in DeployRecords
        BY <1>0, <3>1, ScriptMode DEF CheckHybridLimits, CreateVote
      <4>2. script' = NotRunning \/ \E k : script' = [script EXCEPT !.next = k]
        BY <3>1 DEF CheckHybridLimits, CreateVote
      <4>. QED
        BY <4>1, <4>2 DEF DeployRecords, NotRunning
    <3>2. CASE StartDeploy \/ StartExecute \/ StartActivation \/ Crash
      BY <3>2 DEF StartDeploy, StartExecute, StartActivation, Crash, NotRunning
    <3>. QED
      BY <1>5, <3>1, <3>2
  <2>. QED
    BY <1>0, <2>1, <2>2, KeptSeeds, UnchangedKeepsSeeds
<1>6. CASE ExecuteNext
  <2>1. script.todo \in Seq(DOMAIN proposals) /\ script.todo # <<>>
    BY <1>0, <1>6, ScriptMode DEF ExecuteNext, ExecuteRecords, RolloutTypeOK
  <2>2. Head(script.todo) \in DOMAIN proposals
    BY <2>1
  <2>3. SeedsKept
    BY <1>0, <1>6, <2>2, ExecuteKeepsSeeds, UnchangedKeepsSeeds DEF ExecuteNext, chainVars
  <2>4. script'.mode # "activate"
    BY <1>6 DEF ExecuteNext, Finished, NotRunning
  <2>. QED
    BY <1>0, <2>3, <2>4, KeptSeeds
<1>7. CASE InitializePool
  <2>1. /\ script.mode = "activate" /\ Planned \in DOMAIN markets
        /\ script \in ActivateRecords
    BY <1>0, <1>7, ActivateMoves, ScriptMode DEF InitializePool
  <2>2. markets[Planned] \in MarketRecords /\ markets \in Seq(MarketRecords)
    BY <1>0, <2>1, MarketType DEF RolloutTypeOK
  <2>3. CASE script' = NotRunning /\ UNCHANGED markets
    BY <1>0, <2>3, KeptSeeds, UnchangedKeepsSeeds DEF NotRunning
  <2>4. CASE /\ script' = [script EXCEPT !.seeding = TRUE]
             /\ \/ UNCHANGED markets /\ markets[Planned].ready
                \/ markets' = [markets EXCEPT ![Planned].ready = TRUE]
    <3>1. SeedsKept /\ markets'[Planned].ready
      <4>1. CASE UNCHANGED markets /\ markets[Planned].ready
        BY <4>1, UnchangedKeepsSeeds
      <4>2. CASE markets' = [markets EXCEPT ![Planned].ready = TRUE]
        <5> DEFINE p == Planned
        <5>1. /\ p \in DOMAIN markets
              /\ markets[p] \in MarketRecords
              /\ markets' = [markets EXCEPT ![p].ready = TRUE]
          BY <2>1, <2>2, <4>2
        <5> HIDE DEF p
        <5>2. markets'[p] = [markets[p] EXCEPT !.ready = TRUE] /\ DOMAIN markets' = DOMAIN markets
          BY <5>1
        <5>3. /\ markets'[p].ready
              /\ markets'[p].seeds = markets[p].seeds
              /\ markets'[p].held = markets[p].held
          BY <5>1, <5>2 DEF MarketRecords
        <5>4. \A i \in DOMAIN markets : i # p => markets'[i] = markets[i]
          BY <5>1
        <5>5. SeedsKept
          BY <5>2, <5>3, <5>4 DEF SeedsKept
        <5>. QED
          BY <5>3, <5>5 DEF p
      <4>. QED
        BY <2>4, <4>1, <4>2
    <3>2. Planned' = Planned
      BY <2>1, <2>4 DEF Planned, ActivateRecords
    <3>3. SeededAtMostOnce'
      <4> SUFFICES ASSUME NEW i \in DOMAIN markets'
                   PROVE  /\ markets'[i].seeds <= 1
                          /\ markets'[i].seeds = 1 => markets'[i].ready /\ markets'[i].held
        BY DEF SeededAtMostOnce
      <4>1. i \in DOMAIN markets
        BY <2>2, <2>4
      <4>. QED
        BY <3>1, <4>1 DEF SeedsKept, SeededAtMostOnce, SeedInv
    <3>. QED
      BY <1>0, <3>1, <3>2, <3>3 DEF SeedInv, SeedingReady
  <2>. QED
    BY <1>7, <2>3, <2>4 DEF InitializePool
<1>8. CASE SeedMarket
  <2>1. /\ script.mode = "activate" /\ Planned \in DOMAIN markets
        /\ script \in ActivateRecords /\ script.seeding
    BY <1>0, <1>8, ActivateMoves, ScriptMode DEF SeedMarket
  <2>2. script'.mode # "activate" \/ ~script'.seeding
    BY <1>8, <2>1 DEF SeedMarket, NextPool, NotRunning, ActivateRecords
  <2>3. CASE UNCHANGED markets
    BY <1>0, <2>2, <2>3, KeptSeeds, UnchangedKeepsSeeds
  <2>4. CASE /\ ~markets[Planned].held
             /\ markets' = [markets EXCEPT ![Planned].held = TRUE, ![Planned].seeds = @ + 1]
    <3> DEFINE p == Planned
               m == [markets[p] EXCEPT !.held = TRUE, !.seeds = @ + 1]
    <3>1. markets[p] \in MarketRecords /\ markets \in Seq(MarketRecords) /\ p \in DOMAIN markets
      BY <1>0, <2>1, MarketType DEF RolloutTypeOK
    <3>2. markets[p].ready /\ ~markets[p].held
      BY <2>1, <2>4 DEF SeedInv, SeedingReady
    <3>3. markets[p].seeds = 0
      <4>1. markets[p].seeds <= 1 /\ markets[p].seeds # 1 /\ markets[p].seeds \in Nat
        BY <3>1, <3>2 DEF SeedInv, SeededAtMostOnce, MarketRecords
      <4>. QED
        BY <4>1
    <3>4. m.seeds = 1 /\ m.ready /\ m.held
      BY <3>1, <3>2, <3>3 DEF MarketRecords
    <3>5. markets' = [markets EXCEPT ![p] = m]
      BY <2>4, <3>1
    <3> HIDE DEF p, m
    <3>6. SeededAtMostOnce'
      <4> SUFFICES ASSUME NEW i \in DOMAIN markets'
                   PROVE  /\ markets'[i].seeds <= 1
                          /\ markets'[i].seeds = 1 => markets'[i].ready /\ markets'[i].held
        BY DEF SeededAtMostOnce
      <4>1. CASE i = p
        BY <3>1, <3>4, <3>5, <4>1
      <4>2. CASE i # p
        <5>1. i \in DOMAIN markets /\ markets'[i] = markets[i]
          BY <3>1, <3>5, <4>2
        <5>. QED
          BY <5>1 DEF SeedInv, SeededAtMostOnce
      <4>. QED
        BY <4>1, <4>2
    <3>. QED
      BY <1>0, <2>2, <3>6 DEF SeedInv, SeedingReady
  <2>. QED
    BY <1>8, <2>3, <2>4 DEF SeedMarket
<1>. QED
  BY <1>1, <1>2, <1>3, <1>4, <1>5, <1>6, <1>7, <1>8 DEF RolloutNext, ChainSteps, ScriptSteps

\* A market is seeded at most once, and only after its pool is initialised,
\* however often the activation dies and is run again.
THEOREM SeededOnce == RolloutSpec => []SeededAtMostOnce
<1>1. RolloutInit => SeedInv
  <2> SUFFICES ASSUME RolloutInit PROVE SeedInv
    OBVIOUS
  <2>1. \A i \in DOMAIN markets : markets[i].seeds = 0
    BY DEF RolloutInit, OldMarket, Collaterals
  <2>. QED
    BY <2>1, InitTypeOK DEF SeedInv, SeededAtMostOnce, SeedingReady, RolloutInit, NotRunning
<1>2. SeedInv => SeededAtMostOnce
  BY DEF SeedInv
<1>. QED
  BY <1>1, <1>2, SeedStep, PTL DEF RolloutSpec, RolloutSafetySpec

=============================================================================
