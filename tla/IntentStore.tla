----------------------------- MODULE IntentStore -----------------------------
(***************************************************************************)
(* MemoryStore, the reference implementation of intent.Store.  Every       *)
(* method runs under one mutex, so it is one atomic step.  A method that   *)
(* refuses, replays, or is aborted by an error (a cancelled context, an    *)
(* injected fault, an allocated ID that is taken) writes nothing: that     *)
(* outcome is a stuttering step here, and the modules that call the store  *)
(* decide from the same conditions what the caller gets back.              *)
(***************************************************************************)
EXTENDS Intent, SequencesExt

CONSTANTS
  ExplicitDrafts,  \* drafts offered to createExplicit, malformed ones included
  MaxLog           \* bound: StoreNext offers no transition to a log this long

ASSUME StoreConstants == ExplicitDrafts \subseteq IntentRecord /\ MaxLog \in Nat

VARIABLES
  intents,     \* [IDs -> IntentRecord or Nil]
  auto,        \* the automatic uniqueness index, (policy, subject) -> ID
  ops,         \* the operation ledger, OperationID -> ID
  runs,        \* the RunID index, RunID -> ID
  policyLogs,  \* lifecycle logs
  policies     \* records folded from the logs

storeVars == <<intents, auto, ops, runs, policyLogs, policies>>
indexVars == <<auto, ops, runs>>
policyVars == <<policyLogs, policies>>

StoreTypeOK ==
  /\ intents \in [IDs -> IntentRecord \cup {Nil}]
  /\ auto \in [Policies \X Subjects -> IDs \cup {Nil}]
  /\ ops \in [OperationIDs -> IDs \cup {Nil}]
  /\ runs \in [RunIDs -> IDs \cup {Nil}]
  /\ policyLogs \in [Policies -> Seq(PolicyTransition)]
  /\ policies \in [Policies -> PolicyRecord]

StoreInit ==
  /\ intents = [id \in IDs |-> Nil]
  /\ auto = [k \in Policies \X Subjects |-> Nil]
  /\ ops = [o \in OperationIDs |-> Nil]
  /\ runs = [r \in RunIDs |-> Nil]
  /\ policyLogs = [p \in Policies |-> <<>>]
  /\ policies = [p \in Policies |-> NoPolicy]

(***************************************************************************)
(* What the methods read.                                                  *)
(***************************************************************************)
AutoKey(in) == <<in.PolicyID, in.Subject>>
Exists(id) == id # Nil /\ intents[id] # Nil
IsAutomatic(id) == Exists(id) /\ intents[id].Origin = "AUTOMATIC"
PolicyFound(p) == policies[p].Seq # 0

(* Mutants: the conditional create forgets the epoch, or the state. *)
PolicyIsActive(p, epoch) == PolicyFound(p) /\ policies[p].State = "ACTIVE"
PolicyAtEpoch(p, epoch) == PolicyFound(p) /\ policies[p].Epoch = epoch

PolicyIsCurrent(p, epoch) ==
  /\ PolicyFound(p)
  /\ policies[p].State = "ACTIVE"
  /\ policies[p].Epoch = epoch

(* The IDs the automatic index holds for policy p. *)
Members(p) == {id \in IDs : \E s \in Subjects : auto[<<p, s>>] = id}

(* GetPolicyMembership's classification, of the intents in ints. *)
Membership(ints, p) ==
  LET held == {id \in Members(p) : ints[id].Blockers["POLICY_DISABLE"] # "CLEAR"}
  IN  [Held |-> held,
       RunIDAttached |-> {id \in Members(p) \ held : ints[id].RunID # Nil}]

(***************************************************************************)
(* createAutomatic and createAutomaticAdmitted: the index entry and the    *)
(* intent are written together under a freshly drawn ID.                   *)
(***************************************************************************)
(* Mutant: a domain that is taken is overwritten. *)
CreateAutomaticAgain(draft, id) ==
  /\ ~Exists(id)
  /\ auto' = [auto EXCEPT ![AutoKey(draft)] = id]
  /\ intents' = [intents EXCEPT ![id] = [draft EXCEPT !.ID = id]]
  /\ UNCHANGED <<ops, runs, policyVars>>

CreateAutomatic(draft, id) ==
  /\ auto[AutoKey(draft)] = Nil
  /\ ~Exists(id)
  /\ auto' = [auto EXCEPT ![AutoKey(draft)] = id]
  /\ intents' = [intents EXCEPT ![id] = [draft EXCEPT !.ID = id]]
  /\ UNCHANGED <<ops, runs, policyVars>>

CreateAutomaticAdmitted(draft, epoch, id) ==
  /\ PolicyIsCurrent(draft.PolicyID, epoch)
  /\ CreateAutomatic(draft, id)

CreateExplicit(draft, id) ==
  /\ CheckExplicitDraft(draft)
  /\ ops[draft.OperationID] = Nil
  /\ ~Exists(id)
  /\ ops' = [ops EXCEPT ![draft.OperationID] = id]
  /\ intents' = [intents EXCEPT ![id] = [draft EXCEPT !.ID = id]]
  /\ UNCHANGED <<auto, runs, policyVars>>

(* Mutant: a different RunID replaces the one attached. *)
AttachRunIDAgain(id, run) ==
  /\ Exists(id)
  /\ intents[id].RunID # run
  /\ runs[run] = Nil
  /\ runs' = [runs EXCEPT ![run] = id]
  /\ intents' = [intents EXCEPT ![id].RunID = run]
  /\ UNCHANGED <<auto, ops, policyVars>>

(***************************************************************************)
(* AttachRunID attaches once, to one owner.  It asks neither for the       *)
(* intent's origin nor for its blockers.                                   *)
(***************************************************************************)
AttachRunID(id, run) ==
  /\ Exists(id)
  /\ intents[id].RunID = Nil
  /\ runs[run] = Nil
  /\ runs' = [runs EXCEPT ![run] = id]
  /\ intents' = [intents EXCEPT ![id].RunID = run]
  /\ UNCHANGED <<auto, ops, policyVars>>

UpdateBlocker(id, owner, state) ==
  /\ Exists(id)
  /\ intents[id].Blockers[owner] # state
  /\ intents' = [intents EXCEPT ![id].Blockers[owner] = state]
  /\ UNCHANGED <<indexVars, policyVars>>

(***************************************************************************)
(* AppendPolicyTransition compares the log's length, appends, and places   *)
(* the holds, in one write.                                                *)
(***************************************************************************)

(* Mutant: append without compare. *)
SeqIgnored(p, expectedSeq) == TRUE

SeqIsCurrent(p, expectedSeq) == Len(policyLogs[p]) = expectedSeq

(* Mutant: intents with a RunID are held too. *)
ToHoldAll(p) ==
  {id \in Members(p) : intents[id].Blockers["POLICY_DISABLE"] # "BLOCKED"}

ToHold(p) ==
  {id \in Members(p) : /\ intents[id].RunID = Nil
                       /\ intents[id].Blockers["POLICY_DISABLE"] # "BLOCKED"}

WithHolds(p) ==
  [id \in IDs |-> IF id \in ToHold(p)
                    THEN [intents[id] EXCEPT !.Blockers["POLICY_DISABLE"] = "BLOCKED"]
                    ELSE intents[id]]

(* Mutants: the entry's number is off by two; the record is folded from the
   caller's entry, before the store has numbered it.                       *)
AppendMisnumbered(p, expectedSeq, t, holdUnassigned) ==
  LET entry == [t EXCEPT !.Seq = expectedSeq - 1] IN
  /\ SeqIsCurrent(p, expectedSeq)
  /\ policyLogs' = [policyLogs EXCEPT ![p] = Append(@, entry)]
  /\ policies' = [policies EXCEPT ![p] = Apply(@, entry)]
  /\ intents' = IF holdUnassigned THEN WithHolds(p) ELSE intents
  /\ UNCHANGED indexVars

AppendUnnumbered(p, expectedSeq, t, holdUnassigned) ==
  /\ SeqIsCurrent(p, expectedSeq)
  /\ policyLogs' = [policyLogs EXCEPT ![p] = Append(@, [t EXCEPT !.Seq = expectedSeq + 1])]
  /\ policies' = [policies EXCEPT ![p] = Apply(@, t)]
  /\ intents' = IF holdUnassigned THEN WithHolds(p) ELSE intents
  /\ UNCHANGED indexVars

AppendPolicyTransition(p, expectedSeq, t, holdUnassigned) ==
  LET entry == [t EXCEPT !.Seq = expectedSeq + 1] IN
  /\ SeqIsCurrent(p, expectedSeq)
  /\ policyLogs' = [policyLogs EXCEPT ![p] = Append(@, entry)]
  /\ policies' = [policies EXCEPT ![p] = Apply(@, entry)]
  /\ intents' = IF holdUnassigned THEN WithHolds(p) ELSE intents
  /\ UNCHANGED indexVars

(***************************************************************************)
(* The store under any caller of the package: drafts and transitions are   *)
(* those the Service builds, but offered at any time, with any epoch,      *)
(* frontier and expected length; drafts of explicit intents may also be    *)
(* malformed, as in the store's tests.                                     *)
(***************************************************************************)
AutomaticDrafts ==
  {AutomaticDraft(p, prev, s, rev, e) :
     p \in Policies, prev \in PolicyRevisions, s \in Subjects,
     rev \in PipelineRevisions, e \in 0..MaxLog}

Transitions ==
  {[Seq |-> 0, Kind |-> k, Epoch |-> e, Frontier |-> f] :
     k \in OpeningKinds, e \in 1..MaxLog, f \in Positions}
  \cup
  {[Seq |-> 0, Kind |-> k, Epoch |-> e, Frontier |-> Nil] :
     k \in StopKinds, e \in 1..MaxLog}

StoreNext ==
  \/ \E d \in AutomaticDrafts, id \in IDs :
       d.AdmissionEpoch = 0 /\ CreateAutomatic(d, id)
  \/ \E d \in AutomaticDrafts, id \in IDs :
       CreateAutomaticAdmitted(d, d.AdmissionEpoch, id)
  \/ \E d \in ExplicitDrafts, id \in IDs : CreateExplicit(d, id)
  \/ \E id \in IDs, r \in RunIDs : AttachRunID(id, r)
  \/ \E id \in IDs, o \in BlockerOwners, b \in BlockerStates : UpdateBlocker(id, o, b)
  \/ \E p \in Policies, n \in 0..MaxLog, t \in Transitions :
       /\ Len(policyLogs[p]) < MaxLog
       /\ AppendPolicyTransition(p, n, t, t.Kind \in StopKinds)

StoreSpec == StoreInit /\ [][StoreNext]_storeVars

(***************************************************************************)
(* Properties.                                                             *)
(***************************************************************************)

(* The three indexes and the intents agree in both directions, so no write
   of one without the other is ever visible: an automatic intent is the one
   its (policy, subject) names, an explicit one the one its OperationID
   names, and a RunID is held by exactly the intent its index entry names.
   MemoryStore's staged writes are the code this is about.                 *)
AutoIndexAgrees ==
  \A k \in Policies \X Subjects, id \in IDs :
    auto[k] = id <=> IsAutomatic(id) /\ AutoKey(intents[id]) = k

LedgerAgrees ==
  \A o \in OperationIDs, id \in IDs :
    ops[o] = id <=>
      Exists(id) /\ intents[id].Origin = "EXPLICIT" /\ intents[id].OperationID = o

RunIndexAgrees ==
  \A r \in RunIDs, id \in IDs :
    runs[r] = id <=> Exists(id) /\ intents[id].RunID = r

IndexesAgree == AutoIndexAgrees /\ LedgerAgrees /\ RunIndexAgrees

(* A policy's record is the fold of its log: the compare-and-append token
   is the log's length, and a frontier is the one recorded by the entry that
   opened the epoch, however many stops followed it.                       *)
PolicyFoldsLog ==
  \A p \in Policies :
    /\ policies[p] = FoldLeft(Apply, NoPolicy, policyLogs[p])
    /\ policies[p].Seq = Len(policyLogs[p])

(* A stored intent is never deleted or rewritten: its identity, origin,
   frozen revisions and admission epoch stay, and a RunID once attached
   stays attached.                                                         *)
Frozen(in) == [in EXCEPT !.RunID = Nil, !.Blockers = NoBlockers]

FrozenStep ==
  \A id \in IDs :
    intents[id] # Nil =>
      /\ intents'[id] # Nil
      /\ Frozen(intents'[id]) = Frozen(intents[id])
      /\ intents[id].RunID \in {Nil, intents'[id].RunID}

FrozenOnceStored == [][FrozenStep]_storeVars

(* A step that records a policy transition touches blockers only to place
   POLICY_DISABLE holds: it releases no owner's blocker, holds nothing of
   another policy and nothing that has a RunID, and a re-enable releases
   nothing.                                                                *)
HoldStep ==
  \A id \in IDs, p \in Policies, o \in BlockerOwners :
    LET before == intents[id].Blockers[o]
        after == intents'[id].Blockers[o]
    IN  policyLogs'[p] # policyLogs[p] /\ intents[id] # Nil /\ before # after =>
          /\ o = "POLICY_DISABLE" /\ after = "BLOCKED"
          /\ intents[id].PolicyID = p /\ intents[id].RunID = Nil
          /\ Last(policyLogs'[p]).Kind \in StopKinds

TransitionsOnlyHold == [][HoldStep]_storeVars
=============================================================================
