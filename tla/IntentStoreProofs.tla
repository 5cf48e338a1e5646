-------------------------- MODULE IntentStoreProofs --------------------------
(***************************************************************************)
(* The store's type invariant and the agreement of its indexes with its    *)
(* intents, for every set of IDs, policies, subjects, operations and runs, *)
(* however long the logs.  Each lemma is about one method of the store, so *)
(* that the service's proofs can cite it too.                              *)
(***************************************************************************)
EXTENDS IntentStore, WellFoundedInduction, TLAPS

(***************************************************************************)
(* Type correctness.                                                       *)
(***************************************************************************)
LEMMA InitTyped == StoreInit => StoreTypeOK
  BY DEF StoreInit, StoreTypeOK, NoPolicy, PolicyRecord

LEMMA CreateAutomaticTyped ==
  ASSUME StoreTypeOK, NEW draft \in IntentRecord, draft.PolicyID \in Policies,
         NEW id \in IDs, CreateAutomatic(draft, id)
  PROVE  StoreTypeOK'
<1>1. [draft EXCEPT !.ID = id] \in IntentRecord
  BY DEF IntentRecord
<1>2. draft.Subject \in Subjects
  BY DEF IntentRecord
<1> QED
  BY <1>1, <1>2 DEF StoreTypeOK, CreateAutomatic, policyVars

LEMMA CreateExplicitTyped ==
  ASSUME StoreTypeOK, NEW draft \in IntentRecord, NEW id \in IDs,
         CreateExplicit(draft, id)
  PROVE  StoreTypeOK'
<1>1. [draft EXCEPT !.ID = id] \in IntentRecord
  BY DEF IntentRecord
<1> QED
  BY <1>1 DEF StoreTypeOK, CreateExplicit, policyVars

LEMMA AttachRunIDTyped ==
  ASSUME StoreTypeOK, NEW id \in IDs, NEW run \in RunIDs, AttachRunID(id, run)
  PROVE  StoreTypeOK'
<1>1. intents[id] \in IntentRecord
  BY DEF StoreTypeOK, AttachRunID, Exists
<1>2. [intents[id] EXCEPT !.RunID = run] \in IntentRecord
  BY <1>1 DEF IntentRecord
<1> QED
  BY <1>2 DEF StoreTypeOK, AttachRunID, policyVars

LEMMA BlockerTyped ==
  ASSUME NEW in \in IntentRecord, NEW o \in BlockerOwners, NEW b \in BlockerStates
  PROVE  [in EXCEPT !.Blockers[o] = b] \in IntentRecord
<1>1. [in.Blockers EXCEPT ![o] = b] \in Blockers
  BY DEF IntentRecord, Blockers
<1> QED
  BY <1>1 DEF IntentRecord

LEMMA UpdateBlockerTyped ==
  ASSUME StoreTypeOK, NEW id \in IDs, NEW o \in BlockerOwners,
         NEW b \in BlockerStates, UpdateBlocker(id, o, b)
  PROVE  StoreTypeOK'
<1>1. intents[id] \in IntentRecord
  BY DEF StoreTypeOK, UpdateBlocker, Exists
<1>2. [intents[id] EXCEPT !.Blockers[o] = b] \in IntentRecord
  BY <1>1, BlockerTyped
<1> QED
  BY <1>2 DEF StoreTypeOK, UpdateBlocker, indexVars, policyVars

LEMMA ApplyTyped ==
  ASSUME NEW rec \in PolicyRecord, NEW t \in PolicyTransition
  PROVE  Apply(rec, t) \in PolicyRecord
  BY DEF Apply, PolicyRecord, PolicyTransition, OpeningKinds, StopKinds, PolicyStates

LEMMA WithHoldsTyped ==
  ASSUME StoreTypeOK, NEW p \in Policies,
         \A id \in ToHold(p) : intents[id] # Nil
  PROVE  WithHolds(p) \in [IDs -> IntentRecord \cup {Nil}]
<1>1. ASSUME NEW id \in IDs, id \in ToHold(p)
      PROVE  [intents[id] EXCEPT !.Blockers["POLICY_DISABLE"] = "BLOCKED"] \in IntentRecord
  BY <1>1, BlockerTyped, PolicyDisableIsAnOwner DEF StoreTypeOK, BlockerStates
<1> QED
  BY <1>1 DEF WithHolds, StoreTypeOK

LEMMA AppendTyped ==
  ASSUME StoreTypeOK, NEW p \in Policies, NEW n \in Nat, NEW t \in PolicyTransition,
         NEW hold \in BOOLEAN, \A id \in ToHold(p) : intents[id] # Nil,
         AppendPolicyTransition(p, n, t, hold)
  PROVE  StoreTypeOK'
<1> DEFINE entry == [t EXCEPT !.Seq = n + 1]
<1>1. entry \in PolicyTransition
  BY DEF PolicyTransition
<1>2. policyLogs' \in [Policies -> Seq(PolicyTransition)]
  BY <1>1 DEF AppendPolicyTransition, StoreTypeOK
<1>3. policies' \in [Policies -> PolicyRecord]
  BY <1>1, ApplyTyped DEF AppendPolicyTransition, StoreTypeOK
<1>4. intents' \in [IDs -> IntentRecord \cup {Nil}]
  BY WithHoldsTyped DEF AppendPolicyTransition, StoreTypeOK
<1> QED
  BY <1>2, <1>3, <1>4 DEF AppendPolicyTransition, StoreTypeOK, indexVars

(***************************************************************************)
(* The indexes agree with the intents.                                     *)
(***************************************************************************)
LEMMA InitIndexed == StoreInit => IndexesAgree
  BY NilIsFresh DEF StoreInit, IndexesAgree, AutoIndexAgrees, LedgerAgrees,
     RunIndexAgrees, Exists, IsAutomatic

LEMMA CreateAutomaticIndexed ==
  ASSUME StoreTypeOK, IndexesAgree, NEW draft \in IntentRecord,
         draft.Origin = "AUTOMATIC", draft.PolicyID \in Policies, draft.RunID = Nil,
         NEW id \in IDs, CreateAutomatic(draft, id)
  PROVE  IndexesAgree'
<1> DEFINE key == AutoKey(draft)
           new == [draft EXCEPT !.ID = id]
<1>1. /\ id # Nil /\ intents[id] = Nil
      /\ auto[key] = Nil
      /\ auto' = [auto EXCEPT ![key] = id]
      /\ intents' = [intents EXCEPT ![id] = new]
      /\ ops' = ops /\ runs' = runs
  BY NilIsFresh DEF CreateAutomatic, Exists
<1>2. /\ new.Origin = "AUTOMATIC" /\ AutoKey(new) = key /\ new.RunID = Nil
      /\ new # Nil /\ key \in Policies \X Subjects
  BY NilIsFresh DEF IntentRecord, AutoKey
<1>3. \A other \in IDs \ {id} : intents'[other] = intents[other]
  BY <1>1 DEF StoreTypeOK
<1>4. intents'[id] = new
  BY <1>1 DEF StoreTypeOK
<1>5. AutoIndexAgrees'
  <2> SUFFICES ASSUME NEW k \in Policies \X Subjects, NEW other \in IDs
               PROVE  auto'[k] = other <=>
                        IsAutomatic(other)' /\ AutoKey(intents'[other]) = k
    BY DEF AutoIndexAgrees, IsAutomatic, Exists
  <2> HIDE DEF key, new
  <2>1. auto'[k] = IF k = key THEN id ELSE auto[k]
    BY <1>1 DEF StoreTypeOK
  <2>2. CASE other = id
    <3>1. auto[k] # id
      BY <1>1 DEF IndexesAgree, AutoIndexAgrees, IsAutomatic, Exists
    <3> QED
      BY <2>1, <2>2, <3>1, <1>1, <1>2, <1>4 DEF IsAutomatic, Exists
  <2>3. CASE other # id
    BY <2>1, <2>3, <1>1, <1>2, <1>3, NilIsFresh
       DEF IndexesAgree, AutoIndexAgrees, IsAutomatic, Exists
  <2> QED
    BY <2>2, <2>3
<1>6. LedgerAgrees'
  BY <1>1, <1>2, <1>3, <1>4 DEF IndexesAgree, LedgerAgrees, Exists
<1>7. RunIndexAgrees'
  BY <1>1, <1>2, <1>3, <1>4, NilIsFresh DEF IndexesAgree, RunIndexAgrees, Exists
<1> QED
  BY <1>5, <1>6, <1>7 DEF IndexesAgree

LEMMA CreateExplicitIndexed ==
  ASSUME StoreTypeOK, IndexesAgree, NEW draft \in IntentRecord, NEW id \in IDs,
         CreateExplicit(draft, id)
  PROVE  IndexesAgree'
<1> DEFINE new == [draft EXCEPT !.ID = id]
<1>1. /\ id # Nil /\ intents[id] = Nil
      /\ draft.OperationID \in OperationIDs /\ ops[draft.OperationID] = Nil
      /\ ops' = [ops EXCEPT ![draft.OperationID] = id]
      /\ intents' = [intents EXCEPT ![id] = new]
      /\ auto' = auto /\ runs' = runs
  BY NilIsFresh DEF CreateExplicit, CheckExplicitDraft, Exists, IntentRecord
<1>2. /\ new.Origin = "EXPLICIT" /\ new.OperationID = draft.OperationID
      /\ new.RunID = Nil /\ new # Nil
  BY NilIsFresh DEF IntentRecord, CreateExplicit, CheckExplicitDraft
<1>3. \A other \in IDs \ {id} : intents'[other] = intents[other]
  BY <1>1 DEF StoreTypeOK
<1>4. intents'[id] = new
  BY <1>1 DEF StoreTypeOK
<1>5. AutoIndexAgrees'
  <2> SUFFICES ASSUME NEW k \in Policies \X Subjects, NEW other \in IDs
               PROVE  auto[k] = other <=>
                        IsAutomatic(other)' /\ AutoKey(intents'[other]) = k
    BY <1>1 DEF AutoIndexAgrees, IsAutomatic, Exists
  <2>1. CASE other = id
    BY <2>1, <1>1, <1>2, <1>4 DEF IndexesAgree, AutoIndexAgrees, IsAutomatic, Exists
  <2>2. CASE other # id
    BY <2>2, <1>3 DEF IndexesAgree, AutoIndexAgrees, IsAutomatic, Exists
  <2> QED
    BY <2>1, <2>2
<1>6. LedgerAgrees'
  <2> SUFFICES ASSUME NEW o \in OperationIDs, NEW other \in IDs
               PROVE  ops'[o] = other <=>
                        /\ Exists(other)' /\ intents'[other].Origin = "EXPLICIT"
                        /\ intents'[other].OperationID = o
    BY DEF LedgerAgrees
  <2>1. ops'[o] = IF o = draft.OperationID THEN id ELSE ops[o]
    BY <1>1 DEF StoreTypeOK
  <2> QED
    BY <2>1, <1>1, <1>2, <1>3, <1>4 DEF IndexesAgree, LedgerAgrees, Exists
<1>7. RunIndexAgrees'
  BY <1>1, <1>2, <1>3, <1>4, NilIsFresh DEF IndexesAgree, RunIndexAgrees, Exists
<1> QED
  BY <1>5, <1>6, <1>7 DEF IndexesAgree

(* A step that leaves identities, origins, keys and RunIDs alone leaves the
   indexes in agreement: what UpdateBlocker and the holds have in common.  *)
SameButBlockers ==
  /\ UNCHANGED <<auto, ops, runs>>
  /\ \A id \in IDs :
       IF intents[id] = Nil THEN intents'[id] = Nil
       ELSE /\ intents'[id] # Nil
            /\ Frozen(intents'[id]) = Frozen(intents[id])
            /\ intents'[id].RunID = intents[id].RunID

LEMMA FrozenFields ==
  ASSUME NEW a \in IntentRecord, NEW b \in IntentRecord, Frozen(a) = Frozen(b)
  PROVE  /\ a.Origin = b.Origin /\ a.PolicyID = b.PolicyID
         /\ a.OperationID = b.OperationID /\ a.Subject = b.Subject
         /\ a.AdmissionEpoch = b.AdmissionEpoch
         /\ a.PipelineRevision = b.PipelineRevision
<1>1. ASSUME NEW in \in IntentRecord
      PROVE  /\ Frozen(in).Origin = in.Origin /\ Frozen(in).PolicyID = in.PolicyID
             /\ Frozen(in).OperationID = in.OperationID
             /\ Frozen(in).Subject = in.Subject
             /\ Frozen(in).AdmissionEpoch = in.AdmissionEpoch
             /\ Frozen(in).PipelineRevision = in.PipelineRevision
  BY DEF Frozen, IntentRecord
<1> QED
  BY <1>1

LEMMA BlockersOnlyIndexed ==
  ASSUME StoreTypeOK, StoreTypeOK', IndexesAgree, SameButBlockers
  PROVE  IndexesAgree'
<1>1. ASSUME NEW id \in IDs, Exists(id)
      PROVE  /\ Exists(id)'
             /\ intents'[id].RunID = intents[id].RunID
             /\ intents'[id].Origin = intents[id].Origin
             /\ AutoKey(intents'[id]) = AutoKey(intents[id])
             /\ intents'[id].OperationID = intents[id].OperationID
  <2>1. intents[id] \in IntentRecord /\ intents'[id] \in IntentRecord
    BY <1>1 DEF StoreTypeOK, Exists, SameButBlockers
  <2> QED
    BY <1>1, <2>1, FrozenFields DEF SameButBlockers, Exists, AutoKey
<1>2. ASSUME NEW id \in IDs, ~Exists(id)
      PROVE  ~Exists(id)'
  BY <1>2 DEF SameButBlockers, Exists
<1>3. AutoIndexAgrees'
  BY <1>1, <1>2 DEF IndexesAgree, AutoIndexAgrees, IsAutomatic, Exists, SameButBlockers
<1>4. LedgerAgrees'
  BY <1>1, <1>2 DEF IndexesAgree, LedgerAgrees, Exists, SameButBlockers
<1>5. RunIndexAgrees'
  BY <1>1, <1>2 DEF IndexesAgree, RunIndexAgrees, Exists, SameButBlockers
<1> QED
  BY <1>3, <1>4, <1>5 DEF IndexesAgree

LEMMA FrozenUnderUpdate ==
  ASSUME NEW in \in IntentRecord, NEW o \in BlockerOwners, NEW b \in BlockerStates
  PROVE  LET new == [in EXCEPT !.Blockers[o] = b]
         IN  /\ Frozen(new) = Frozen(in) /\ new.RunID = in.RunID
             /\ new.PolicyID = in.PolicyID /\ new # Nil
<1>1. [in EXCEPT !.Blockers[o] = b] # Nil
  BY BlockerTyped, NilIsFresh
<1> QED
  BY <1>1 DEF Frozen, IntentRecord

LEMMA UpdateBlockerOnly ==
  ASSUME StoreTypeOK, NEW id \in IDs, NEW o \in BlockerOwners,
         NEW b \in BlockerStates, UpdateBlocker(id, o, b)
  PROVE  SameButBlockers
<1>1. intents[id] \in IntentRecord
  BY DEF StoreTypeOK, UpdateBlocker, Exists
<1>2. /\ UNCHANGED <<auto, ops, runs>>
      /\ intents'[id] = [intents[id] EXCEPT !.Blockers[o] = b]
      /\ \A other \in IDs \ {id} : intents'[other] = intents[other]
  BY DEF StoreTypeOK, UpdateBlocker, indexVars
<1> DEFINE new == [intents[id] EXCEPT !.Blockers[o] = b]
<1>3. Frozen(new) = Frozen(intents[id]) /\ new.RunID = intents[id].RunID /\ new # Nil
  BY <1>1, FrozenUnderUpdate
<1>4. intents[id] # Nil
  BY DEF UpdateBlocker, Exists
<1> HIDE DEF new
<1>5. ASSUME NEW other \in IDs
      PROVE  IF intents[other] = Nil THEN intents'[other] = Nil
             ELSE /\ intents'[other] # Nil
                  /\ Frozen(intents'[other]) = Frozen(intents[other])
                  /\ intents'[other].RunID = intents[other].RunID
  BY <1>2, <1>3, <1>4 DEF new
<1> QED
  BY <1>2, <1>5 DEF SameButBlockers

LEMMA MembersExist ==
  ASSUME IndexesAgree, NEW p \in Policies, NEW id \in Members(p)
  PROVE  IsAutomatic(id) /\ intents[id].PolicyID = p /\ intents[id] # Nil
<1>1. PICK s \in Subjects : auto[<<p, s>>] = id
  BY DEF Members
<1>2. IsAutomatic(id) /\ AutoKey(intents[id]) = <<p, s>>
  BY <1>1 DEF Members, IndexesAgree, AutoIndexAgrees
<1> QED
  BY <1>2 DEF AutoKey, IsAutomatic, Exists

LEMMA AppendOnlyBlockers ==
  ASSUME StoreTypeOK, IndexesAgree, NEW p \in Policies, NEW n \in Nat,
         NEW t \in PolicyTransition, NEW hold \in BOOLEAN,
         AppendPolicyTransition(p, n, t, hold)
  PROVE  SameButBlockers
<1>1. UNCHANGED <<auto, ops, runs>>
  BY DEF AppendPolicyTransition, indexVars
<1>2. ASSUME NEW id \in IDs, id \in ToHold(p)
      PROVE  intents[id] \in IntentRecord
  BY <1>2, MembersExist DEF ToHold, StoreTypeOK
<1>3. ASSUME NEW id \in IDs
      PROVE  \/ intents'[id] = intents[id]
             \/ /\ id \in ToHold(p)
                /\ intents'[id] = [intents[id] EXCEPT !.Blockers["POLICY_DISABLE"] = "BLOCKED"]
  BY DEF AppendPolicyTransition, WithHolds
<1>4. "POLICY_DISABLE" \in BlockerOwners /\ "BLOCKED" \in BlockerStates
  BY PolicyDisableIsAnOwner DEF BlockerStates
<1>5. ASSUME NEW id \in IDs
      PROVE  IF intents[id] = Nil THEN intents'[id] = Nil
             ELSE /\ intents'[id] # Nil
                  /\ Frozen(intents'[id]) = Frozen(intents[id])
                  /\ intents'[id].RunID = intents[id].RunID
  <2> DEFINE new == [intents[id] EXCEPT !.Blockers["POLICY_DISABLE"] = "BLOCKED"]
  <2>1. CASE intents'[id] = intents[id]
    BY <2>1
  <2>2. CASE id \in ToHold(p) /\ intents'[id] = new
    <3>1. intents[id] \in IntentRecord /\ intents[id] # Nil
      BY <2>2, <1>2, NilIsFresh
    <3>2. Frozen(new) = Frozen(intents[id]) /\ new.RunID = intents[id].RunID /\ new # Nil
      BY <3>1, <1>4, FrozenUnderUpdate
    <3> QED
      BY <2>2, <3>1, <3>2
  <2> QED
    BY <1>3, <2>1, <2>2
<1> QED
  BY <1>1, <1>5 DEF SameButBlockers

LEMMA AttachRunIDIndexed ==
  ASSUME StoreTypeOK, IndexesAgree, NEW id \in IDs, NEW run \in RunIDs,
         AttachRunID(id, run)
  PROVE  IndexesAgree'
<1> DEFINE new == [intents[id] EXCEPT !.RunID = run]
<1>1. /\ Exists(id) /\ intents[id].RunID = Nil /\ runs[run] = Nil
      /\ runs' = [runs EXCEPT ![run] = id]
      /\ auto' = auto /\ ops' = ops
  BY DEF AttachRunID
<1>2. intents[id] \in IntentRecord
  BY <1>1 DEF StoreTypeOK, Exists
<1>3. intents'[id] = new /\ \A other \in IDs \ {id} : intents'[other] = intents[other]
  BY DEF StoreTypeOK, AttachRunID
<1>4. /\ new.Origin = intents[id].Origin /\ AutoKey(new) = AutoKey(intents[id])
      /\ new.OperationID = intents[id].OperationID /\ new.RunID = run
      /\ new # Nil /\ run # Nil
  BY <1>2, NilIsFresh DEF IntentRecord, AutoKey
<1> HIDE DEF new
<1>5. ASSUME NEW other \in IDs
      PROVE  /\ Exists(other)' <=> Exists(other)
             /\ Exists(other) =>
                  /\ intents'[other].Origin = intents[other].Origin
                  /\ AutoKey(intents'[other]) = AutoKey(intents[other])
                  /\ intents'[other].OperationID = intents[other].OperationID
  BY <1>1, <1>3, <1>4 DEF Exists
<1>6. AutoIndexAgrees'
  BY <1>1, <1>5 DEF IndexesAgree, AutoIndexAgrees, IsAutomatic, Exists
<1>7. LedgerAgrees'
  BY <1>1, <1>5 DEF IndexesAgree, LedgerAgrees, Exists
<1>8. RunIndexAgrees'
  <2> SUFFICES ASSUME NEW r \in RunIDs, NEW other \in IDs
               PROVE  runs'[r] = other <=>
                        Exists(other)' /\ intents'[other].RunID = r
    BY DEF RunIndexAgrees, Exists
  <2>1. runs'[r] = IF r = run THEN id ELSE runs[r]
    BY <1>1 DEF StoreTypeOK
  <2>2. CASE other = id
    BY <2>1, <2>2, <1>1, <1>3, <1>4, NilIsFresh DEF IndexesAgree, RunIndexAgrees, Exists
  <2>3. CASE other # id
    <3>1. intents'[other] = intents[other]
      BY <2>3, <1>3
    <3>2. r = run => ~(Exists(other) /\ intents[other].RunID = r)
      BY <1>1, NilIsFresh DEF IndexesAgree, RunIndexAgrees
    <3> QED
      BY <2>1, <2>3, <3>1, <3>2 DEF IndexesAgree, RunIndexAgrees, Exists
  <2> QED
    BY <2>2, <2>3
<1> QED
  BY <1>6, <1>7, <1>8 DEF IndexesAgree

LEMMA UpdateBlockerIndexed ==
  ASSUME StoreTypeOK, IndexesAgree, NEW id \in IDs, NEW o \in BlockerOwners,
         NEW b \in BlockerStates, UpdateBlocker(id, o, b)
  PROVE  IndexesAgree'
  BY UpdateBlockerTyped, UpdateBlockerOnly, BlockersOnlyIndexed

LEMMA AppendKeeps ==
  ASSUME StoreTypeOK, IndexesAgree, NEW p \in Policies, NEW n \in Nat,
         NEW t \in PolicyTransition, NEW hold \in BOOLEAN,
         AppendPolicyTransition(p, n, t, hold)
  PROVE  StoreTypeOK' /\ IndexesAgree'
<1>1. \A id \in ToHold(p) : intents[id] # Nil
  BY MembersExist DEF ToHold
<1>2. StoreTypeOK'
  BY <1>1, AppendTyped
<1> QED
  BY <1>2, AppendOnlyBlockers, BlockersOnlyIndexed

(***************************************************************************)
(* The inductive invariant: the holds of a transition are typed only       *)
(* because every member of the policy's index is a stored intent.          *)
(***************************************************************************)
StoreInv == StoreTypeOK /\ IndexesAgree

LEMMA AutomaticDraftTyped ==
  ASSUME NEW draft \in AutomaticDrafts
  PROVE  /\ draft \in IntentRecord /\ draft.Origin = "AUTOMATIC"
         /\ draft.PolicyID \in Policies /\ draft.RunID = Nil
<1>1. 0..MaxLog \subseteq Nat
  BY StoreConstants
<1> QED
  BY <1>1 DEF AutomaticDrafts, AutomaticDraft, IntentRecord, Origins, Blockers,
     NoBlockers, BlockerStates

LEMMA TransitionTyped ==
  ASSUME NEW t \in Transitions
  PROVE  t \in PolicyTransition /\ (t.Kind \in StopKinds) \in BOOLEAN
  BY StoreConstants DEF Transitions, PolicyTransition, OpeningKinds, StopKinds

LEMMA StoreStep == StoreInv /\ [StoreNext]_storeVars => StoreInv'
<1> SUFFICES ASSUME StoreInv, [StoreNext]_storeVars
             PROVE  StoreInv'
  OBVIOUS
<1> USE DEF StoreInv
<1>1. ASSUME NEW d \in AutomaticDrafts, NEW id \in IDs, CreateAutomatic(d, id)
      PROVE  StoreInv'
  BY <1>1, AutomaticDraftTyped, CreateAutomaticTyped, CreateAutomaticIndexed
<1>2. ASSUME NEW d \in AutomaticDrafts, NEW id \in IDs,
             CreateAutomaticAdmitted(d, d.AdmissionEpoch, id)
      PROVE  StoreInv'
  BY <1>1, <1>2 DEF CreateAutomaticAdmitted
<1>3. ASSUME NEW d \in ExplicitDrafts, NEW id \in IDs, CreateExplicit(d, id)
      PROVE  StoreInv'
  BY <1>3, StoreConstants, CreateExplicitTyped, CreateExplicitIndexed
<1>4. ASSUME NEW id \in IDs, NEW r \in RunIDs, AttachRunID(id, r)
      PROVE  StoreInv'
  BY <1>4, AttachRunIDTyped, AttachRunIDIndexed
<1>5. ASSUME NEW id \in IDs, NEW o \in BlockerOwners, NEW b \in BlockerStates,
             UpdateBlocker(id, o, b)
      PROVE  StoreInv'
  BY <1>5, UpdateBlockerTyped, UpdateBlockerIndexed
<1>6. ASSUME NEW p \in Policies, NEW n \in 0..MaxLog, NEW t \in Transitions,
             AppendPolicyTransition(p, n, t, t.Kind \in StopKinds)
      PROVE  StoreInv'
  <2> DEFINE hold == t.Kind \in StopKinds
  <2>1. n \in Nat /\ t \in PolicyTransition /\ hold \in BOOLEAN
    BY StoreConstants, TransitionTyped
  <2>2. AppendPolicyTransition(p, n, t, hold)
    BY <1>6
  <2> HIDE DEF hold
  <2> QED
    BY <2>1, <2>2, AppendKeeps
<1>7. CASE UNCHANGED storeVars
  BY <1>7 DEF storeVars, StoreTypeOK, IndexesAgree, AutoIndexAgrees, LedgerAgrees,
     RunIndexAgrees, IsAutomatic, Exists
<1> QED
  BY <1>1, <1>2, <1>3, <1>4, <1>5, <1>6, <1>7 DEF StoreNext

(* Every reachable store is well typed. *)
THEOREM StoreTypeCorrect == StoreSpec => []StoreTypeOK
<1>1. StoreInit => StoreInv
  BY InitTyped, InitIndexed DEF StoreInv
<1>2. StoreInv => StoreTypeOK
  BY DEF StoreInv
<1> QED
  BY <1>1, <1>2, StoreStep, PTL DEF StoreSpec

(* The uniqueness index, the operation ledger and the RunID index always
   agree with the stored intents: MemoryStore never shows half a write.    *)
THEOREM StoreIndexesAgree == StoreSpec => []IndexesAgree
<1>1. StoreInit => StoreInv
  BY InitTyped, InitIndexed DEF StoreInv
<1>2. StoreInv => IndexesAgree
  BY DEF StoreInv
<1> QED
  BY <1>1, <1>2, StoreStep, PTL DEF StoreSpec

(***************************************************************************)
(* A stored intent stays as it was stored.                                 *)
(***************************************************************************)

(* A create writes where nothing was stored. *)
LEMMA FreshKeepsFrozen ==
  ASSUME StoreTypeOK, NEW id \in IDs, NEW new, ~Exists(id),
         intents' = [intents EXCEPT ![id] = new]
  PROVE  FrozenStep
<1>1. ASSUME NEW other \in IDs, intents[other] # Nil
      PROVE  intents'[other] = intents[other]
  BY <1>1, NilIsFresh DEF StoreTypeOK, Exists
<1> QED
  BY <1>1 DEF FrozenStep

LEMMA BlockersKeepFrozen == SameButBlockers => FrozenStep
  BY DEF SameButBlockers, FrozenStep

LEMMA AttachKeepsFrozen ==
  ASSUME StoreTypeOK, NEW id \in IDs, NEW run \in RunIDs, AttachRunID(id, run)
  PROVE  FrozenStep
<1> DEFINE new == [intents[id] EXCEPT !.RunID = run]
<1>1. intents[id] \in IntentRecord
  BY DEF StoreTypeOK, AttachRunID, Exists
<1>2. intents[id].RunID = Nil
  BY DEF AttachRunID
<1>3. new \in IntentRecord /\ Frozen(new) = Frozen(intents[id])
  BY <1>1 DEF IntentRecord, Frozen
<1>4. intents'[id] = new /\ \A other \in IDs \ {id} : intents'[other] = intents[other]
  BY DEF StoreTypeOK, AttachRunID
<1> HIDE DEF new
<1> QED
  BY <1>2, <1>3, <1>4, NilIsFresh DEF FrozenStep

LEMMA StoreStepFrozen == StoreInv /\ [StoreNext]_storeVars => [FrozenStep]_storeVars
<1> SUFFICES ASSUME StoreInv, StoreNext
             PROVE  FrozenStep
  OBVIOUS
<1> USE DEF StoreInv
<1>1. ASSUME NEW d, NEW id \in IDs, CreateAutomatic(d, id)
      PROVE  FrozenStep
  BY <1>1, FreshKeepsFrozen DEF CreateAutomatic
<1>2. ASSUME NEW d \in ExplicitDrafts, NEW id \in IDs, CreateExplicit(d, id)
      PROVE  FrozenStep
  BY <1>2, FreshKeepsFrozen DEF CreateExplicit
<1>3. ASSUME NEW id \in IDs, NEW r \in RunIDs, AttachRunID(id, r)
      PROVE  FrozenStep
  BY <1>3, AttachKeepsFrozen
<1>4. ASSUME NEW id \in IDs, NEW o \in BlockerOwners, NEW b \in BlockerStates,
             UpdateBlocker(id, o, b)
      PROVE  FrozenStep
  BY <1>4, UpdateBlockerOnly, BlockersKeepFrozen
<1>5. ASSUME NEW p \in Policies, NEW n \in 0..MaxLog, NEW t \in Transitions,
             AppendPolicyTransition(p, n, t, t.Kind \in StopKinds)
      PROVE  FrozenStep
  <2> DEFINE hold == t.Kind \in StopKinds
  <2>1. n \in Nat /\ t \in PolicyTransition /\ hold \in BOOLEAN
    BY StoreConstants, TransitionTyped
  <2>2. AppendPolicyTransition(p, n, t, hold)
    BY <1>5
  <2> HIDE DEF hold
  <2> QED
    BY <2>1, <2>2, AppendOnlyBlockers, BlockersKeepFrozen
<1> QED
  BY <1>1, <1>2, <1>3, <1>4, <1>5 DEF StoreNext, CreateAutomaticAdmitted

(* No method of the store rewrites or deletes an intent: whoever calls it, in
   whatever order, its identity, origin, revisions and epoch stay as they
   were stored and its RunID is attached once.                             *)
THEOREM StoreFreezesIntents == StoreSpec => FrozenOnceStored
<1>1. StoreInit => StoreInv
  BY InitTyped, InitIndexed DEF StoreInv
<1> QED
  BY <1>1, StoreStep, StoreStepFrozen, PTL DEF StoreSpec, FrozenOnceStored

(***************************************************************************)
(* Only a stop holds intents, and it holds only unassigned ones of its own *)
(* policy.                                                                 *)
(***************************************************************************)

(* A transition leaves every other policy's log alone and ends its own. *)
LEMMA AppendEndsLog ==
  ASSUME StoreTypeOK, NEW p \in Policies, NEW n, NEW t \in PolicyTransition, NEW hold,
         AppendPolicyTransition(p, n, t, hold)
  PROVE  /\ Last(policyLogs'[p]).Kind = t.Kind
         /\ \A q \in Policies \ {p} : policyLogs'[q] = policyLogs[q]
<1> DEFINE entry == [t EXCEPT !.Seq = n + 1]
<1>1. entry.Kind = t.Kind
  BY DEF PolicyTransition
<1>2. policyLogs[p] \in Seq(PolicyTransition)
  BY DEF StoreTypeOK
<1>3. policyLogs' = [policyLogs EXCEPT ![p] = Append(@, entry)]
  BY DEF AppendPolicyTransition
<1> HIDE DEF entry
<1>4. policyLogs'[p] = Append(policyLogs[p], entry)
  BY <1>3 DEF StoreTypeOK
<1>5. Last(Append(policyLogs[p], entry)) = entry
  BY <1>2 DEF Last
<1>6. \A q \in Policies \ {p} : policyLogs'[q] = policyLogs[q]
  BY <1>3 DEF StoreTypeOK
<1> QED
  BY <1>1, <1>4, <1>5, <1>6

LEMMA AppendOnlyHolds ==
  ASSUME StoreTypeOK, IndexesAgree, NEW p \in Policies, NEW n,
         NEW t \in PolicyTransition, NEW hold \in BOOLEAN, hold = (t.Kind \in StopKinds),
         AppendPolicyTransition(p, n, t, hold)
  PROVE  HoldStep
<1> SUFFICES ASSUME NEW id \in IDs, NEW q \in Policies, NEW o \in BlockerOwners,
                    policyLogs'[q] # policyLogs[q], intents[id] # Nil,
                    intents[id].Blockers[o] # intents'[id].Blockers[o]
             PROVE  /\ o = "POLICY_DISABLE" /\ intents'[id].Blockers[o] = "BLOCKED"
                    /\ intents[id].PolicyID = q /\ intents[id].RunID = Nil
                    /\ Last(policyLogs'[q]).Kind \in StopKinds
  BY DEF HoldStep
<1>1. q = p /\ Last(policyLogs'[p]).Kind = t.Kind
  BY AppendEndsLog
<1>2. /\ t.Kind \in StopKinds /\ id \in ToHold(p)
      /\ intents'[id] = [intents[id] EXCEPT !.Blockers["POLICY_DISABLE"] = "BLOCKED"]
  BY DEF AppendPolicyTransition, WithHolds
<1>3. id \in Members(p) /\ intents[id].RunID = Nil
  BY <1>2 DEF ToHold
<1>4. intents[id].PolicyID = p
  BY <1>3, MembersExist
<1>5. intents[id] \in IntentRecord
  BY DEF StoreTypeOK
<1>6. intents[id].Blockers \in Blockers
  BY <1>5 DEF IntentRecord
<1>7. intents'[id].Blockers = [intents[id].Blockers EXCEPT !["POLICY_DISABLE"] = "BLOCKED"]
  BY <1>2, <1>5 DEF IntentRecord
<1>8. o = "POLICY_DISABLE" /\ intents'[id].Blockers[o] = "BLOCKED"
  BY <1>6, <1>7, PolicyDisableIsAnOwner DEF Blockers
<1> QED
  BY <1>1, <1>2, <1>3, <1>4, <1>8

LEMMA StoreStepHolds == StoreInv /\ [StoreNext]_storeVars => [HoldStep]_storeVars
<1> SUFFICES ASSUME StoreInv, StoreNext
             PROVE  HoldStep
  OBVIOUS
<1>1. CASE policyLogs' = policyLogs
  BY <1>1 DEF HoldStep
<1>2. ASSUME NEW p \in Policies, NEW n \in 0..MaxLog, NEW t \in Transitions,
             AppendPolicyTransition(p, n, t, t.Kind \in StopKinds)
      PROVE  HoldStep
  <2> DEFINE hold == t.Kind \in StopKinds
  <2>1. t \in PolicyTransition /\ hold \in BOOLEAN
    BY TransitionTyped
  <2>2. AppendPolicyTransition(p, n, t, hold) /\ hold = (t.Kind \in StopKinds)
    BY <1>2
  <2> HIDE DEF hold
  <2> QED
    BY <2>1, <2>2, AppendOnlyHolds DEF StoreInv
<1> QED
  BY <1>1, <1>2 DEF StoreNext, CreateAutomatic, CreateAutomaticAdmitted, CreateExplicit,
     AttachRunID, UpdateBlocker, policyVars

(* No transition of a policy, appended by any caller, releases a blocker,
   holds an intent of another policy or one a run is attached to, and only a
   disable or a tombstone holds anything: re-enabling releases nothing.    *)
THEOREM StoreTransitionsOnlyHold == StoreSpec => TransitionsOnlyHold
<1>1. StoreInit => StoreInv
  BY InitTyped, InitIndexed DEF StoreInv
<1> QED
  BY <1>1, StoreStep, StoreStepHolds, PTL DEF StoreSpec, TransitionsOnlyHold

(***************************************************************************)
(* Induction by least counterexample.                                      *)
(***************************************************************************)
LEMMA LeastNat ==
  ASSUME NEW T \in SUBSET Nat, T # {}
  PROVE  \E i \in T : \A j \in T : i <= j
<1> DEFINE R == OpToRel(<, Nat)
<1>1. IsWellFoundedOn(R, Nat)
  BY NatLessThanWellFounded
<1>2. ASSUME NEW x \in Nat, NEW y \in Nat, x < y PROVE <<x, y>> \in R
  BY <1>2 DEF OpToRel
<1> HIDE DEF R
<1>3. PICK x \in T : \A y \in T : ~ (<<y, x>> \in R)
  BY <1>1, WFMin
<1>4. ASSUME NEW y \in T PROVE x <= y
  <2>1. x \in Nat /\ y \in Nat /\ ~ (<<y, x>> \in R)
    BY <1>3
  <2> QED
    BY <2>1, <1>2
<1> QED
  BY <1>4

IsFold(f, log) ==
  f = [s \in SUBSET DOMAIN log |->
         IF s = {} THEN NoPolicy ELSE Apply(f[s \ {Max(s)}], log[Max(s)])]

LEMMA FoldIsChosen ==
  ASSUME NEW log
  PROVE  FoldLeft(Apply, NoPolicy, log) = (CHOOSE f : IsFold(f, log))[DOMAIN log]
BY DEF FoldLeft, MapThenFoldSet, IsFold

(***************************************************************************)
(* FoldLeft is a recursive function on the sets of a sequence's indices,   *)
(* which takes the last index of a set first.  Nothing but Apply is folded *)
(* in these modules, so the lemmas are about it.                           *)
(***************************************************************************)
LEMMA MaxOf ==
  ASSUME NEW n \in Nat, NEW s \in SUBSET (1..n), s # {}
  PROVE  Max(s) \in s
<1> DEFINE T == {n - m : m \in s}
<1>1. T \in SUBSET Nat /\ T # {}
  <2>1. \A m \in s : n - m \in Nat
    OBVIOUS
  <2> QED
    BY <2>1
<1>2. PICK i \in T : \A j \in T : i <= j
  BY <1>1, LeastNat
<1>3. PICK m \in s : i = n - m
  BY <1>2
<1>4. \A y \in s : m >= y
  BY <1>2, <1>3
<1> QED
  BY <1>3, <1>4 DEF Max

LEMMA LastIsMax ==
  ASSUME NEW n \in Nat, NEW s \in SUBSET (1..n), n \in s
  PROVE  Max(s) = n
<1>1. \A m \in s : (\A y \in s : m >= y) <=> m = n
  OBVIOUS
<1> QED
  BY <1>1 DEF Max

LEMMA PrefixOf ==
  ASSUME NEW n \in Nat, NEW k \in 1..n
  PROVE  k \in Nat /\ k \in 1..k /\ (1..k) \ {k} = 1..(k - 1)
OBVIOUS

LEMMA FoldValue ==
  ASSUME NEW T, NEW log \in Seq(T), NEW f, IsFold(f, log), NEW k \in 1..Len(log)
  PROVE  f[1..k] = Apply(f[1..(k - 1)], log[k])
<1>1. k \in Nat /\ k \in 1..k /\ (1..k) \ {k} = 1..(k - 1)
  BY PrefixOf
<1>2. Max(1..k) = k
  BY <1>1, LastIsMax
<1>3. 1..k \in SUBSET DOMAIN log
  OBVIOUS
<1> QED
  BY <1>1, <1>2, <1>3 DEF IsFold

(* Two folds agree on a prefix the logs share. *)
LEMMA FoldsAgree ==
  ASSUME NEW T, NEW a \in Seq(T), NEW b \in Seq(T), NEW f, NEW g,
         IsFold(f, a), IsFold(g, b),
         NEW n \in Nat, n <= Len(a), n <= Len(b), \A i \in 1..n : a[i] = b[i]
  PROVE  f[1..n] = g[1..n]
<1> DEFINE bad == {k \in 0..n : f[1..k] # g[1..k]}
<1>1. ASSUME NEW k \in 1..n
      PROVE  /\ f[1..k] = Apply(f[1..(k - 1)], a[k])
             /\ g[1..k] = Apply(g[1..(k - 1)], b[k])
  <2>1. k \in 1..Len(a) /\ k \in 1..Len(b)
    OBVIOUS
  <2> QED
    BY <2>1, FoldValue
<1>2. f[{}] = NoPolicy /\ g[{}] = NoPolicy
  BY DEF IsFold
<1>3. CASE bad # {}
  <2>0. bad \in SUBSET Nat
    OBVIOUS
  <2>1. PICK k \in bad : \A j \in bad : k <= j
    <3> HIDE DEF bad
    <3> QED
      BY <1>3, <2>0, LeastNat
  <2>2. k # 0
    BY <2>1, <1>2
  <2>3. k - 1 \in 0..n /\ k - 1 \notin bad /\ k \in 1..n
    BY <2>1, <2>2
  <2> QED
    BY <2>1, <2>3, <1>1
<1>4. CASE bad = {}
  BY <1>4
<1> QED
  BY <1>3, <1>4

(* Every log has a fold. *)
LEMMA FoldExtends ==
  ASSUME NEW T, NEW log \in Seq(T), NEW t \in T, NEW f, IsFold(f, log)
  PROVE  \E g : IsFold(g, Append(log, t))
<1> DEFINE n == Len(log) + 1
           new == Append(log, t)
           g == [s \in SUBSET (1..n) |->
                   IF n \in s THEN Apply(f[s \ {n}], t) ELSE f[s]]
<1>1. n \in Nat /\ DOMAIN new = 1..n /\ DOMAIN log = 1..(n - 1)
  OBVIOUS
<1>2. new[n] = t /\ \A i \in 1..(n - 1) : new[i] = log[i]
  OBVIOUS
<1> HIDE DEF new
<1>3. ASSUME NEW s \in SUBSET (1..n)
      PROVE  g[s] = IF s = {} THEN NoPolicy
                    ELSE Apply(g[s \ {Max(s)}], new[Max(s)])
  <2>3. CASE n \in s
    <3>1. Max(s) = n
      BY <1>1, <2>3, LastIsMax
    <3>2. g[s] = Apply(f[s \ {n}], t) /\ g[s \ {n}] = f[s \ {n}]
      BY <2>3
    <3> QED
      BY <1>2, <2>3, <3>1, <3>2
  <2>4. CASE n \notin s
    <3>1. s \in SUBSET DOMAIN log /\ s \in SUBSET (1..(n - 1))
      BY <1>1, <2>4
    <3>2. f[s] = IF s = {} THEN NoPolicy ELSE Apply(f[s \ {Max(s)}], log[Max(s)])
      BY <3>1 DEF IsFold
    <3>3. g[s] = f[s] /\ g[s \ {Max(s)}] = f[s \ {Max(s)}]
      BY <2>4
    <3>4. s # {} => Max(s) \in s
      BY <1>1, <3>1, MaxOf
    <3>5. s # {} => Max(s) \in 1..(n - 1)
      BY <3>1, <3>4
    <3> QED
      BY <1>2, <3>2, <3>3, <3>5
  <2> QED
    BY <2>3, <2>4
<1>4. g = [s \in SUBSET DOMAIN new |->
            IF s = {} THEN NoPolicy ELSE Apply(g[s \ {Max(s)}], new[Max(s)])]
  BY <1>1, <1>3
<1>5. IsFold(g, new)
  BY <1>4 DEF IsFold
<1> HIDE DEF g
<1> QED
  BY <1>5 DEF new

(* Every log has a fold. *)
LEMMA FoldExists ==
  ASSUME NEW T
  PROVE  \A log \in Seq(T) : \E f : IsFold(f, log)
<1> DEFINE bad == {n \in Nat : \E log \in Seq(T) : Len(log) = n /\ ~ \E f : IsFold(f, log)}
<1>1. CASE bad # {}
  <2>1. PICK n \in bad : \A j \in bad : n <= j
    <3>1. bad \in SUBSET Nat
      OBVIOUS
    <3> HIDE DEF bad
    <3> QED
      BY <1>1, <3>1, LeastNat
  <2>2. PICK log \in Seq(T) : Len(log) = n /\ ~ \E f : IsFold(f, log)
    BY <2>1
  <2>3. CASE n = 0
    <3>1. DOMAIN log = {}
      BY <2>2, <2>3
    <3> DEFINE f == [s \in SUBSET DOMAIN log |-> NoPolicy]
    <3>2. IsFold(f, log)
      BY <3>1 DEF IsFold
    <3> HIDE DEF f
    <3> QED
      BY <2>2, <3>2
  <2>4. CASE n # 0
    <3>1. PICK front \in Seq(T), t \in T : log = Append(front, t) /\ Len(front) = n - 1
      <4>1. SubSeq(log, 1, n - 1) \in Seq(T) /\ log[n] \in T
        BY <2>2, <2>4
      <4>2. Len(SubSeq(log, 1, n - 1)) = n - 1
        BY <2>2, <2>4
      <4>3. log = Append(SubSeq(log, 1, n - 1), log[n])
        BY <2>2, <2>4, <4>1, <4>2
      <4> QED
        BY <4>1, <4>2, <4>3
    <3>2. n - 1 \notin bad /\ n - 1 \in Nat
      BY <2>1, <2>4
    <3>3. PICK f : IsFold(f, front)
      BY <3>1, <3>2
    <3> QED
      BY <2>2, <3>1, <3>3, FoldExtends
  <2> QED
    BY <2>3, <2>4
<1>2. CASE bad = {}
  BY <1>2
<1> QED
  BY <1>1, <1>2

(* What FoldLeft returns: nothing for no entry, and one Apply more for one
   entry more.                                                             *)
LEMMA FoldOfNone == FoldLeft(Apply, NoPolicy, <<>>) = NoPolicy
<1>1. PICK f : IsFold(f, <<>>)
  <2>1. <<>> \in Seq(Nat)
    OBVIOUS
  <2> QED
    BY <2>1, FoldExists
<1> DEFINE g == CHOOSE h : IsFold(h, <<>>)
<1>2. IsFold(g, <<>>)
  BY <1>1
<1> HIDE DEF g
<1>3. g[DOMAIN <<>>] = NoPolicy
  BY <1>2 DEF IsFold
<1> QED
  BY <1>3, FoldIsChosen DEF g

LEMMA FoldOfPrefix ==
  ASSUME NEW T, NEW log \in Seq(T), NEW f, IsFold(f, log), NEW n \in 0..Len(log)
  PROVE  FoldLeft(Apply, NoPolicy, SubSeq(log, 1, n)) = f[1..n]
<1> DEFINE head == SubSeq(log, 1, n)
           g == CHOOSE h : IsFold(h, head)
<1>1. /\ head \in Seq(T) /\ Len(head) = n /\ DOMAIN head = 1..n
      /\ \A i \in 1..n : log[i] = head[i]
  OBVIOUS
<1> HIDE DEF head
<1>2. IsFold(g, head)
  BY <1>1, FoldExists
<1>3. FoldLeft(Apply, NoPolicy, head) = g[1..n]
  BY <1>1, FoldIsChosen
<1> HIDE DEF g
<1>4. f[1..n] = g[1..n]
  BY <1>1, <1>2, FoldsAgree
<1> QED
  BY <1>3, <1>4 DEF head

LEMMA FoldOfMore ==
  ASSUME NEW T, NEW log \in Seq(T), NEW t \in T
  PROVE  FoldLeft(Apply, NoPolicy, Append(log, t))
           = Apply(FoldLeft(Apply, NoPolicy, log), t)
<1> DEFINE new == Append(log, t)
           n == Len(log)
<1>1. /\ new \in Seq(T) /\ Len(new) = n + 1 /\ new[n + 1] = t
      /\ n \in 0..Len(new) /\ n + 1 \in 0..Len(new) /\ n + 1 \in 1..Len(new)
      /\ SubSeq(new, 1, n) = log /\ SubSeq(new, 1, n + 1) = new /\ (n + 1) - 1 = n
  OBVIOUS
<1> HIDE DEF new
<1>2. PICK f : IsFold(f, new)
  BY <1>1, FoldExists
<1>3. FoldLeft(Apply, NoPolicy, log) = f[1..n]
  BY <1>1, <1>2, FoldOfPrefix
<1>4. FoldLeft(Apply, NoPolicy, new) = f[1..(n + 1)]
  BY <1>1, <1>2, FoldOfPrefix
<1>5. f[1..(n + 1)] = Apply(f[1..n], t)
  BY <1>1, <1>2, FoldValue
<1> QED
  BY <1>3, <1>4, <1>5 DEF new

(***************************************************************************)
(* A policy's record is its log, folded.                                   *)
(***************************************************************************)
LEMMA InitFolds == StoreInit => PolicyFoldsLog
  BY FoldOfNone DEF StoreInit, PolicyFoldsLog, NoPolicy

LEMMA AppendFolds ==
  ASSUME StoreTypeOK, PolicyFoldsLog, NEW p \in Policies, NEW n \in Nat,
         NEW t \in PolicyTransition, NEW hold, AppendPolicyTransition(p, n, t, hold)
  PROVE  PolicyFoldsLog'
<1> DEFINE entry == [t EXCEPT !.Seq = n + 1]
<1>1. entry \in PolicyTransition /\ entry.Seq = n + 1
  BY DEF PolicyTransition
<1>2. /\ policyLogs[p] \in Seq(PolicyTransition) /\ Len(policyLogs[p]) = n
      /\ policyLogs' = [policyLogs EXCEPT ![p] = Append(@, entry)]
      /\ policies' = [policies EXCEPT ![p] = Apply(@, entry)]
  BY DEF StoreTypeOK, AppendPolicyTransition, SeqIsCurrent
<1> HIDE DEF entry
<1>3. /\ policyLogs'[p] = Append(policyLogs[p], entry)
      /\ policies'[p] = Apply(policies[p], entry)
      /\ \A q \in Policies \ {p} : policyLogs'[q] = policyLogs[q] /\ policies'[q] = policies[q]
  BY <1>2 DEF StoreTypeOK
<1>4. policies[p] = FoldLeft(Apply, NoPolicy, policyLogs[p])
  BY DEF PolicyFoldsLog
<1>5. policies'[p] = FoldLeft(Apply, NoPolicy, policyLogs'[p])
  <2>1. FoldLeft(Apply, NoPolicy, Append(policyLogs[p], entry))
          = Apply(FoldLeft(Apply, NoPolicy, policyLogs[p]), entry)
    BY <1>1, <1>2, FoldOfMore
  <2> QED
    BY <1>3, <1>4, <2>1
<1>6. policies'[p].Seq = Len(policyLogs'[p])
  <2>1. policies'[p].Seq = n + 1
    BY <1>1, <1>3 DEF Apply
  <2>2. Len(policyLogs'[p]) = n + 1
    BY <1>1, <1>2, <1>3
  <2> QED
    BY <2>1, <2>2
<1> QED
  BY <1>3, <1>5, <1>6 DEF PolicyFoldsLog

LEMMA StoreStepFolds ==
  StoreTypeOK /\ PolicyFoldsLog /\ [StoreNext]_storeVars => PolicyFoldsLog'
<1> SUFFICES ASSUME StoreTypeOK, PolicyFoldsLog, [StoreNext]_storeVars
             PROVE  PolicyFoldsLog'
  OBVIOUS
<1>1. CASE UNCHANGED policyVars
  BY <1>1 DEF PolicyFoldsLog, policyVars
<1>2. ASSUME NEW p \in Policies, NEW n \in 0..MaxLog, NEW t \in Transitions,
             AppendPolicyTransition(p, n, t, t.Kind \in StopKinds)
      PROVE  PolicyFoldsLog'
  <2>1. n \in Nat /\ t \in PolicyTransition
    BY StoreConstants, TransitionTyped
  <2> QED
    BY <1>2, <2>1, AppendFolds
<1> QED
  BY <1>1, <1>2 DEF StoreNext, storeVars, policyVars, CreateAutomatic,
     CreateAutomaticAdmitted, CreateExplicit, AttachRunID, UpdateBlocker

(* A policy's record is always the fold of its log, and its Seq the log's
   length: the number a caller compares with is the number of transitions,
   and a stop never loses the frontier of the epoch it stopped.            *)
THEOREM StorePolicyFoldsLog == StoreSpec => []PolicyFoldsLog
<1>1. StoreInit => StoreInv /\ PolicyFoldsLog
  BY InitTyped, InitIndexed, InitFolds DEF StoreInv
<1>2. StoreInv /\ PolicyFoldsLog /\ [StoreNext]_storeVars => (StoreInv /\ PolicyFoldsLog)'
  BY StoreStep, StoreStepFolds DEF StoreInv
<1> QED
  BY <1>1, <1>2, PTL DEF StoreSpec
=============================================================================
