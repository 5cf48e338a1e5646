------------------------------- MODULE Intent -------------------------------
(***************************************************************************)
(* The values of package intent: the records of intent.go and admission.go *)
(* and the pure functions on them.  Names, identities and revisions are    *)
(* opaque in the code, so they are elements of constant sets; Nil is Go's  *)
(* zero value (the empty string, the nil position, the absent map entry).  *)
(***************************************************************************)
EXTENDS Naturals, Sequences

CONSTANTS
  IDs,                \* intent IDs the allocator can draw (UUIDs)
  Policies,           \* AutoRunPolicyIDs
  PolicyRevisions,    \* AutoRunPolicyRevisions
  Subjects,           \* InputBindingSubjectIdentities
  PipelineRevisions,  \* PipelineRevisionRefs
  OperationIDs,
  RunIDs,
  Positions,          \* publication positions, of every admission domain
  PublishedBefore,    \* the authority's order: pairs <<p, q>>, p before q
  BlockerOwners,      \* the authorities that can hold an intent; four in the code
  Nil

(***************************************************************************)
(* PublicationPosition is an interface the caller implements: a strict     *)
(* partial order, in which positions of two domains are incomparable.      *)
(***************************************************************************)
ASSUME PublicationOrder ==
  /\ PublishedBefore \subseteq Positions \X Positions
  /\ \A p \in Positions : <<p, p>> \notin PublishedBefore
  /\ \A p, q, r \in Positions :
       <<p, q>> \in PublishedBefore /\ <<q, r>> \in PublishedBefore
         => <<p, r>> \in PublishedBefore

ASSUME PolicyDisableIsAnOwner == "POLICY_DISABLE" \in BlockerOwners

Origins == {"AUTOMATIC", "EXPLICIT"}
PolicyStates == {"ACTIVE", "DISABLED", "RETIRED"}
OpeningKinds == {"ACTIVATE", "REENABLE"}
StopKinds == {"DISABLE", "RETIRE"}
Classes == {"NEW", "REEXPRESSION", "UNKNOWN"}
BlockerStates == {"CLEAR", "BLOCKED", "UNKNOWN"}

Blockers == [BlockerOwners -> BlockerStates]
NoBlockers == [o \in BlockerOwners |-> "CLEAR"]

(***************************************************************************)
(* A stored RunGenerationIntent, and a draft of one (ID = Nil).            *)
(***************************************************************************)
IntentRecord ==
  [ID : IDs \cup {Nil}, Origin : Origins,
   PolicyID : Policies \cup {Nil}, PolicyRevision : PolicyRevisions \cup {Nil},
   OperationID : OperationIDs \cup {Nil}, Subject : Subjects,
   PipelineRevision : PipelineRevisions, RunID : RunIDs \cup {Nil},
   AdmissionEpoch : Nat, Blockers : Blockers]

(* Go's zero value is none of the values a caller passes, and no intent. *)
ASSUME NilIsFresh ==
  /\ Nil \notin IDs \cup Policies \cup PolicyRevisions \cup Subjects
  /\ Nil \notin PipelineRevisions \cup OperationIDs \cup RunIDs \cup Positions
  /\ Nil \notin IntentRecord

AutomaticDraft(p, prev, s, rev, epoch) ==
  [ID |-> Nil, Origin |-> "AUTOMATIC", PolicyID |-> p, PolicyRevision |-> prev,
   OperationID |-> Nil, Subject |-> s, PipelineRevision |-> rev, RunID |-> Nil,
   AdmissionEpoch |-> epoch, Blockers |-> NoBlockers]

ExplicitDraft(o, s, rev) ==
  [ID |-> Nil, Origin |-> "EXPLICIT", PolicyID |-> Nil, PolicyRevision |-> Nil,
   OperationID |-> o, Subject |-> s, PipelineRevision |-> rev, RunID |-> Nil,
   AdmissionEpoch |-> 0, Blockers |-> NoBlockers]

(* Mutant: a preset RunID is let through. *)
CheckExplicitDraftAnyRun(draft) ==
  /\ draft.Origin = "EXPLICIT"
  /\ draft.OperationID # Nil
  /\ draft.PolicyID = Nil /\ draft.PolicyRevision = Nil /\ draft.AdmissionEpoch = 0

(* The explicit write path takes only a fresh explicit draft. *)
CheckExplicitDraft(draft) ==
  /\ draft.Origin = "EXPLICIT"
  /\ draft.OperationID # Nil
  /\ draft.PolicyID = Nil /\ draft.PolicyRevision = Nil /\ draft.AdmissionEpoch = 0
  /\ draft.RunID = Nil

SameExplicitSemantics(stored, draft) ==
  /\ stored.Origin = draft.Origin
  /\ stored.Subject = draft.Subject
  /\ stored.PipelineRevision = draft.PipelineRevision

(* What a replay reports of the revisions it observed: which of them differ
   from the frozen ones.                                                   *)
Divergence(stored, prev, rev) ==
  {x \in {"POLICY_REVISION", "PIPELINE_REVISION"} :
     \/ x = "POLICY_REVISION" /\ stored.PolicyRevision # prev
     \/ x = "PIPELINE_REVISION" /\ stored.PipelineRevision # rev}

(***************************************************************************)
(* The publication order.  cmp = 0 is the same position.                   *)
(***************************************************************************)
Comparable(p, q) ==
  p = q \/ <<p, q>> \in PublishedBefore \/ <<q, p>> \in PublishedBefore
After(p, q) == <<q, p>> \in PublishedBefore

(***************************************************************************)
(* Policy records and the log they are folded from.                        *)
(***************************************************************************)
PolicyTransition ==
  [Seq : Nat, Kind : OpeningKinds \cup StopKinds, Epoch : Nat,
   Frontier : Positions \cup {Nil}]
PolicyRecord ==
  [State : PolicyStates \cup {Nil}, Epoch : Nat,
   Frontier : Positions \cup {Nil}, Seq : Nat]
NoPolicy == [State |-> Nil, Epoch |-> 0, Frontier |-> Nil, Seq |-> 0]

Apply(rec, t) ==
  [State |-> CASE t.Kind \in OpeningKinds -> "ACTIVE"
               [] t.Kind = "DISABLE" -> "DISABLED"
               [] t.Kind = "RETIRE" -> "RETIRED",
   Epoch |-> t.Epoch,
   Frontier |-> IF t.Kind \in OpeningKinds THEN t.Frontier ELSE rec.Frontier,
   Seq |-> t.Seq]

(* The first admission rule a publication breaks, "" when it breaks none. *)
Reason(rec, facts) ==
  CASE rec.State # "ACTIVE" -> "POLICY_NOT_ACTIVE"
    [] rec.State = "ACTIVE" /\ facts.Class = "REEXPRESSION" -> "OCCURRENCE_NOT_NEW"
    [] rec.State = "ACTIVE" /\ facts.Class = "UNKNOWN" -> "OCCURRENCE_UNKNOWN"
    [] OTHER ->
         IF facts.Position = Nil THEN "POSITION_UNKNOWN"
         ELSE IF ~Comparable(facts.Position, rec.Frontier) THEN "POSITION_NOT_COMPARABLE"
         ELSE IF ~After(facts.Position, rec.Frontier) THEN "PRE_FRONTIER" ELSE ""
=============================================================================
