--------------------------- MODULE MCIntentService ---------------------------
(* Small instances of IntentService.  Two admission domains: a1 < a2 < a3 in
   one, b1 alone in the other.  Each configuration picks the request sets
   and the blocker updates of one group of operations.                     *)
EXTENDS IntentRefinement

CONSTANTS a1, a2, a3, b1, rev1, rev2

MCPublishedBefore == {<<a1, a2>>, <<a2, a3>>, <<a1, a3>>}

Admit(publications) ==
  [Call : {"AdmitAutomatic"}, PolicyID : Policies, PolicyRevision : PolicyRevisions,
   Subject : Subjects, PipelineRevision : PipelineRevisions, Facts : publications]
Enable(frontiers) == [Call : {"EnablePolicy"}, PolicyID : Policies, Frontier : frontiers]
Stop(calls) == [Call : calls, PolicyID : Policies]
Explicit ==
  [Call : {"CreateExplicit"}, OperationID : OperationIDs, Subject : Subjects,
   PipelineRevision : PipelineRevisions]
Acceptance ==
  [Call : {"RecordDisabledAcceptance"}, ID : IDs, Observation : {"ACCEPTED", "UNKNOWN"}]

New(positions) == [Position : positions, Class : {"NEW"}]
Odd == {[Position |-> a3, Class |-> "REEXPRESSION"], [Position |-> a3, Class |-> "UNKNOWN"],
        [Position |-> Nil, Class |-> "NEW"]}

GateRequests == Admit(New({a2, a3}) \cup Odd) \cup Enable({a1, a2, b1}) \cup Stop(StopCalls)
HoldRequests == Admit(New({a3})) \cup Enable({a1}) \cup Stop(StopCalls) \cup Acceptance
IdentityRequests == Explicit \cup Admit(New({a3})) \cup Enable({a1})
TerminationRequests == HoldRequests \cup Explicit

NoUpdates == {}
Releases == {[Owner |-> "POLICY_DISABLE", State |-> "CLEAR"]}

CallerSymmetry == Permutations(Callers)
IdentitySymmetry == CallerSymmetry \cup Permutations(IDs) \cup Permutations(Subjects)
=============================================================================
