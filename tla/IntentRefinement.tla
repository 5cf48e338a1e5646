-------------------------- MODULE IntentRefinement --------------------------
(***************************************************************************)
(* The service, with its concurrent calls and its store, implements        *)
(* IntentPromise: what the promise knows of a domain is read off the       *)
(* store's indexes and intents, and each call takes effect at its one      *)
(* writing step.                                                           *)
(***************************************************************************)
EXTENDS IntentService

(* The absence of a decision is no decision. *)
ASSUME NilIsNoDecision ==
  /\ Nil \notin [PolicyRevision : PolicyRevisions \cup {Nil},
                 PipelineRevision : PipelineRevisions, Facts : Facts, Epoch : Nat,
                 RunID : RunIDs \cup {Nil}, Held : BOOLEAN]
  /\ Nil \notin [Subject : Subjects, PipelineRevision : PipelineRevisions,
                 RunID : RunIDs \cup {Nil}]

DecisionAt(k) ==
  LET id == auto[k] IN
  IF id = Nil THEN Nil
  ELSE [PolicyRevision |-> intents[id].PolicyRevision,
        PipelineRevision |-> intents[id].PipelineRevision,
        Facts |-> facts[id], Epoch |-> intents[id].AdmissionEpoch,
        RunID |-> intents[id].RunID,
        Held |-> intents[id].Blockers["POLICY_DISABLE"] # "CLEAR"]

RequestAt(o) ==
  LET id == ops[o] IN
  IF id = Nil THEN Nil
  ELSE [Subject |-> intents[id].Subject,
        PipelineRevision |-> intents[id].PipelineRevision,
        RunID |-> intents[id].RunID]

StatusOf(p) ==
  [State |-> policies[p].State, Epoch |-> policies[p].Epoch,
   Frontier |-> policies[p].Frontier]

Promise ==
  INSTANCE IntentPromise WITH
    automatic <- [k \in Policies \X Subjects |-> DecisionAt(k)],
    explicit <- [o \in OperationIDs |-> RequestAt(o)],
    lifecycle <- [p \in Policies |-> StatusOf(p)],
    committed <- committed

(* Every behaviour of the service is one of the promise: an admission is
   exactly what the current policy record allows when it is recorded, however
   old the record the caller decided on; each domain and OperationID is
   decided once; a RunID is attached once; a stop and its holds are one
   step.                                                                   *)
ImplementsPromise == Promise!PromiseSpec
=============================================================================
