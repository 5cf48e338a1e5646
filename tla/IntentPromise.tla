---------------------------- MODULE IntentPromise ----------------------------
(***************************************************************************)
(* What intent.Service promises its callers, as a system in which every    *)
(* call takes effect in one step: no intent IDs, indexes, logs, sequence   *)
(* numbers, retries or calls in progress.  A domain (policy, subject) or   *)
(* an OperationID gets at most one decision, for ever; an automatic one is *)
(* taken by the policy's record as it is at that very moment.              *)
(***************************************************************************)
EXTENDS Intent

VARIABLES
  automatic,  \* [Policies \X Subjects -> the decision, or Nil]
  explicit,   \* [OperationIDs -> the decision, or Nil]
  lifecycle,  \* [Policies -> State, Epoch and Frontier]
  committed   \* the revisions that can be read (external)

promiseVars == <<automatic, explicit, lifecycle, committed>>

PromiseInit ==
  /\ automatic = [k \in Policies \X Subjects |-> Nil]
  /\ explicit = [o \in OperationIDs |-> Nil]
  /\ lifecycle = [p \in Policies |-> [State |-> Nil, Epoch |-> 0, Frontier |-> Nil]]
  /\ committed \subseteq PipelineRevisions

Admit(k, prev, rev, publication) ==
  /\ automatic[k] = Nil
  /\ Reason(lifecycle[k[1]], publication) = ""
  /\ rev \in committed
  /\ automatic' = [automatic EXCEPT ![k] =
       [PolicyRevision |-> prev, PipelineRevision |-> rev, Facts |-> publication,
        Epoch |-> lifecycle[k[1]].Epoch, RunID |-> Nil, Held |-> FALSE]]
  /\ UNCHANGED <<explicit, lifecycle, committed>>

RecordExplicit(o, s, rev) ==
  /\ explicit[o] = Nil
  /\ rev \in committed
  /\ explicit' = [explicit EXCEPT ![o] =
       [Subject |-> s, PipelineRevision |-> rev, RunID |-> Nil]]
  /\ UNCHANGED <<automatic, lifecycle, committed>>

Open(p, frontier) ==
  /\ \/ lifecycle[p].State = Nil
     \/ /\ lifecycle[p].State = "DISABLED"
        /\ Comparable(frontier, lifecycle[p].Frontier)
        /\ ~After(lifecycle[p].Frontier, frontier)
  /\ lifecycle' = [lifecycle EXCEPT ![p] =
       [State |-> "ACTIVE", Epoch |-> @.Epoch + 1, Frontier |-> frontier]]
  /\ UNCHANGED <<automatic, explicit, committed>>

(* DISABLE from ACTIVE, RETIRE from either; the holds are the same step. *)
Stop(p, target) ==
  /\ \/ lifecycle[p].State = "ACTIVE"
     \/ lifecycle[p].State = "DISABLED" /\ target = "RETIRED"
  /\ lifecycle' = [lifecycle EXCEPT ![p].State = target]
  /\ automatic' = [k \in Policies \X Subjects |->
       IF k[1] = p /\ automatic[k] # Nil /\ automatic[k].RunID = Nil
         THEN [automatic[k] EXCEPT !.Held = TRUE] ELSE automatic[k]]
  /\ UNCHANGED <<explicit, committed>>

RunIDFree(run) ==
  /\ \A k \in Policies \X Subjects : automatic[k] # Nil => automatic[k].RunID # run
  /\ \A o \in OperationIDs : explicit[o] # Nil => explicit[o].RunID # run

AttachAutomatic(k, run) ==
  /\ automatic[k] # Nil /\ automatic[k].RunID = Nil /\ RunIDFree(run)
  /\ automatic' = [automatic EXCEPT ![k].RunID = run]
  /\ UNCHANGED <<explicit, lifecycle, committed>>

AttachExplicit(o, run) ==
  /\ explicit[o] # Nil /\ explicit[o].RunID = Nil /\ RunIDFree(run)
  /\ explicit' = [explicit EXCEPT ![o].RunID = run]
  /\ UNCHANGED <<automatic, lifecycle, committed>>

(* The authority of POLICY_DISABLE holds or releases one decision. *)
SetHeld(k, held) ==
  /\ automatic[k] # Nil
  /\ automatic' = [automatic EXCEPT ![k].Held = held]
  /\ UNCHANGED <<explicit, lifecycle, committed>>

Commit(rev) ==
  /\ committed' = committed \cup {rev}
  /\ UNCHANGED <<automatic, explicit, lifecycle>>

PromiseNext ==
  \/ \E k \in Policies \X Subjects, prev \in PolicyRevisions, rev \in PipelineRevisions,
        publication \in [Position : Positions, Class : {"NEW"}] :
       Admit(k, prev, rev, publication)
  \/ \E o \in OperationIDs, s \in Subjects, rev \in PipelineRevisions :
       RecordExplicit(o, s, rev)
  \/ \E p \in Policies, f \in Positions : Open(p, f)
  \/ \E p \in Policies, t \in {"DISABLED", "RETIRED"} : Stop(p, t)
  \/ \E k \in Policies \X Subjects, run \in RunIDs : AttachAutomatic(k, run)
  \/ \E o \in OperationIDs, run \in RunIDs : AttachExplicit(o, run)
  \/ \E k \in Policies \X Subjects, h \in BOOLEAN : SetHeld(k, h)
  \/ \E rev \in PipelineRevisions : Commit(rev)

PromiseSpec == PromiseInit /\ [][PromiseNext]_promiseVars
=============================================================================
