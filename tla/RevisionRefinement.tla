-------------------------- MODULE RevisionRefinement --------------------------
(***************************************************************************)
(* Commit and GetRevision, with their transactions, connections, processes *)
(* and damaged rows, implement RevisionPromise.  The digest index is the   *)
(* promise's map of revisions, a ledger row's fingerprint names the        *)
(* content its operation was spent on, and a row that loadRevisionTx       *)
(* refuses is a broken revision.  A body that is no contract never becomes *)
(* a call of the promise.                                                  *)
(***************************************************************************)
EXTENDS RevisionStore

ASSUME NilIsNoContent == Nil \notin Pipelines \X Forms

(* The content a fingerprint stands for: a digest has one preimage. *)
ContentOf(fingerprint) == <<fingerprint[1], fingerprint[2][2]>>

Bindings ==
  [o \in OperationIDs |->
     IF db.operations[o] = Nil THEN Nil ELSE ContentOf(db.operations[o].Fingerprint)]

Broken == {k \in Keys : Load(db, k) = "INTEGRITY"}

RequestOf(c) ==
  IF req[c].Call = "Commit"
    THEN [Call |-> "Commit", OperationID |-> req[c].OperationID, Content |-> ContentKey(c)]
    ELSE [Call |-> "GetRevision", Key |-> req[c].Key]

ContentIn(row) == IF row = Nil THEN Nil ELSE row.Body

AnswerOf(answer) ==
  [Outcome |-> answer.Outcome, RevisionID |-> answer.RevisionID,
   Content |-> ContentIn(answer.Row)]

(* A call that is in progress, or answered, on a body that is a contract. *)
IsCall(c) == pc[c] # "idle" /\ (req[c].Call = "Commit" => FormOf(c) # Nil)

CallOf(c) ==
  IF ~IsCall(c)
    THEN [State |-> "none", Request |-> Nil, New |-> FALSE, Answer |-> Nil]
    ELSE [State |-> IF pc[c] = "done" THEN "answered" ELSE "asked",
          Request |-> RequestOf(c),
          New |-> req[c].Call = "Commit" /\ known[c] = "nothing",
          Answer |-> IF pc[c] = "done" THEN AnswerOf(reply[c]) ELSE Nil]

Calls == [c \in Callers |-> CallOf(c)]

Promise ==
  INSTANCE RevisionPromise WITH
    revision <- db.digestIndex, bound <- Bindings, broken <- Broken, call <- Calls

(* Every behaviour of the store, under concurrent calls of several processes,
   crashes, failing statements, drifting catalogs and damaged rows, is one of
   a ledger on which each call takes effect in one step: a commit when its
   transaction commits, a replay, conflict or read when it reads; a crash or
   an error leaves no part of a call behind; and the resolvers refuse only
   what was new when the call began, although they are asked later.        *)
ImplementsLedger == Promise!PromiseSpec
=============================================================================
