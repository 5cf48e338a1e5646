--------------------------- MODULE RevisionPromise ---------------------------
(***************************************************************************)
(* What Commit and GetRevision promise their callers: a ledger on which    *)
(* every call takes effect in one step, at some moment between its         *)
(* beginning and its answer.  A content of a pipeline has at most one      *)
(* revision and an operation is bound to at most one content, for ever.    *)
(* There are no tables, transactions, connections, processes or            *)
(* fingerprints here.                                                      *)
(***************************************************************************)
CONSTANTS Callers, Pipelines, OperationIDs, RevisionIDs, Forms, Nil

Contents == Pipelines \X Forms
Keys == Pipelines \X RevisionIDs

VARIABLES
  revision,  \* [Contents -> the revision that has it, or Nil]
  bound,     \* [OperationIDs -> the content it was spent on, or Nil]
  broken,    \* the revisions whose stored form is damaged
  call       \* what each caller has asked, and been answered

ledger == <<revision, bound, broken>>
promiseVars == <<ledger, call>>

NoCall == [State |-> "none", Request |-> Nil, New |-> FALSE, Answer |-> Nil]

Asked ==
  [Call : {"Commit"}, OperationID : OperationIDs, Content : Contents]
  \cup [Call : {"GetRevision"}, Key : Keys]

PromiseInit ==
  /\ revision = [x \in Contents |-> Nil]
  /\ bound = [o \in OperationIDs |-> Nil]
  /\ broken = {}
  /\ call = [c \in Callers |-> NoCall]

(* New: nothing has the content yet. *)
Ask(c) ==
  /\ call[c].State = "none"
  /\ \E r \in Asked :
       call' = [call EXCEPT ![c] =
         [State |-> "asked", Request |-> r, Answer |-> Nil,
          New |-> r.Call = "Commit" /\ revision[r.Content] = Nil]]
  /\ UNCHANGED ledger

Reply(c, outcome, rev, content) ==
  call' = [call EXCEPT ![c] =
    [State |-> "answered", Request |-> call[c].Request, New |-> call[c].New,
     Answer |-> [Outcome |-> outcome, RevisionID |-> rev, Content |-> content]]]

(* The contents that a revision of a pipeline has: one, or none. *)
Holding(k) == {x \in Contents : x[1] = k[1] /\ revision[x] = k[2]}

IsBroken(x) == <<x[1], revision[x]>> \in broken

(* The revision of content x, unless it is damaged. *)
Serve(c, x) ==
  IF IsBroken(x)
    THEN Reply(c, "INTEGRITY", Nil, Nil)
    ELSE Reply(c, "FOUND", revision[x], x[2])

Wanted(c) == call[c].Request.Content
Operation(c) == call[c].Request.OperationID

Replay(c) ==
  /\ bound[Operation(c)] = Wanted(c)
  /\ Serve(c, Wanted(c))
  /\ UNCHANGED ledger

Conflict(c) ==
  /\ bound[Operation(c)] \notin {Nil, Wanted(c)}
  /\ Reply(c, "OPERATION_CONFLICT", Nil, Nil)
  /\ UNCHANGED ledger

(* A new operation finds its content; a damaged one is not bound. *)
Converge(c) ==
  /\ bound[Operation(c)] = Nil /\ revision[Wanted(c)] # Nil
  /\ Serve(c, Wanted(c))
  /\ bound' = IF IsBroken(Wanted(c)) THEN bound
              ELSE [bound EXCEPT ![Operation(c)] = Wanted(c)]
  /\ UNCHANGED <<revision, broken>>

Create(c, rev) ==
  /\ bound[Operation(c)] = Nil /\ revision[Wanted(c)] = Nil
  /\ Holding(<<Wanted(c)[1], rev>>) = {}
  /\ revision' = [revision EXCEPT ![Wanted(c)] = rev]
  /\ bound' = [bound EXCEPT ![Operation(c)] = Wanted(c)]
  /\ Reply(c, "CREATED", rev, Wanted(c)[2])
  /\ UNCHANGED broken

(* Only what was new when it was asked for is refused. *)
Refuse(c) ==
  /\ call[c].New
  /\ Reply(c, "REFUSED", Nil, Nil)
  /\ UNCHANGED ledger

Get(c) ==
  /\ LET found == Holding(call[c].Request.Key) IN
     \/ found = {} /\ Reply(c, "NOT_FOUND", Nil, Nil)
     \/ \E x \in found : Serve(c, x)
  /\ UNCHANGED ledger

(* A call takes effect and is answered; one that fails has changed nothing. *)
Respond(c) ==
  /\ call[c].State = "asked"
  /\ \/ /\ call[c].Request.Call = "Commit"
        /\ \/ Replay(c) \/ Conflict(c) \/ Converge(c) \/ Refuse(c)
           \/ \E rev \in RevisionIDs : Create(c, rev)
     \/ call[c].Request.Call = "GetRevision" /\ Get(c)
     \/ Reply(c, "ERROR", Nil, Nil) /\ UNCHANGED ledger

(* Callers take their answers, or die in their calls. *)
Forget ==
  /\ \E S \in SUBSET Callers :
       call' = [c \in Callers |-> IF c \in S THEN NoCall ELSE call[c]]
  /\ UNCHANGED ledger

Break ==
  /\ UNCHANGED <<revision, bound, call>>
  /\ \E k \in Keys : Holding(k) # {} /\ broken' = broken \cup {k}

PromiseNext == (\E c \in Callers : Ask(c) \/ Respond(c)) \/ Forget \/ Break

PromiseSpec == PromiseInit /\ [][PromiseNext]_promiseVars
=============================================================================
