----------------------- MODULE IntentSQLiteRefinement -----------------------
(***************************************************************************)
(* The durable store implements IntentStore, the store without a policy    *)
(* log: its rows are the intents, and the indexes are what its queries     *)
(* find.                                                                   *)
(***************************************************************************)
EXTENDS IntentSQLite

TheOneWith(P(_)) ==
  IF \E id \in IDs : rows[id] # Nil /\ P(rows[id])
    THEN CHOOSE id \in IDs : rows[id] # Nil /\ P(rows[id]) ELSE Nil

RowOfDomain(k) ==
  LET Is(in) == in.Origin = "AUTOMATIC" /\ <<in.PolicyID, in.Subject>> = k
  IN  TheOneWith(Is)
RowOfOperation(o) ==
  LET Is(in) == in.Origin = "EXPLICIT" /\ in.OperationID = o IN TheOneWith(Is)
RowOfRun(r) == LET Is(in) == in.RunID = r IN TheOneWith(Is)

DraftsOf(kind) == {r.Draft : r \in {q \in Requests : q.Kind = kind}}

Store ==
  INSTANCE IntentStore WITH
    ExplicitDrafts <- DraftsOf("createExplicit"), MaxLog <- 0,
    intents <- rows,
    auto <- [k \in Policies \X Subjects |-> RowOfDomain(k)],
    ops <- [o \in OperationIDs |-> RowOfOperation(o)],
    runs <- [r \in RunIDs |-> RowOfRun(r)],
    policyLogs <- [p \in Policies |-> <<>>],
    policies <- [p \in Policies |-> NoPolicy]

(* Every behaviour of the file is one of the store the Service is written
   for: a transaction takes effect at its COMMIT or not at all, as exactly
   one create, attachment or blocker change, whatever other handles, crashes,
   errors and schema variants come between its steps.                      *)
ImplementsStore == Store!StoreSpec
=============================================================================
