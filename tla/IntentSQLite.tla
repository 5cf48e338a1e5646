---------------------------- MODULE IntentSQLite ----------------------------
(***************************************************************************)
(* SQLiteStore, the durable intent.Store: several handles on one database  *)
(* file, in processes that crash.  A handle is a *sql.DB with its pooled   *)
(* connections, and a call holds one connection from its start to its      *)
(* return.  A write is BEGIN IMMEDIATE, the trigger check, the body, then  *)
(* COMMIT or ROLLBACK, and each is a step of its own, so crashes, errors   *)
(* and other connections come between them.                                *)
(***************************************************************************)
EXTENDS IntentSchema

CONSTANTS
  Conns, Handles,
  HandleOf,   \* [Conns -> Handles]: whose pool a connection is in
  Requests,   \* the calls offered: records with a Kind and its arguments
  Schemas     \* the schemas the file may hold before its first open

ASSUME SQLiteConstants ==
  HandleOf \in [Conns -> Handles] /\ Nil \notin Conns /\ Nil # IntentsTable

(* A file without anything of the store is one empty schema: what else may be
   in it is no part of the model.                                          *)
ASSUME SchemasOfTheStore ==
  \A s \in Schemas :
    /\ DOMAIN s = DOMAIN NoSchema
    /\ s.Version = Nil /\ ObjectCount(s) = 0 => s = NoSchema
    /\ MadeBySQLite(s)

(* The calls of the Store interface that write, any of which may be offered:
   drafts as the Service builds them, or of an explicit intent any draft.  *)
AllRequests ==
  [Kind : {"open", "policyLog"}]
  \cup [Kind : {"createAutomatic"},
        Draft : {AutomaticDraft(p, prev, s, rev, 0) :
                   p \in Policies, prev \in PolicyRevisions, s \in Subjects,
                   rev \in PipelineRevisions}]
  \cup [Kind : {"createExplicit"}, Draft : IntentRecord]
  \cup [Kind : {"AttachRunID"}, ID : IDs, Run : RunIDs]
  \cup [Kind : {"UpdateBlocker"}, ID : IDs, Owner : BlockerOwners \cup {"NOBODY"},
        State : BlockerStates]

ASSUME RequestsOfTheStore == Requests \subseteq AllRequests

VARIABLES
  schema, rows,   \* the committed database
  lock,           \* the connection in BEGIN IMMEDIATE, or Nil
  work,           \* what that transaction has done so far
  temp,           \* what the TEMP schema of a connection has on intents
  open,           \* handles that NewSQLiteStore returned
  pc, call, answer

fileVars == <<schema, rows>>
txVars == <<lock, work>>
connVars == <<pc, call, answer>>
vars == <<fileVars, txVars, temp, open, connVars>>

NoRows == [id \in IDs |-> Nil]
NoWork == [Schema |-> NoSchema, Rows |-> NoRows]
NoAnswer == [Code |-> "", Intent |-> Nil]
InTransaction == {"check", "body", "tables", "record", "commit"}
Rows == [IDs -> IntentRecord \cup {Nil}]

SQLiteTypeOK ==
  /\ rows \in Rows /\ work.Rows \in Rows
  /\ \A id \in IDs : rows[id] # Nil => rows[id].ID = id
  /\ lock \in Conns \cup {Nil}
  /\ temp \in [Conns -> {"none", "trigger", "table"}]
  /\ open \in [Handles -> BOOLEAN]
  /\ pc \in [Conns -> {"idle", "done"} \cup InTransaction]
  /\ call \in [Conns -> Requests \cup {Nil}]
  /\ \A k \in Conns : answer[k].Intent \in IntentRecord \cup {Nil}

Init ==
  /\ schema \in Schemas
  /\ rows = NoRows
  /\ lock = Nil /\ work = NoWork
  /\ temp = [k \in Conns |-> "none"]
  /\ open = [h \in Handles |-> FALSE]
  /\ pc = [k \in Conns |-> "idle"]
  /\ call = [k \in Conns |-> Nil]
  /\ answer = [k \in Conns |-> NoAnswer]

Kind(k) == call[k].Kind
Goto(k, label) == pc' = [pc EXCEPT ![k] = label]
Reply(k, code, in) == answer' = [answer EXCEPT ![k] = [Code |-> code, Intent |-> in]]

(***************************************************************************)
(* A call takes an idle connection of its handle's pool and waits for      *)
(* BEGIN IMMEDIATE to give it the file's one write lock; it reads nothing  *)
(* before.  Some answers need no database: a malformed explicit draft, and *)
(* every method of the policy lifecycle log, which is not persisted.       *)
(***************************************************************************)
Callable(k, r) == pc[k] = "idle" /\ (r.Kind = "open" <=> ~open[HandleOf[k]])

RefusedAtOnce(r) ==
  CASE r.Kind = "policyLog" -> "UNSUPPORTED_CAPABILITY"
    [] r.Kind = "createExplicit" -> IF CheckExplicitDraft(r.Draft) THEN "" ELSE "INVALID_CONTRACT"
    [] OTHER -> ""

Refuse(k, r) ==
  /\ Callable(k, r)
  /\ RefusedAtOnce(r) # ""
  /\ Goto(k, "done")
  /\ Reply(k, RefusedAtOnce(r), Nil)
  /\ UNCHANGED <<fileVars, txVars, temp, open, call>>

Begin(k, r) ==
  /\ Callable(k, r)
  /\ RefusedAtOnce(r) = ""
  /\ lock = Nil /\ lock' = k
  /\ work' = [Schema |-> schema, Rows |-> rows]
  /\ call' = [call EXCEPT ![k] = r]
  /\ Goto(k, "check")
  /\ UNCHANGED <<fileVars, temp, open, answer>>

(* Mutant: an error return that keeps the transaction open. *)
NoRollback(k, code) ==
  /\ Goto(k, "done")
  /\ Reply(k, code, Nil)
  /\ call' = [call EXCEPT ![k] = Nil]
  /\ UNCHANGED <<txVars, fileVars, temp, open>>

(* Every error return of a transaction rolls it back. *)
Fail(k, code) ==
  /\ Goto(k, "done")
  /\ Reply(k, code, Nil)
  /\ call' = [call EXCEPT ![k] = Nil]
  /\ lock' = Nil /\ work' = NoWork
  /\ UNCHANGED <<fileVars, temp, open>>

(* A cancelled context, an injected fault, a statement or a COMMIT that fails. *)
Abort(k) == pc[k] \in InTransaction /\ Fail(k, "ERROR")

(* Mutant: only the main schema is read. *)
MainTriggers(k) == work.Schema.Trigger

SeesTrigger(k) == work.Schema.Trigger \/ temp[k] = "trigger"

VerifyNoTriggers(k) ==
  /\ pc[k] = "check"
  /\ IF SeesTrigger(k) THEN Fail(k, "INTEGRITY")
     ELSE Goto(k, "body") /\ UNCHANGED <<fileVars, txVars, temp, open, call, answer>>

(***************************************************************************)
(* NewSQLiteStore: initSchema, and createSchema's three statements.        *)
(***************************************************************************)
InTx(k, label, newSchema, newRows) ==
  /\ work' = [Schema |-> newSchema, Rows |-> newRows]
  /\ Goto(k, label)
  /\ UNCHANGED <<fileVars, lock, temp, open, call>>

Answered(k, label, in) ==
  InTx(k, label, work.Schema, work.Rows) /\ Reply(k, "OK", in)

(* Mutant: each statement of createSchema is its own transaction. *)
CreateAutocommitted(k, newSchema, label) ==
  /\ schema' = newSchema
  /\ work' = [work EXCEPT !.Schema = newSchema]
  /\ Goto(k, label)
  /\ UNCHANGED <<rows, lock, temp, open, call, answer>>

Create(k, newSchema, label) ==
  InTx(k, label, newSchema, work.Rows) /\ UNCHANGED answer

InitSchema(k) ==
  LET s == work.Schema IN
  /\ pc[k] = "body" /\ Kind(k) = "open"
  /\ CASE s.Version = Nil /\ ObjectCount(s) # 0 -> Fail(k, "UNSUPPORTED_VERSION")
       [] s.Version = Nil /\ ObjectCount(s) = 0 -> Create(k, [s EXCEPT !.Version = 0], "tables")
       [] s.Version = 0 -> Fail(k, "INTEGRITY")
       [] s.Version \notin {Nil, 0, 1} -> Fail(k, "UNSUPPORTED_VERSION")
       [] s.Version = 1 ->
            IF ObjectCount(s) = 4 /\ VerifySchemaObjects(s)
              THEN Answered(k, "commit", Nil) ELSE Fail(k, "INTEGRITY")

CreateTables(k) ==
  /\ pc[k] = "tables"
  /\ Create(k, [SchemaV1 EXCEPT !.Version = 0], "record")

CreateRecord(k) ==
  /\ pc[k] = "record"
  /\ InTx(k, "commit", [work.Schema EXCEPT !.Version = 1], work.Rows)
  /\ Reply(k, "OK", Nil)

(***************************************************************************)
(* The writes.  A trigger may swallow the statement, which is then no      *)
(* error; a TEMP table of the connection takes an unqualified name.        *)
(***************************************************************************)
(* Mutant: the statements do not name the main schema. *)
UnqualifiedTarget(k) == IF temp[k] = "table" THEN "temp" ELSE "main"

Target(k) == "main"

Fires(k) == work.Schema.Trigger \/ temp[k] = "trigger"

Stage(k, id, row) ==
  /\ IF Target(k) = "main" /\ Refuses(work.Schema, work.Rows, id, row) THEN Fail(k, "RAW")
     ELSE /\ InTx(k, "commit", work.Schema,
                  IF Fires(k) \/ Target(k) # "main" THEN work.Rows
                  ELSE [work.Rows EXCEPT ![id] = AsStored(work.Schema.Table, row)])
          /\ Reply(k, "OK", row)

(* Mutant: the draft is inserted without the ID it was allocated. *)
InsertUnnamed(k, draft) ==
  \E id \in {i \in IDs : work.Rows[i] = Nil} : Stage(k, id, draft)

InsertIntent(k, draft) ==
  \E id \in {i \in IDs : work.Rows[i] = Nil} : Stage(k, id, [draft EXCEPT !.ID = id])

CreateAutomatic(k) ==
  LET draft == call[k].Draft
      found == WhereAuto(work.Schema.Table, work.Rows, draft.PolicyID, draft.Subject)
  IN  /\ pc[k] = "body" /\ Kind(k) = "createAutomatic"
      /\ \/ \E id \in found : Answered(k, "commit", work.Rows[id])
         \/ found = {} /\ InsertIntent(k, draft)

CreateExplicit(k) ==
  LET draft == call[k].Draft
      found == WhereExplicit(work.Schema.Table, work.Rows, draft.OperationID)
  IN  /\ pc[k] = "body" /\ Kind(k) = "createExplicit"
      /\ \/ \E id \in found : Answered(k, "commit", work.Rows[id])
         \/ found = {} /\ InsertIntent(k, draft)

(* Mutant: a different RunID replaces the one attached. *)
AttachAgain(k, in, run) ==
  IF in.RunID = run THEN Answered(k, "commit", in)
  ELSE IF WhereRunID(work.Rows, run) # {} THEN Fail(k, "RUN_ID_CONFLICT")
  ELSE Stage(k, in.ID, [in EXCEPT !.RunID = run])

Attach(k, in, run) ==
  IF in.RunID = run THEN Answered(k, "commit", in)
  ELSE IF in.RunID # Nil \/ WhereRunID(work.Rows, run) # {} THEN Fail(k, "RUN_ID_CONFLICT")
  ELSE Stage(k, in.ID, [in EXCEPT !.RunID = run])

AttachRunID(k) ==
  LET found == WhereID(work.Rows, call[k].ID) IN
  /\ pc[k] = "body" /\ Kind(k) = "AttachRunID"
  /\ \/ found = {} /\ Fail(k, "NOT_FOUND")
     \/ \E id \in found : Attach(k, work.Rows[id], call[k].Run)

UpdateBlocker(k) ==
  LET found == WhereID(work.Rows, call[k].ID)
      owner == call[k].Owner
      state == call[k].State
  IN  /\ pc[k] = "body" /\ Kind(k) = "UpdateBlocker"
      /\ \/ found = {} /\ Fail(k, "NOT_FOUND")
         \/ \E id \in found :
              LET in == work.Rows[id] IN
              IF owner \notin BlockerOwners THEN Fail(k, "INVALID_TRANSITION")
              ELSE IF in.Blockers[owner] = state THEN Answered(k, "commit", in)
              ELSE Stage(k, id, [in EXCEPT !.Blockers[owner] = state])

Commit(k) ==
  /\ pc[k] = "commit"
  /\ schema' = work.Schema /\ rows' = work.Rows
  /\ lock' = Nil /\ work' = NoWork
  /\ open' = [open EXCEPT ![HandleOf[k]] = @ \/ Kind(k) = "open"]
  /\ Goto(k, "done")
  /\ UNCHANGED <<temp, call, answer>>

(* The call returns, and its connection goes back to the pool. *)
Return(k) ==
  /\ pc[k] = "done"
  /\ Goto(k, "idle")
  /\ call' = [call EXCEPT ![k] = Nil]
  /\ answer' = [answer EXCEPT ![k] = NoAnswer]
  /\ UNCHANGED <<fileVars, txVars, temp, open>>

(***************************************************************************)
(* The surroundings.  A process dies with its connections: SQLite drops an *)
(* open transaction and the TEMP schemas, and an answer not yet delivered  *)
(* is lost.  Other code with the file or the pool creates a trigger or a   *)
(* TEMP table, under the same locks as a call; one at a time is the bound. *)
(***************************************************************************)
Crash(h) ==
  LET dead == {k \in Conns : HandleOf[k] = h} IN
  /\ open' = [open EXCEPT ![h] = FALSE]
  /\ pc' = [k \in Conns |-> IF k \in dead THEN "idle" ELSE pc[k]]
  /\ call' = [k \in Conns |-> IF k \in dead THEN Nil ELSE call[k]]
  /\ answer' = [k \in Conns |-> IF k \in dead THEN NoAnswer ELSE answer[k]]
  /\ temp' = [k \in Conns |-> IF k \in dead THEN "none" ELSE temp[k]]
  /\ IF lock \in dead THEN lock' = Nil /\ work' = NoWork ELSE UNCHANGED txVars
  /\ UNCHANGED fileVars

NothingForeign == ~schema.Trigger /\ \A k \in Conns : temp[k] = "none"

MainTrigger ==
  /\ lock = Nil /\ schema.Table # Nil
  /\ schema.Trigger \/ NothingForeign
  /\ schema' = [schema EXCEPT !.Trigger = ~@]
  /\ UNCHANGED <<rows, txVars, temp, open, connVars>>

TempObject(k, what) ==
  /\ pc[k] = "idle" /\ NothingForeign
  /\ temp' = [temp EXCEPT ![k] = what]
  /\ UNCHANGED <<fileVars, txVars, open, connVars>>

Next ==
  \/ \E k \in Conns, r \in Requests : Begin(k, r) \/ Refuse(k, r)
  \/ \E k \in Conns :
       \/ Abort(k) \/ VerifyNoTriggers(k)
       \/ InitSchema(k) \/ CreateTables(k) \/ CreateRecord(k)
       \/ CreateAutomatic(k) \/ CreateExplicit(k) \/ AttachRunID(k) \/ UpdateBlocker(k)
       \/ Commit(k) \/ Return(k)
  \/ \E h \in Handles : Crash(h)
  \/ MainTrigger
  \/ \E k \in Conns, what \in {"trigger", "table"} : TempObject(k, what)

Spec == Init /\ [][Next]_vars

(***************************************************************************)
(* Properties.                                                             *)
(***************************************************************************)

(* The write lock is held by a call that is inside its transaction: no
   error path, early answer or crash hands a connection back to the pool
   with the transaction still open.  write's deferred ROLLBACK.            *)
LockHeldByCall == \A k \in Conns : lock = k <=> pc[k] \in InTransaction

(* No write of a handle that NewSQLiteStore returned ends in a raw SQLite
   error: every schema the open-time checks let through takes every row the
   store's contract takes, whatever its declared collations, extra indexes
   and spellings.  verifySchemaObjects.                                    *)
SchemaTakesTheContract == \A k \in Conns : answer[k].Code # "RAW"

(* What a call answered stands in the file, under the identity it asked for:
   no trigger swallows it, no TEMP table captures it, no collation answers
   with another identity's intent, and no crash or later call undoes it.   *)
Asked(r, in) ==
  CASE r.Kind = "createAutomatic" ->
         in.Origin = "AUTOMATIC" /\ in.PolicyID = r.Draft.PolicyID /\ in.Subject = r.Draft.Subject
    [] r.Kind = "createExplicit" ->
         in.Origin = "EXPLICIT" /\ in.OperationID = r.Draft.OperationID
    [] r.Kind = "AttachRunID" -> in.ID = r.ID /\ in.RunID = r.Run
    [] r.Kind = "UpdateBlocker" -> in.ID = r.ID /\ in.Blockers[r.Owner] = r.State

AnswersStand ==
  \A k \in Conns :
    pc[k] = "done" /\ answer[k].Intent # Nil =>
      LET in == answer[k].Intent
          stored == rows[in.ID]
      IN  /\ Asked(call[k], in)
          /\ stored # Nil
          /\ [stored EXCEPT !.RunID = in.RunID, !.Blockers = in.Blockers] = in
          /\ in.RunID \in {Nil, stored.RunID}

(* A store changes the schema of the file only from nothing to the whole of
   version 1, whichever handles open it at once and wherever they fail or
   crash: no half-made schema, and nothing existing dropped, repaired or
   adopted.  initSchema and createSchema.                                  *)
SchemaStep ==
  \/ schema = NoSchema /\ schema' = SchemaV1
  \/ schema' = [schema EXCEPT !.Trigger = schema'.Trigger]

OpenOnlyCreates == [][SchemaStep]_schema
=============================================================================
