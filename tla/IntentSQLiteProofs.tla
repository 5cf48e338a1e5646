------------------------- MODULE IntentSQLiteProofs -------------------------
(***************************************************************************)
(* What the durable store's transactions guarantee for any number of       *)
(* processes and connections, whatever is asked of them and whatever else  *)
(* is done to the file: the write lock never outlives its call, an open    *)
(* changes the schema from nothing to version 1 or not at all, every       *)
(* schema an open accepts takes every row of the contract, what a call     *)
(* answered stands, and the whole is the store of IntentStore.             *)
(***************************************************************************)
EXTENDS IntentSQLiteRefinement, FiniteSetTheorems, TLAPS

(* Until its COMMIT the transaction under way has the schema it began with,
   or what createSchema has made of an empty one.                          *)
WorkFollows(k) ==
  /\ pc[k] \in {"check", "body"} => work.Schema = schema
  /\ pc[k] \in {"tables", "record"} => schema = NoSchema
  /\ pc[k] = "record" => work.Schema = [SchemaV1 EXCEPT !.Version = 0]
  /\ pc[k] = "commit" => \/ work.Schema = schema
                         \/ schema = NoSchema /\ work.Schema = SchemaV1

SchemaKnown ==
  /\ DOMAIN schema = DOMAIN NoSchema
  /\ schema.Version = Nil /\ ObjectCount(schema) = 0 => schema = NoSchema

TxInv ==
  /\ pc \in [Conns -> {"idle", "done"} \cup InTransaction]
  /\ LockHeldByCall
  /\ SchemaKnown
  /\ \A k \in Conns : WorkFollows(k)

(* A schema with the store's table has an object of the store. *)
LEMMA TableCounts ==
  ASSUME NEW s, s.Table # Nil
  PROVE  ObjectCount(s) # 0
<1> DEFINE named == {w \in IntentIndexes : \E i \in s.Indexes : i.Name = w.Name}
<1>1. IsFiniteSet(IntentIndexes)
  <2>1. ASSUME NEW a, NEW b, NEW c PROVE IsFiniteSet({a, b, c})
    <3>1. IsFiniteSet(({a} \cup {b}) \cup {c})
      BY FS_Singleton, FS_AddElement
    <3>2. {a, b, c} = ({a} \cup {b}) \cup {c}
      OBVIOUS
    <3> QED
      BY <3>1, <3>2
  <2> QED
    BY <2>1 DEF IntentIndexes
<1>2. Cardinality(named) \in Nat
  BY <1>1, FS_Subset, FS_CardinalityType
<1>3. ObjectCount(s) = Cardinality(named) + 1
  BY DEF ObjectCount
<1> HIDE DEF named
<1> QED
  BY <1>2, <1>3

LEMMA VersionOneIsKnown ==
  /\ DOMAIN SchemaV1 = DOMAIN NoSchema
  /\ ObjectCount(SchemaV1) # 0
<1>1. SchemaV1.Table # Nil
  BY SQLiteConstants DEF SchemaV1
<1> QED
  BY <1>1, TableCounts DEF SchemaV1, NoSchema

(***************************************************************************)
(* Steps of a call.                                                        *)
(***************************************************************************)

(* The transaction of one connection at a time. *)
LEMMA OneTransaction ==
  ASSUME TxInv, NEW k \in Conns, pc[k] \in InTransaction
  PROVE  lock = k /\ \A j \in Conns : j # k => pc[j] \notin InTransaction
BY DEF TxInv, LockHeldByCall

(* The transaction ends without a COMMIT. *)
LEMMA FailKeeps ==
  ASSUME TxInv, NEW k \in Conns, pc[k] \in InTransaction, NEW code, Fail(k, code)
  PROVE  TxInv' /\ schema' = schema
<1>1. /\ pc' \in [Conns -> {"idle", "done"} \cup InTransaction] /\ pc'[k] = "done"
      /\ \A j \in Conns : j # k => pc'[j] = pc[j]
  BY DEF Fail, Goto, TxInv
<1>2. schema' = schema /\ lock' = Nil
  BY DEF Fail, fileVars
<1>3. \A j \in Conns : pc'[j] \notin InTransaction
  BY <1>1, OneTransaction DEF InTransaction
<1>4. LockHeldByCall'
  BY <1>2, <1>3, SQLiteConstants DEF LockHeldByCall
<1>5. \A j \in Conns : WorkFollows(j)'
  BY <1>3 DEF WorkFollows, InTransaction
<1>6. SchemaKnown'
  BY <1>2 DEF TxInv, SchemaKnown
<1> QED
  BY <1>1, <1>2, <1>4, <1>5, <1>6 DEF TxInv

(* The transaction goes on. *)
LEMMA InTxKeeps ==
  ASSUME TxInv, NEW k \in Conns, pc[k] \in InTransaction,
         NEW label \in InTransaction, Goto(k, label),
         schema' = schema, lock' = lock, WorkFollows(k)'
  PROVE  TxInv' /\ schema' = schema
<1>1. /\ pc' \in [Conns -> {"idle", "done"} \cup InTransaction] /\ pc'[k] = label
      /\ \A j \in Conns : j # k => pc'[j] = pc[j]
  BY DEF Goto, TxInv
<1>2. \A j \in Conns : j # k => pc'[j] \notin InTransaction
  BY <1>1, OneTransaction
<1>3. LockHeldByCall'
  BY <1>1, <1>2, OneTransaction DEF LockHeldByCall
<1>4. \A j \in Conns : WorkFollows(j)'
  BY <1>2 DEF WorkFollows, InTransaction
<1>5. SchemaKnown'
  BY DEF TxInv, SchemaKnown
<1> QED
  BY <1>1, <1>3, <1>4, <1>5 DEF TxInv

(* Every write is staged over the schema its transaction began with, or fails. *)
Staged(k) ==
  \/ \E code : Fail(k, code)
  \/ \E newRows : InTx(k, "commit", work.Schema, newRows)

LEMMA StagedKeeps ==
  ASSUME TxInv, NEW k \in Conns, pc[k] = "body", Staged(k)
  PROVE  TxInv' /\ schema' = schema
<1>1. CASE \E code : Fail(k, code)
  BY <1>1, FailKeeps DEF InTransaction
<1>2. CASE \E newRows : InTx(k, "commit", work.Schema, newRows)
  <2>1. /\ Goto(k, "commit") /\ schema' = schema /\ lock' = lock
        /\ work'.Schema = work.Schema
    BY <1>2 DEF InTx, fileVars
  <2>2. WorkFollows(k)'
    BY <2>1 DEF TxInv, WorkFollows, Goto
  <2> QED
    BY <2>1, <2>2, InTxKeeps DEF InTransaction
<1> QED
  BY <1>1, <1>2 DEF Staged

LEMMA WritesStage ==
  ASSUME NEW k \in Conns,
         CreateAutomatic(k) \/ CreateExplicit(k) \/ AttachRunID(k) \/ UpdateBlocker(k)
  PROVE  pc[k] = "body" /\ Staged(k)
<1>1. ASSUME NEW in, Answered(k, "commit", in) PROVE Staged(k)
  BY <1>1 DEF Answered, Staged
<1>2. ASSUME NEW id, NEW row, Stage(k, id, row) PROVE Staged(k)
  BY <1>2 DEF Stage, Staged
<1>3. ASSUME NEW draft, InsertIntent(k, draft) PROVE Staged(k)
  BY <1>2, <1>3 DEF InsertIntent
<1>4. CASE CreateAutomatic(k)
  BY <1>1, <1>3, <1>4 DEF CreateAutomatic
<1>5. CASE CreateExplicit(k)
  BY <1>1, <1>3, <1>5 DEF CreateExplicit
<1>6. CASE AttachRunID(k)
  <2>1. ASSUME NEW in, NEW run, Attach(k, in, run) PROVE Staged(k)
    BY <2>1, <1>1, <1>2 DEF Attach, Staged
  <2> QED
    BY <2>1, <1>6 DEF AttachRunID, Staged
<1>7. CASE UpdateBlocker(k)
  BY <1>1, <1>2, <1>7 DEF UpdateBlocker, Staged
<1> QED
  BY <1>4, <1>5, <1>6, <1>7

LEMMA BeginKeeps ==
  ASSUME TxInv, NEW k \in Conns, NEW r, Begin(k, r)
  PROVE  TxInv' /\ schema' = schema
<1>1. /\ pc' \in [Conns -> {"idle", "done"} \cup InTransaction] /\ pc'[k] = "check"
      /\ \A j \in Conns : j # k => pc'[j] = pc[j]
  BY DEF Begin, Goto, TxInv, InTransaction
<1>2. schema' = schema /\ lock = Nil /\ lock' = k /\ work'.Schema = schema
  BY DEF Begin, fileVars
<1>3. \A j \in Conns : j # k => pc'[j] \notin InTransaction
  BY <1>1, <1>2, SQLiteConstants DEF TxInv, LockHeldByCall
<1>4. LockHeldByCall'
  BY <1>1, <1>2, <1>3 DEF LockHeldByCall, InTransaction
<1>5. \A j \in Conns : WorkFollows(j)'
  BY <1>1, <1>2, <1>3 DEF WorkFollows, InTransaction
<1>6. SchemaKnown'
  BY <1>2 DEF TxInv, SchemaKnown
<1> QED
  BY <1>1, <1>2, <1>4, <1>5, <1>6 DEF TxInv

LEMMA InitSchemaKeeps ==
  ASSUME TxInv, NEW k \in Conns, InitSchema(k)
  PROVE  TxInv' /\ schema' = schema
<1> DEFINE s == work.Schema
<1>1. pc[k] = "body" /\ s = schema
  BY DEF InitSchema, TxInv, WorkFollows
<1>2. \/ \E code : Fail(k, code)
      \/ s.Version = Nil /\ ObjectCount(s) = 0 /\ Create(k, [s EXCEPT !.Version = 0], "tables")
      \/ Answered(k, "commit", Nil)
  BY DEF InitSchema
<1>3. CASE \E code : Fail(k, code)
  BY <1>1, <1>3, FailKeeps DEF InTransaction
<1>4. CASE s.Version = Nil /\ ObjectCount(s) = 0 /\ Create(k, [s EXCEPT !.Version = 0], "tables")
  <2>1. schema = NoSchema
    BY <1>1, <1>4 DEF TxInv, SchemaKnown
  <2>2. Goto(k, "tables") /\ schema' = schema /\ lock' = lock
    BY <1>4 DEF Create, InTx, fileVars
  <2>3. WorkFollows(k)'
    BY <2>1, <2>2 DEF TxInv, WorkFollows, Goto
  <2> QED
    BY <2>2, <2>3, <1>1, InTxKeeps DEF InTransaction
<1>5. CASE Answered(k, "commit", Nil)
  BY <1>1, <1>5, StagedKeeps DEF Answered, Staged
<1> QED
  BY <1>2, <1>3, <1>4, <1>5

LEMMA CreateTablesKeeps ==
  ASSUME TxInv, NEW k \in Conns, CreateTables(k)
  PROVE  TxInv' /\ schema' = schema
<1>1. /\ pc[k] = "tables" /\ Goto(k, "record") /\ schema' = schema /\ lock' = lock
      /\ work'.Schema = [SchemaV1 EXCEPT !.Version = 0]
  BY DEF CreateTables, Create, InTx, fileVars
<1>2. WorkFollows(k)'
  BY <1>1 DEF TxInv, WorkFollows, Goto
<1> QED
  BY <1>1, <1>2, InTxKeeps DEF InTransaction

LEMMA CreateRecordKeeps ==
  ASSUME TxInv, NEW k \in Conns, CreateRecord(k)
  PROVE  TxInv' /\ schema' = schema
<1>1. /\ pc[k] = "record" /\ Goto(k, "commit") /\ schema' = schema /\ lock' = lock
      /\ work'.Schema = [work.Schema EXCEPT !.Version = 1]
  BY DEF CreateRecord, InTx, fileVars
<1>2. schema = NoSchema /\ work.Schema = [SchemaV1 EXCEPT !.Version = 0]
  BY <1>1 DEF TxInv, WorkFollows
<1>3. work'.Schema = SchemaV1
  BY <1>1, <1>2 DEF SchemaV1
<1>4. WorkFollows(k)'
  BY <1>1, <1>2, <1>3 DEF TxInv, WorkFollows, Goto
<1> QED
  BY <1>1, <1>4, InTxKeeps DEF InTransaction

(* A COMMIT leaves the schema as it was, or creates version 1. *)
LEMMA CommitKeeps ==
  ASSUME TxInv, NEW k \in Conns, Commit(k)
  PROVE  TxInv' /\ (schema' = schema \/ (schema = NoSchema /\ schema' = SchemaV1))
<1>1. /\ pc' \in [Conns -> {"idle", "done"} \cup InTransaction] /\ pc'[k] = "done"
      /\ \A j \in Conns : j # k => pc'[j] = pc[j]
  BY DEF Commit, Goto, TxInv
<1>2. pc[k] = "commit" /\ schema' = work.Schema /\ lock' = Nil
  BY DEF Commit
<1>3. schema' = schema \/ (schema = NoSchema /\ schema' = SchemaV1)
  BY <1>2 DEF TxInv, WorkFollows
<1>4. \A j \in Conns : pc'[j] \notin InTransaction
  BY <1>1, <1>2, OneTransaction DEF InTransaction
<1>5. LockHeldByCall'
  BY <1>2, <1>4, SQLiteConstants DEF LockHeldByCall
<1>6. \A j \in Conns : WorkFollows(j)'
  BY <1>4 DEF WorkFollows, InTransaction
<1>7. SchemaKnown'
  <2>1. CASE schema' = schema
    BY <2>1 DEF TxInv, SchemaKnown
  <2>2. CASE schema' = SchemaV1
    BY <2>2, VersionOneIsKnown DEF SchemaKnown
  <2> QED
    BY <1>3, <2>1, <2>2
<1> QED
  BY <1>1, <1>3, <1>5, <1>6, <1>7 DEF TxInv

LEMMA CallKeeps ==
  ASSUME TxInv, NEW k \in Conns,
         \/ Abort(k) \/ VerifyNoTriggers(k)
         \/ InitSchema(k) \/ CreateTables(k) \/ CreateRecord(k)
         \/ CreateAutomatic(k) \/ CreateExplicit(k) \/ AttachRunID(k) \/ UpdateBlocker(k)
  PROVE  TxInv' /\ schema' = schema
<1>1. CASE Abort(k)
  BY <1>1, FailKeeps DEF Abort
<1>2. CASE VerifyNoTriggers(k)
  <2>1. pc[k] = "check"
    BY <1>2 DEF VerifyNoTriggers
  <2>2. CASE Fail(k, "INTEGRITY")
    BY <2>1, <2>2, FailKeeps DEF InTransaction
  <2>3. CASE Goto(k, "body") /\ UNCHANGED <<fileVars, txVars, temp, open, call, answer>>
    <3>1. schema' = schema /\ lock' = lock /\ work' = work
      BY <2>3 DEF fileVars, txVars
    <3>2. WorkFollows(k)'
      BY <2>1, <2>3, <3>1 DEF TxInv, WorkFollows, Goto
    <3> QED
      BY <2>1, <2>3, <3>1, <3>2, InTxKeeps DEF InTransaction
  <2> QED
    BY <1>2, <2>2, <2>3 DEF VerifyNoTriggers
<1>3. CASE InitSchema(k) \/ CreateTables(k) \/ CreateRecord(k)
  BY <1>3, InitSchemaKeeps, CreateTablesKeeps, CreateRecordKeeps
<1>4. CASE CreateAutomatic(k) \/ CreateExplicit(k) \/ AttachRunID(k) \/ UpdateBlocker(k)
  BY <1>4, WritesStage, StagedKeeps
<1> QED
  BY <1>1, <1>2, <1>3, <1>4

(* A connection outside its transaction starts, ends or forgets a call. *)
LEMMA OutsideKeeps ==
  ASSUME TxInv, NEW k \in Conns, pc[k] \in {"idle", "done"},
         NEW label \in {"idle", "done"}, Goto(k, label), UNCHANGED <<fileVars, txVars>>
  PROVE  TxInv' /\ schema' = schema
<1>1. /\ pc' \in [Conns -> {"idle", "done"} \cup InTransaction]
      /\ \A j \in Conns : pc'[j] \in InTransaction \/ pc[j] \in InTransaction => pc'[j] = pc[j]
  BY DEF Goto, TxInv, InTransaction
<1>2. schema' = schema /\ lock' = lock /\ work' = work
  BY DEF fileVars, txVars
<1>3. LockHeldByCall'
  BY <1>1, <1>2 DEF TxInv, LockHeldByCall
<1>4. \A j \in Conns : WorkFollows(j)'
  BY <1>1, <1>2 DEF TxInv, WorkFollows, InTransaction
<1>5. SchemaKnown'
  BY <1>2 DEF TxInv, SchemaKnown
<1> QED
  BY <1>1, <1>2, <1>3, <1>4, <1>5 DEF TxInv

LEMMA RefuseReturnKeep ==
  ASSUME TxInv, NEW k \in Conns, Return(k) \/ \E r \in Requests : Refuse(k, r)
  PROVE  TxInv' /\ schema' = schema
<1>1. CASE Return(k)
  <2>1. pc[k] = "done" /\ Goto(k, "idle") /\ UNCHANGED <<fileVars, txVars>>
    BY <1>1 DEF Return
  <2> QED
    BY <2>1, OutsideKeeps
<1>2. CASE \E r \in Requests : Refuse(k, r)
  <2>1. pc[k] = "idle" /\ Goto(k, "done") /\ UNCHANGED <<fileVars, txVars>>
    BY <1>2 DEF Refuse, Callable
  <2> QED
    BY <2>1, OutsideKeeps
<1> QED
  BY <1>1, <1>2

(***************************************************************************)
(* Steps of the surroundings.                                              *)
(***************************************************************************)

(* The transaction of a process that dies is gone with it. *)
LEMMA CrashKeeps ==
  ASSUME TxInv, NEW h \in Handles, Crash(h)
  PROVE  TxInv' /\ schema' = schema
<1> DEFINE dead == {k \in Conns : HandleOf[k] = h}
<1>1. /\ schema' = schema
      /\ pc' = [k \in Conns |-> IF k \in dead THEN "idle" ELSE pc[k]]
      /\ IF lock \in dead THEN lock' = Nil ELSE lock' = lock /\ work' = work
  BY DEF Crash, fileVars, txVars
<1>2. /\ pc' \in [Conns -> {"idle", "done"} \cup InTransaction]
      /\ \A j \in Conns : IF j \in dead THEN pc'[j] \notin InTransaction ELSE pc'[j] = pc[j]
  BY <1>1 DEF TxInv, InTransaction
<1>3. \A j \in Conns : pc'[j] \in InTransaction => j \notin dead /\ pc[j] \in InTransaction /\ lock = j
  BY <1>2 DEF TxInv, LockHeldByCall
<1>4. LockHeldByCall'
  <2>1. CASE lock \in dead
    BY <2>1, <1>1, <1>3, SQLiteConstants DEF LockHeldByCall
  <2>2. CASE lock \notin dead
    BY <2>2, <1>1, <1>2, <1>3 DEF TxInv, LockHeldByCall
  <2> QED
    BY <2>1, <2>2
<1>5. \A j \in Conns : WorkFollows(j)'
  <2> SUFFICES ASSUME NEW j \in Conns
               PROVE  WorkFollows(j)'
    OBVIOUS
  <2>1. CASE pc'[j] \in InTransaction
    <3>1. pc'[j] = pc[j] /\ lock \notin dead /\ work' = work
      BY <2>1, <1>1, <1>2, <1>3
    <3> QED
      BY <3>1, <1>1 DEF TxInv, WorkFollows
  <2>2. CASE pc'[j] \notin InTransaction
    BY <2>2 DEF WorkFollows, InTransaction
  <2> QED
    BY <2>1, <2>2
<1>6. SchemaKnown'
  BY <1>1 DEF TxInv, SchemaKnown
<1> QED
  BY <1>1, <1>2, <1>4, <1>5, <1>6 DEF TxInv

(* Other code changes the schema only while no transaction is open. *)
LEMMA MainTriggerKeeps ==
  ASSUME TxInv, MainTrigger
  PROVE  TxInv' /\ schema' = [schema EXCEPT !.Trigger = schema'.Trigger]
<1>1. /\ lock = Nil /\ schema.Table # Nil /\ schema' = [schema EXCEPT !.Trigger = ~@]
      /\ lock' = lock /\ pc' = pc
  BY DEF MainTrigger, txVars, connVars
<1>2. DOMAIN schema = {"Version", "Table", "Indexes", "Trigger"}
  BY DEF TxInv, SchemaKnown, NoSchema
<1>3. /\ DOMAIN schema' = DOMAIN schema /\ schema'.Trigger = ~schema.Trigger
      /\ schema'.Table = schema.Table
  BY <1>1, <1>2
<1>4. schema' = [schema EXCEPT !.Trigger = schema'.Trigger]
  BY <1>1, <1>3
<1>5. \A k \in Conns : pc[k] \notin InTransaction
  BY <1>1, SQLiteConstants DEF TxInv, LockHeldByCall
<1>6. LockHeldByCall'
  BY <1>1 DEF TxInv, LockHeldByCall
<1>7. \A k \in Conns : WorkFollows(k)'
  BY <1>1, <1>5 DEF WorkFollows, InTransaction
<1>8. SchemaKnown'
  <2>1. ObjectCount(schema') # 0
    BY <1>1, <1>3, TableCounts
  <2>2. ObjectCount(schema)' # 0
    BY <2>1
  <2> QED
    BY <2>2, <1>3 DEF TxInv, SchemaKnown
<1> QED
  BY <1>1, <1>4, <1>6, <1>7, <1>8 DEF TxInv

(***************************************************************************)
(* Every step.                                                             *)
(***************************************************************************)
LEMMA TxStart == Init => TxInv
BY SQLiteConstants, SchemasOfTheStore DEF Init, TxInv, LockHeldByCall, SchemaKnown, WorkFollows, InTransaction

LEMMA TxStutter == ASSUME TxInv, UNCHANGED <<fileVars, txVars, connVars>> PROVE TxInv'
BY DEF TxInv, LockHeldByCall, SchemaKnown, WorkFollows, InTransaction, fileVars, txVars, connVars

LEMMA StepKeepsTxInv == ASSUME TxInv, [Next]_vars PROVE TxInv' /\ [SchemaStep]_schema
<1>1. ASSUME NEW k \in Conns, NEW r \in Requests, Begin(k, r)
      PROVE  TxInv' /\ [SchemaStep]_schema
  BY <1>1, BeginKeeps
<1>2. ASSUME NEW k \in Conns, Return(k) \/ \E r \in Requests : Refuse(k, r)
      PROVE  TxInv' /\ [SchemaStep]_schema
  BY <1>2, RefuseReturnKeep
<1>3. ASSUME NEW k \in Conns,
             \/ Abort(k) \/ VerifyNoTriggers(k)
             \/ InitSchema(k) \/ CreateTables(k) \/ CreateRecord(k)
             \/ CreateAutomatic(k) \/ CreateExplicit(k) \/ AttachRunID(k) \/ UpdateBlocker(k)
      PROVE  TxInv' /\ [SchemaStep]_schema
  BY <1>3, CallKeeps
<1>4. ASSUME NEW k \in Conns, Commit(k)
      PROVE  TxInv' /\ [SchemaStep]_schema
  BY <1>4, CommitKeeps DEF SchemaStep
<1>5. ASSUME NEW h \in Handles, Crash(h)
      PROVE  TxInv' /\ [SchemaStep]_schema
  BY <1>5, CrashKeeps
<1>6. ASSUME MainTrigger PROVE TxInv' /\ [SchemaStep]_schema
  BY <1>6, MainTriggerKeeps DEF SchemaStep
<1>7. ASSUME NEW k \in Conns, NEW what \in {"trigger", "table"}, TempObject(k, what)
      PROVE  TxInv' /\ [SchemaStep]_schema
  <2>1. UNCHANGED <<fileVars, txVars, connVars>>
    BY <1>7 DEF TempObject
  <2> QED
    BY <2>1, TxStutter DEF fileVars
<1>8. ASSUME UNCHANGED vars PROVE TxInv' /\ [SchemaStep]_schema
  <2>1. UNCHANGED <<fileVars, txVars, connVars>>
    BY <1>8 DEF vars
  <2> QED
    BY <2>1, TxStutter DEF fileVars
<1> QED
  BY <1>1, <1>2, <1>3, <1>4, <1>5, <1>6, <1>7, <1>8 DEF Next

LEMMA TxInvariant == Spec => []TxInv
<1>1. TxInv /\ [Next]_vars => TxInv'
  BY StepKeepsTxInv
<1> QED
  BY <1>1, TxStart, PTL DEF Spec

(***************************************************************************)
(* The schemas that pass the checks of an open.                            *)
(***************************************************************************)

(* Every check of an open but the one for triggers, which may come later. *)
Verified(s) ==
  /\ s.Table.Kind = "table" /\ ~s.Table.Check /\ ~s.Table.ForeignKey
  /\ VerifyIntentColumns(s.Table)
  /\ VerifyPredicateCollations(s.Table)
  /\ VerifyExtraIndexes(s) /\ VerifyRequiredIndexes(s)
  /\ MadeBySQLite(s)

LEMMA ColumnsDomain == DOMAIN Columns = 1..10
  BY DEF Columns

(* The columns of a verified table, by name. *)
LEMMA VerifiedColumns ==
  ASSUME NEW s, Verified(s)
  PROVE  /\ \A n \in DOMAIN Columns : ColumnsNamed(s.Table, Columns[n]) # {}
         /\ \A n \in DOMAIN s.Table.Columns :
              /\ ~s.Table.Columns[n].Hidden
              /\ \E m \in DOMAIN Columns : s.Table.Columns[n].Name = Columns[m]
              /\ s.Table.Columns[n].Type = ColumnType(s.Table.Columns[n].Name)
              /\ s.Table.Columns[n].Key <=> s.Table.Columns[n].Name = "ID"
<1> DEFINE t == s.Table
           names == [i \in DOMAIN t.Columns |-> t.Columns[i].Name]
<1>1. names = Columns
  BY DEF Verified, VerifyIntentColumns
<1>2. DOMAIN t.Columns = DOMAIN Columns
  BY <1>1
<1>3. \A n \in DOMAIN t.Columns : t.Columns[n].Name = Columns[n]
  BY <1>1
<1>4. \A n \in DOMAIN Columns : t.Columns[n] \in ColumnsNamed(t, Columns[n])
  BY <1>2, <1>3 DEF ColumnsNamed
<1>5. \A n \in DOMAIN t.Columns :
        /\ ~t.Columns[n].Hidden
        /\ t.Columns[n].Type = ColumnType(t.Columns[n].Name)
        /\ t.Columns[n].Key <=> t.Columns[n].Name = "ID"
  BY DEF Verified, VerifyIntentColumns
<1> QED
  BY <1>2, <1>3, <1>4, <1>5

LEMMA VerifiedCollations ==
  ASSUME NEW s, Verified(s), NEW name \in {"Origin", "RunID"}
  PROVE  CollationOf(s.Table, name) = "BINARY"
<1>1. PICK n \in DOMAIN Columns : Columns[n] = name
  <2>1. Columns[2] = "Origin" /\ Columns[8] = "RunID"
    BY DEF Columns
  <2> QED
    BY <2>1, ColumnsDomain
<1>2. ColumnsNamed(s.Table, name) # {}
  BY <1>1, VerifiedColumns
<1>3. \A c \in ColumnsNamed(s.Table, name) : c.Collation = "BINARY"
  BY DEF ColumnsNamed, Verified, VerifyPredicateCollations
<1> QED
  BY <1>2, <1>3 DEF CollationOf

LEMMA VerifiedKeepsText ==
  ASSUME NEW s, Verified(s), NEW row
  PROVE  AsStored(s.Table, row) = row
<1>1. \A c \in ColumnsNamed(s.Table, "OperationID") : c.Type = "text"
  BY VerifiedColumns DEF ColumnsNamed, ColumnType
<1> QED
  BY <1>1 DEF AsStored

LEMMA BinaryIsEquality ==
  ASSUME NEW x, NEW y
  PROVE  SameUnder("BINARY", x, y) <=> x = y
  BY DEF SameUnder

(* What the contract forbids: two rows of one identity. *)
Clash(row, other) ==
  \/ row.ID = other.ID
  \/ row.Origin = "AUTOMATIC" /\ other.Origin = "AUTOMATIC"
       /\ row.PolicyID = other.PolicyID /\ row.Subject = other.Subject
  \/ row.Origin = "EXPLICIT" /\ other.Origin = "EXPLICIT"
       /\ row.OperationID = other.OperationID
  \/ row.RunID = other.RunID /\ row.RunID # Nil

(* An index of the table is that of the key, one of the three the schema
   declares, or decides nothing.                                           *)
LEMMA VerifiedIndex ==
  ASSUME NEW s, Verified(s), NEW i \in IndexesOn(s)
  PROVE  /\ ~Evaluated(i)
         /\ \/ ~i.Unique
            \/ i.Where = Nil /\ DOMAIN i.Keys # {}
                 /\ \A n \in DOMAIN i.Keys : i.Keys[n] .Column = "ID" /\ i.Keys[n].Collation = "BINARY"
            \/ \E w \in IntentIndexes :
                 KeyColumns(i) = KeyColumns(w) /\ i.Where = w.Where /\ VerifyBinaryKeys(i)
<1> USE NilIsNull
<1>0. /\ Nil # "ID" /\ Nil # "Origin" /\ Nil # "RunID" /\ Nil # "PolicyID"
      /\ Nil # "Subject" /\ Nil # "OperationID"
  BY DEF Columns
<1>1. i \in s.Indexes /\ i.On = "intents"
  BY DEF IndexesOn
<1>2. CASE i.Origin = "pk"
  <2>1. i.Where = Nil /\ DOMAIN i.Keys # {} /\ VerifyBinaryKeys(i)
    BY <1>1, <1>2 DEF Verified, MadeBySQLite, VerifyRequiredIndexes
  <2>2. \A n \in DOMAIN i.Keys : i.Keys[n].Column = "ID"
    <3> SUFFICES ASSUME NEW n \in DOMAIN i.Keys
                 PROVE  i.Keys[n].Column = "ID"
      OBVIOUS
    <3>1. PICK m \in DOMAIN s.Table.Columns :
            s.Table.Columns[m].Key /\ s.Table.Columns[m].Name = i.Keys[n].Column
      <4>1. MadeBySQLite(s) /\ i \in IndexesOn(s)
        BY DEF Verified
      <4> QED
        BY <4>1, <1>2 DEF MadeBySQLite
    <3>2. s.Table.Columns[m].Name = "ID"
      BY <3>1, VerifiedColumns
    <3> QED
      BY <3>1, <3>2
  <2>3. ~Evaluated(i)
    BY <1>0, <2>1, <2>2 DEF Evaluated
  <2> QED
    BY <2>1, <2>2, <2>3 DEF VerifyBinaryKeys
<1>3. CASE \E w \in IntentIndexes : w.Name = i.Name
  <2>1. PICK w \in IntentIndexes : w.Name = i.Name
    BY <1>3
  <2>2. PICK j \in IndexesOn(s) : /\ j.Name = w.Name /\ KeyColumns(j) = KeyColumns(w)
                                  /\ VerifyBinaryKeys(j) /\ j.Where = w.Where
    BY DEF Verified, VerifyRequiredIndexes
  <2>3. j = i
    BY <1>1, <2>1, <2>2 DEF Verified, MadeBySQLite, IndexesOn
  <2>4. /\ w.Where[1] # Nil
        /\ \A n \in DOMAIN w.Keys : w.Keys[n].Column # Nil
    BY <1>0 DEF IntentIndexes, UniqueIndex, Binary
  <2>5. DOMAIN i.Keys = DOMAIN w.Keys /\ \A n \in DOMAIN i.Keys : i.Keys[n].Column = w.Keys[n].Column
    BY <2>2, <2>3 DEF KeyColumns
  <2>6. ~Evaluated(i)
    BY <2>2, <2>3, <2>4, <2>5 DEF Evaluated
  <2> QED
    BY <2>2, <2>3, <2>6
<1>4. CASE ~i.Unique /\ VerifyPlainIndex(i)
  BY <1>4 DEF VerifyPlainIndex, Evaluated
<1> QED
  BY <1>2, <1>3, <1>4 DEF Verified, VerifyExtraIndexes

LEMMA CollisionClashes ==
  ASSUME NEW s, Verified(s), NEW i \in IndexesOn(s), i.Unique,
         NEW row \in IntentRecord, NEW other \in IntentRecord,
         Collides(s.Table, i, row, other)
  PROVE  Clash(row, other)
<1> DEFINE t == s.Table
<1>1. \A n \in DOMAIN i.Keys :
        SameUnder(i.Keys[n].Collation, row[i.Keys[n].Column], other[i.Keys[n].Column])
  BY DEF Collides
<1>2. CASE i.Where = Nil /\ DOMAIN i.Keys # {}
             /\ \A n \in DOMAIN i.Keys : i.Keys[n].Column = "ID" /\ i.Keys[n].Collation = "BINARY"
  <2>1. row["ID"] = other["ID"]
    BY <1>1, <1>2, BinaryIsEquality
  <2> QED
    BY <2>1 DEF Clash
<1>3. ASSUME NEW w \in IntentIndexes,
             KeyColumns(i) = KeyColumns(w), i.Where = w.Where, VerifyBinaryKeys(i)
      PROVE  Clash(row, other)
  <2>1. DOMAIN i.Keys = DOMAIN w.Keys /\ \A n \in DOMAIN i.Keys : i.Keys[n].Column = w.Keys[n].Column
    BY <1>3 DEF KeyColumns
  <2>2. \A n \in DOMAIN w.Keys : row[w.Keys[n].Column] = other[w.Keys[n].Column]
    BY <1>1, <1>3, <2>1, BinaryIsEquality DEF VerifyBinaryKeys
  <2>3. Covers(t, i, row) /\ Covers(t, i, other)
    BY DEF Collides
  <2>4. CollationOf(t, "Origin") = "BINARY" /\ CollationOf(t, "RunID") = "BINARY"
    BY VerifiedCollations
  <2>5. i.Where # Nil /\ i.Where = w.Where
    BY <1>3, NilIsNull
  <2>6. CASE w = UniqueIndex("intents_auto_key", <<"PolicyID", "Subject">>, <<"Origin", "=", "AUTOMATIC">>)
    <3>1. w.Where = <<"Origin", "=", "AUTOMATIC">> /\ w.Keys = Binary(<<"PolicyID", "Subject">>)
      BY <2>6 DEF UniqueIndex
    <3>2. row["Origin"] = "AUTOMATIC" /\ other["Origin"] = "AUTOMATIC"
      BY <3>1, <2>5, <2>3, <2>4, BinaryIsEquality DEF Covers
    <3>3. row["PolicyID"] = other["PolicyID"] /\ row["Subject"] = other["Subject"]
      BY <3>1, <2>2 DEF Binary
    <3> QED
      BY <3>2, <3>3 DEF Clash
  <2>7. CASE w = UniqueIndex("intents_operation_id", <<"OperationID">>, <<"Origin", "=", "EXPLICIT">>)
    <3>1. w.Where = <<"Origin", "=", "EXPLICIT">> /\ w.Keys = Binary(<<"OperationID">>)
      BY <2>7 DEF UniqueIndex
    <3>2. row["Origin"] = "EXPLICIT" /\ other["Origin"] = "EXPLICIT"
      BY <3>1, <2>5, <2>3, <2>4, BinaryIsEquality DEF Covers
    <3>3. row["OperationID"] = other["OperationID"]
      BY <3>1, <2>2 DEF Binary
    <3> QED
      BY <3>2, <3>3 DEF Clash
  <2>8. CASE w = UniqueIndex("intents_run_id", <<"RunID">>, <<"RunID", "<>", Nil>>)
    <3>1. w.Where = <<"RunID", "<>", Nil>> /\ w.Keys = Binary(<<"RunID">>)
      BY <2>8 DEF UniqueIndex
    <3>2. row["RunID"] # Nil
      BY <3>1, <2>5, <2>3, <2>4, BinaryIsEquality DEF Covers
    <3>3. row["RunID"] = other["RunID"]
      BY <3>1, <2>2 DEF Binary
    <3> QED
      BY <3>2, <3>3 DEF Clash
  <2> QED
    BY <2>6, <2>7, <2>8 DEF IntentIndexes
<1> QED
  BY <1>2, <1>3, VerifiedIndex

(* A verified schema refuses a row for a second row of its identity only. *)
LEMMA NotRefused ==
  ASSUME NEW s, Verified(s), NEW r \in Rows, NEW id \in IDs, NEW row \in IntentRecord,
         \A other \in IDs \ {id} : r[other] # Nil => ~Clash(row, r[other])
  PROVE  ~Refuses(s, r, id, row)
<1>1. ~(s.Table.Kind # "table" \/ s.Table.Check \/ s.Table.ForeignKey)
  BY DEF Verified
<1>2. \A n \in DOMAIN Columns : ColumnsNamed(s.Table, Columns[n]) # {}
  BY VerifiedColumns
<1>3. \A n \in DOMAIN s.Table.Columns :
        ~(s.Table.Columns[n].Hidden \/ \A m \in DOMAIN Columns : s.Table.Columns[n].Name # Columns[m])
  BY VerifiedColumns
<1>4. \A i \in IndexesOn(s) : ~Evaluated(i)
  BY VerifiedIndex
<1>5. ASSUME NEW i \in IndexesOn(s), NEW other \in IDs \ {id},
             i.Unique, r[other] # Nil, Collides(s.Table, i, AsStored(s.Table, row), r[other])
      PROVE  FALSE
  <2>1. r[other] \in IntentRecord
    BY <1>5 DEF Rows
  <2>2. Collides(s.Table, i, row, r[other])
    BY <1>5, VerifiedKeepsText
  <2> QED
    BY <1>5, <2>1, <2>2, CollisionClashes
<1> QED
  BY <1>1, <1>2, <1>3, <1>4, <1>5 DEF Refuses

(* The queries of a verified schema find what they name. *)
LEMMA QueriesAreExact ==
  ASSUME NEW s, Verified(s), NEW r, NEW id, NEW draft
  PROVE  /\ id \in WhereAuto(s.Table, r, draft.PolicyID, draft.Subject) <=>
              id \in IDs /\ r[id] # Nil /\ r[id].Origin = "AUTOMATIC"
                /\ r[id].PolicyID = draft.PolicyID /\ r[id].Subject = draft.Subject
         /\ id \in WhereExplicit(s.Table, r, draft.OperationID) <=>
              id \in IDs /\ r[id] # Nil /\ r[id].Origin = "EXPLICIT"
                /\ r[id].OperationID = draft.OperationID
<1>1. CollationOf(s.Table, "Origin") = "BINARY"
  BY VerifiedCollations
<1> QED
  BY <1>1, BinaryIsEquality DEF WhereAuto, WhereExplicit

LEMMA VersionOneVerified == Verified(SchemaV1)
<1>1. /\ SchemaV1.Table = IntentsTable /\ IntentsTable.Kind = "table"
      /\ ~IntentsTable.Check /\ ~IntentsTable.ForeignKey
      /\ DOMAIN IntentsTable.Columns = DOMAIN Columns
      /\ \A i \in DOMAIN Columns :
           LET c == IntentsTable.Columns[i] IN
           /\ c.Name = Columns[i] /\ c.Type = ColumnType(Columns[i]) /\ c.NotNull
           /\ c.Key <=> Columns[i] = "ID"
           /\ ~c.Hidden /\ c.Collation = "BINARY"
      /\ SchemaV1.Indexes = IntentIndexes \cup {PrimaryKeyIndex}
  BY DEF SchemaV1, IntentsTable
<1>2. VerifyIntentColumns(SchemaV1.Table)
  <2>1. [i \in DOMAIN IntentsTable.Columns |-> IntentsTable.Columns[i].Name] = [i \in DOMAIN Columns |-> Columns[i]]
    BY <1>1
  <2>2. [i \in DOMAIN Columns |-> Columns[i]] = Columns
    BY DEF Columns
  <2> QED
    BY <1>1, <2>1, <2>2 DEF VerifyIntentColumns
<1>3. VerifyPredicateCollations(SchemaV1.Table)
  BY <1>1 DEF VerifyPredicateCollations
<1>4. \A w \in IntentIndexes :
        /\ w.On = "intents" /\ w.Unique /\ w.Origin = "c" /\ VerifyBinaryKeys(w)
        /\ w.Name \in {"intents_auto_key", "intents_operation_id", "intents_run_id"}
  BY DEF IntentIndexes, UniqueIndex, Binary, VerifyBinaryKeys
<1>5. /\ PrimaryKeyIndex.On = "intents" /\ PrimaryKeyIndex.Unique
      /\ PrimaryKeyIndex.Origin = "pk" /\ PrimaryKeyIndex.Name = "pk"
      /\ PrimaryKeyIndex.Where = Nil /\ DOMAIN PrimaryKeyIndex.Keys = {1}
      /\ PrimaryKeyIndex.Keys[1].Column = "ID" /\ PrimaryKeyIndex.Keys[1].Collation = "BINARY"
  <2>1. DOMAIN Binary(<<"ID">>) = {1} /\ Binary(<<"ID">>)[1] = [Column |-> "ID", Collation |-> "BINARY"]
    BY DEF Binary
  <2> QED
    BY <2>1 DEF PrimaryKeyIndex, UniqueIndex
<1>6. \A v, w \in IntentIndexes : v.Name = w.Name => v = w
  <2> DEFINE a == UniqueIndex("intents_auto_key", <<"PolicyID", "Subject">>, <<"Origin", "=", "AUTOMATIC">>)
             o == UniqueIndex("intents_operation_id", <<"OperationID">>, <<"Origin", "=", "EXPLICIT">>)
             r == UniqueIndex("intents_run_id", <<"RunID">>, <<"RunID", "<>", Nil>>)
  <2>1. a.Name = "intents_auto_key" /\ o.Name = "intents_operation_id" /\ r.Name = "intents_run_id"
    BY DEF UniqueIndex
  <2>2. IntentIndexes = {a, o, r}
    BY DEF IntentIndexes
  <2> HIDE DEF a, o, r
  <2> QED
    BY <2>1, <2>2
<1>7. IndexesOn(SchemaV1) = IntentIndexes \cup {PrimaryKeyIndex}
  BY <1>1, <1>4, <1>5 DEF IndexesOn
<1>8. VerifyExtraIndexes(SchemaV1)
  BY <1>5, <1>7 DEF VerifyExtraIndexes
<1>9. VerifyRequiredIndexes(SchemaV1)
  <2>1. {i \in IndexesOn(SchemaV1) : i.Origin = "pk"} = {PrimaryKeyIndex}
    BY <1>4, <1>5, <1>7
  <2>2. Cardinality({i \in IndexesOn(SchemaV1) : i.Origin = "pk"}) = 1
    BY <2>1, FS_Singleton
  <2>3. VerifyBinaryKeys(PrimaryKeyIndex)
    BY <1>5 DEF VerifyBinaryKeys
  <2>4. \A w \in IntentIndexes : \E i \in IndexesOn(SchemaV1) :
          /\ i.Name = w.Name /\ i.Unique /\ KeyColumns(i) = KeyColumns(w)
          /\ VerifyBinaryKeys(i) /\ i.Where = w.Where
    BY <1>4, <1>7
  <2>5. \A i \in IndexesOn(SchemaV1) : i.Origin = "pk" => VerifyBinaryKeys(i)
    BY <1>4, <2>3, <1>7
  <2> QED
    BY <2>2, <2>4, <2>5 DEF VerifyRequiredIndexes
<1>10. MadeBySQLite(SchemaV1)
  <2>1. \A i, j \in SchemaV1.Indexes : i.Name = j.Name => i = j
    BY <1>1, <1>4, <1>5, <1>6
  <2>2. \E m \in DOMAIN Columns : IntentsTable.Columns[m].Key /\ IntentsTable.Columns[m].Name = "ID"
    <3>1. 1 \in DOMAIN Columns /\ Columns[1] = "ID"
      BY DEF Columns
    <3> QED
      BY <3>1, <1>1
  <2>3. \A i \in IndexesOn(SchemaV1) : i.Origin = "pk" => i = PrimaryKeyIndex
    BY <1>4, <1>7
  <2> QED
    BY <1>1, <1>5, <2>1, <2>2, <2>3 DEF MadeBySQLite
<1> QED
  BY <1>1, <1>2, <1>3, <1>8, <1>9, <1>10 DEF Verified

(***************************************************************************)
(* The rows and the calls: the invariant.                                  *)
(***************************************************************************)

(* Same intent, but for what the store may change of it. *)
SameIntent(x, y) ==
  /\ x.ID = y.ID /\ x.Origin = y.Origin /\ x.PolicyID = y.PolicyID
  /\ x.PolicyRevision = y.PolicyRevision /\ x.OperationID = y.OperationID
  /\ x.Subject = y.Subject /\ x.PipelineRevision = y.PipelineRevision
  /\ x.AdmissionEpoch = y.AdmissionEpoch

StandsIn(r, in) ==
  /\ in.ID \in IDs /\ r[in.ID] # Nil
  /\ SameIntent(r[in.ID], in) /\ in.RunID \in {Nil, r[in.ID].RunID}

Evolves(before, after) == \A id \in IDs : before[id] # Nil => StandsIn(after, before[id])

(* No other row is of the identity of row, which is that of id. *)
Free(r, id, row) ==
  /\ row \in IntentRecord /\ row.ID = id
  /\ \A other \in IDs \ {id} : r[other] # Nil => ~Clash(row, r[other])

RowsGood(r) == r \in Rows /\ \A id \in IDs : r[id] # Nil => Free(r, id, r[id])

(* What a write makes of the rows it found: nothing, a row of an identity
   that no row has, a first RunID that no row has, or another blocker.     *)
NoneLike(r, draft) ==
  \A id \in IDs : r[id] # Nil /\ r[id].Origin = draft.Origin =>
    IF draft.Origin = "AUTOMATIC"
      THEN ~(r[id].PolicyID = draft.PolicyID /\ r[id].Subject = draft.Subject)
      ELSE r[id].OperationID # draft.OperationID

Created(q, id, before, after) ==
  /\ q.Kind \in {"createAutomatic", "createExplicit"}
  /\ before[id] = Nil /\ NoneLike(before, q.Draft)
  /\ after = [before EXCEPT ![id] = [q.Draft EXCEPT !.ID = id]]

RunAttached(q, before, after) ==
  /\ q.Kind = "AttachRunID"
  /\ before[q.ID] # Nil /\ before[q.ID].RunID = Nil
  /\ \A id \in IDs : before[id] # Nil => before[id].RunID # q.Run
  /\ after = [before EXCEPT ![q.ID] = [before[q.ID] EXCEPT !.RunID = q.Run]]

BlockerUpdated(q, before, after) ==
  /\ q.Kind = "UpdateBlocker" /\ q.Owner \in BlockerOwners
  /\ before[q.ID] # Nil /\ before[q.ID].Blockers[q.Owner] # q.State
  /\ after = [before EXCEPT ![q.ID] = [before[q.ID] EXCEPT !.Blockers[q.Owner] = q.State]]

Change(q, before, after) ==
  \/ after = before
  \/ \E id \in IDs : Created(q, id, before, after)
  \/ RunAttached(q, before, after)
  \/ BlockerUpdated(q, before, after)

(* A call in its transaction. *)
CallInv(k) ==
  pc[k] \in InTransaction =>
    /\ call[k] \in Requests /\ RefusedAtOnce(call[k]) = ""
    /\ Kind(k) # "open" => open[HandleOf[k]]
    /\ pc[k] \in {"tables", "record"} => Kind(k) = "open"
    /\ pc[k] = "body" => ~SeesTrigger(k)
    /\ IF pc[k] = "commit"
         THEN /\ IF Kind(k) = "open" THEN Verified(work.Schema) ELSE work.Schema = schema
              /\ Change(call[k], rows, work.Rows)
         ELSE work.Rows = rows

(* What a call answers stands in what its COMMIT writes, and from then on in
   the file.                                                               *)
AnswerInv(k) ==
  LET in == answer[k].Intent IN
  /\ answer[k].Code # "RAW"
  /\ pc[k] = "commit" /\ in # Nil =>
       Asked(call[k], in) /\ in.ID \in IDs /\ work.Rows[in.ID] = in
  /\ pc[k] = "done" /\ in # Nil => Asked(call[k], in) /\ StandsIn(rows, in)
  /\ pc[k] \notin {"commit", "done"} => in = Nil

FileTyped ==
  /\ work.Rows \in Rows
  /\ temp \in [Conns -> {"none", "trigger", "table"}]
  /\ open \in [Handles -> BOOLEAN]
  /\ call \in [Conns -> Requests \cup {Nil}]
  /\ answer = [k \in Conns |-> answer[k]]
  /\ \A k \in Conns : answer[k].Intent \in IntentRecord \cup {Nil}

FileInv ==
  /\ RowsGood(rows)
  /\ FileTyped
  /\ MadeBySQLite(schema)
  /\ \A h \in Handles : open[h] => Verified(schema)
  /\ \A k \in Conns : CallInv(k) /\ AnswerInv(k)

(***************************************************************************)
(* Rows.                                                                   *)
(***************************************************************************)
LEMMA RequestFields ==
  ASSUME NEW q \in Requests
  PROVE  /\ q.Kind = "createAutomatic" =>
              \E p \in Policies, prev \in PolicyRevisions, s \in Subjects, rev \in PipelineRevisions :
                q.Draft = AutomaticDraft(p, prev, s, rev, 0)
         /\ q.Kind = "createExplicit" => q.Draft \in IntentRecord
         /\ q.Kind = "AttachRunID" => q.ID \in IDs /\ q.Run \in RunIDs
         /\ q.Kind = "UpdateBlocker" =>
              q.ID \in IDs /\ q.State \in BlockerStates
<1>1. q \in AllRequests
  BY RequestsOfTheStore
<1>2. CASE q \in [Kind : {"open", "policyLog"}]
  BY <1>2
<1>3. CASE q \in [Kind : {"createAutomatic"},
        Draft : {AutomaticDraft(p, prev, s, rev, 0) :
                   p \in Policies, prev \in PolicyRevisions, s \in Subjects,
                   rev \in PipelineRevisions}]
  BY <1>3
<1>4. CASE q \in [Kind : {"createExplicit"}, Draft : IntentRecord]
  BY <1>4
<1>5. CASE q \in [Kind : {"AttachRunID"}, ID : IDs, Run : RunIDs]
  BY <1>5
<1>6. CASE q \in [Kind : {"UpdateBlocker"}, ID : IDs, Owner : BlockerOwners \cup {"NOBODY"},
        State : BlockerStates]
  BY <1>6
<1> QED
  BY <1>1, <1>2, <1>3, <1>4, <1>5, <1>6 DEF AllRequests

(* A draft that reaches its transaction is of its kind, without a RunID. *)
LEMMA RequestDrafts ==
  ASSUME NEW q \in Requests, RefusedAtOnce(q) = "",
         q.Kind \in {"createAutomatic", "createExplicit"}
  PROVE  /\ q.Draft \in IntentRecord /\ q.Draft.RunID = Nil
         /\ q.Kind = "createAutomatic" => q.Draft.Origin = "AUTOMATIC"
         /\ q.Kind = "createExplicit" => CheckExplicitDraft(q.Draft)
<1>1. CASE q.Kind = "createAutomatic"
  <2>1. PICK p \in Policies, prev \in PolicyRevisions, s \in Subjects, rev \in PipelineRevisions :
          q.Draft = AutomaticDraft(p, prev, s, rev, 0)
    BY <1>1, RequestFields
  <2>2. NoBlockers \in Blockers
    BY DEF NoBlockers, Blockers, BlockerStates
  <2>3. AutomaticDraft(p, prev, s, rev, 0) \in IntentRecord
    BY <2>2 DEF AutomaticDraft, IntentRecord, Origins
  <2>4. LET d == AutomaticDraft(p, prev, s, rev, 0) IN d.Origin = "AUTOMATIC" /\ d.RunID = Nil
    BY DEF AutomaticDraft
  <2> QED
    BY <1>1, <2>1, <2>3, <2>4
<1>2. CASE q.Kind = "createExplicit"
  BY <1>2, RequestFields DEF RefusedAtOnce, CheckExplicitDraft
<1> QED
  BY <1>1, <1>2

LEMMA DraftIsFree ==
  ASSUME NEW r, RowsGood(r), NEW draft \in IntentRecord, draft.RunID = Nil,
         NEW id \in IDs, r[id] = Nil, NoneLike(r, draft)
  PROVE  Free(r, id, [draft EXCEPT !.ID = id])
<1> DEFINE row == [draft EXCEPT !.ID = id]
<1>1. /\ row \in IntentRecord /\ row.ID = id /\ row.RunID = Nil
      /\ row.Origin = draft.Origin /\ row.PolicyID = draft.PolicyID
      /\ row.Subject = draft.Subject /\ row.OperationID = draft.OperationID
  BY DEF IntentRecord
<1>2. ASSUME NEW other \in IDs \ {id}, r[other] # Nil PROVE ~Clash(row, r[other])
  <2> HIDE DEF row
  <2>1. r[other].ID = other
    BY <1>2 DEF RowsGood, Free
  <2> QED
    BY <1>1, <1>2, <2>1 DEF Clash, NoneLike
<1> QED
  BY <1>1, <1>2 DEF Free

LEMMA AttachedIsFree ==
  ASSUME NEW r, RowsGood(r), NEW id \in IDs, r[id] # Nil, NEW run \in RunIDs,
         \A other \in IDs : r[other] # Nil => r[other].RunID # run
  PROVE  Free(r, id, [r[id] EXCEPT !.RunID = run])
<1> DEFINE row == [r[id] EXCEPT !.RunID = run]
<1>1. r[id] \in IntentRecord /\ Free(r, id, r[id])
  BY DEF RowsGood, Free
<1>2. /\ row \in IntentRecord /\ row.ID = id /\ row.RunID = run
      /\ row.Origin = r[id].Origin /\ row.PolicyID = r[id].PolicyID
      /\ row.Subject = r[id].Subject /\ row.OperationID = r[id].OperationID
  BY <1>1 DEF IntentRecord, Free
<1> HIDE DEF row
<1>3. ASSUME NEW other \in IDs \ {id}, r[other] # Nil PROVE ~Clash(row, r[other])
  BY <1>1, <1>2, <1>3 DEF Clash, Free
<1> QED
  BY <1>2, <1>3 DEF Free, row

LEMMA BlockedIsFree ==
  ASSUME NEW r, RowsGood(r), NEW id \in IDs, r[id] # Nil,
         NEW owner \in BlockerOwners, NEW state \in BlockerStates
  PROVE  Free(r, id, [r[id] EXCEPT !.Blockers[owner] = state])
<1> DEFINE row == [r[id] EXCEPT !.Blockers[owner] = state]
<1>1. r[id] \in IntentRecord /\ Free(r, id, r[id])
  BY DEF RowsGood, Free
<1>2. [r[id].Blockers EXCEPT ![owner] = state] \in Blockers
  BY <1>1 DEF IntentRecord, Blockers
<1>3. /\ row \in IntentRecord /\ row.ID = id /\ row.RunID = r[id].RunID
      /\ row.Origin = r[id].Origin /\ row.PolicyID = r[id].PolicyID
      /\ row.Subject = r[id].Subject /\ row.OperationID = r[id].OperationID
  BY <1>1, <1>2 DEF IntentRecord, Free
<1> HIDE DEF row
<1>4. ASSUME NEW other \in IDs \ {id}, r[other] # Nil PROVE ~Clash(row, r[other])
  BY <1>1, <1>3, <1>4 DEF Clash, Free
<1> QED
  BY <1>3, <1>4 DEF Free, row

LEMMA PutKeepsRows ==
  ASSUME NEW r, RowsGood(r), NEW id \in IDs, NEW row, Free(r, id, row)
  PROVE  RowsGood([r EXCEPT ![id] = row])
<1> DEFINE after == [r EXCEPT ![id] = row]
<1>1. /\ r \in Rows /\ row \in IntentRecord /\ row.ID = id
      /\ \A i \in IDs : r[i] # Nil => r[i] \in IntentRecord /\ r[i].ID = i
  BY DEF RowsGood, Free
<1>2. after \in Rows /\ after[id] = row /\ \A i \in IDs : i # id => after[i] = r[i]
  BY <1>1 DEF Rows
<1> HIDE DEF after
<1>3. ASSUME NEW i \in IDs, after[i] # Nil PROVE Free(after, i, after[i])
  <2>1. CASE i = id
    BY <2>1, <1>1, <1>2 DEF Free
  <2>2. CASE i # id
    <3>1. Free(r, i, r[i])
      BY <2>2, <1>2, <1>3 DEF RowsGood
    <3>2. ~Clash(r[i], row)
      <4>1. ~Clash(row, r[i])
        BY <2>2, <1>2, <1>3 DEF Free
      <4> QED
        BY <4>1 DEF Clash
    <3> QED
      BY <2>2, <3>1, <3>2, <1>2 DEF Free
  <2> QED
    BY <2>1, <2>2
<1>4. RowsGood(after)
  BY <1>2, <1>3 DEF RowsGood
<1> QED
  BY <1>4 DEF after

LEMMA GoodEvolves == ASSUME NEW r, RowsGood(r) PROVE Evolves(r, r)
BY DEF RowsGood, Free, Evolves, StandsIn, SameIntent

LEMMA PutEvolves ==
  ASSUME NEW r, RowsGood(r), NEW id \in IDs, NEW row \in IntentRecord,
         r[id] # Nil => SameIntent(row, r[id]) /\ r[id].RunID \in {Nil, row.RunID}
  PROVE  Evolves(r, [r EXCEPT ![id] = row])
<1> DEFINE after == [r EXCEPT ![id] = row]
<1>1. /\ row # Nil /\ after[id] = row
      /\ \A i \in IDs : i # id => after[i] = r[i]
  BY NilIsFresh DEF RowsGood, Rows
<1>2. \A i \in IDs : r[i] # Nil => r[i].ID = i
  BY DEF RowsGood, Free
<1> HIDE DEF after
<1>3. Evolves(r, after)
  BY <1>1, <1>2 DEF Evolves, StandsIn, SameIntent
<1> QED
  BY <1>3 DEF after

(* Whatever a call makes of the rows, they stay of distinct identities, and
   those that were there stand.                                            *)
LEMMA ChangeKeepsRows ==
  ASSUME NEW q \in Requests, RefusedAtOnce(q) = "", NEW r, RowsGood(r), NEW after,
         Change(q, r, after)
  PROVE  RowsGood(after) /\ Evolves(r, after)
<1>1. CASE after = r
  BY <1>1, GoodEvolves
<1>2. CASE \E id \in IDs : Created(q, id, r, after)
  <2>1. PICK id \in IDs : Created(q, id, r, after)
    BY <1>2
  <2> DEFINE row == [q.Draft EXCEPT !.ID = id]
  <2>2. /\ q.Kind \in {"createAutomatic", "createExplicit"} /\ r[id] = Nil
        /\ NoneLike(r, q.Draft) /\ after = [r EXCEPT ![id] = row]
    BY <2>1 DEF Created
  <2>3. Free(r, id, row)
    BY <2>2, RequestDrafts, DraftIsFree
  <2>4. row \in IntentRecord
    BY <2>3 DEF Free
  <2> QED
    BY <2>2, <2>3, <2>4, PutKeepsRows, PutEvolves
<1>3. CASE RunAttached(q, r, after)
  <2> DEFINE row == [r[q.ID] EXCEPT !.RunID = q.Run]
  <2>1. /\ q.ID \in IDs /\ q.Run \in RunIDs /\ r[q.ID] # Nil /\ r[q.ID].RunID = Nil
        /\ \A other \in IDs : r[other] # Nil => r[other].RunID # q.Run
        /\ after = [r EXCEPT ![q.ID] = row]
    BY <1>3, RequestFields DEF RunAttached
  <2>2. Free(r, q.ID, row)
    BY <2>1, AttachedIsFree
  <2>3. row \in IntentRecord /\ r[q.ID] \in IntentRecord
    BY <2>1, <2>2 DEF Free, RowsGood
  <2>4. SameIntent(row, r[q.ID])
    BY <2>3 DEF SameIntent, IntentRecord
  <2> QED
    BY <2>1, <2>2, <2>3, <2>4, PutKeepsRows, PutEvolves
<1>4. CASE BlockerUpdated(q, r, after)
  <2> DEFINE row == [r[q.ID] EXCEPT !.Blockers[q.Owner] = q.State]
  <2>1. /\ q.ID \in IDs /\ q.State \in BlockerStates /\ q.Owner \in BlockerOwners /\ r[q.ID] # Nil
        /\ after = [r EXCEPT ![q.ID] = row]
    BY <1>4, RequestFields DEF BlockerUpdated
  <2>2. Free(r, q.ID, row)
    BY <2>1, BlockedIsFree
  <2>3. row \in IntentRecord /\ r[q.ID] \in IntentRecord
    BY <2>1, <2>2 DEF Free, RowsGood
  <2>4. SameIntent(row, r[q.ID]) /\ row.RunID = r[q.ID].RunID
    BY <2>3 DEF SameIntent, IntentRecord
  <2> QED
    BY <2>1, <2>2, <2>3, <2>4, PutKeepsRows, PutEvolves
<1> QED
  BY <1>1, <1>2, <1>3, <1>4 DEF Change

LEMMA StandsOn ==
  ASSUME NEW r, NEW after, RowsGood(r), Evolves(r, after), NEW in, StandsIn(r, in)
  PROVE  StandsIn(after, in)
<1>1. StandsIn(after, r[in.ID]) /\ r[in.ID].ID = in.ID
  BY DEF StandsIn, Evolves, RowsGood, Free
<1> QED
  BY <1>1 DEF StandsIn, SameIntent

(***************************************************************************)
(* The writes.                                                             *)
(***************************************************************************)

(* How a step of a transaction ends: it fails, with an answer of the
   contract, or it has staged a change that bears out its answer.          *)
Failed(k) == \E code : code # "RAW" /\ Fail(k, code)

Bears(k, newRows, in) ==
  /\ Change(call[k], rows, newRows) /\ newRows \in Rows
  /\ in \in IntentRecord /\ in.ID \in IDs /\ newRows[in.ID] = in /\ Asked(call[k], in)

Outcome(k) ==
  \/ Failed(k)
  \/ \E newRows, in :
       /\ InTx(k, "commit", work.Schema, newRows) /\ Reply(k, "OK", in)
       /\ Bears(k, newRows, in)

(* What a write body sees. *)
LEMMA BodySees ==
  ASSUME TxInv, FileInv, NEW k \in Conns, pc[k] = "body", Kind(k) # "open"
  PROVE  /\ call[k] \in Requests /\ RefusedAtOnce(call[k]) = ""
         /\ work.Schema = schema /\ work.Rows = rows /\ RowsGood(rows)
         /\ Verified(schema) /\ ~SeesTrigger(k)
         /\ \A id \in IDs : rows[id] # Nil => rows[id] \in IntentRecord /\ rows[id].ID = id
<1>1. pc[k] \in InTransaction /\ CallInv(k)
  BY DEF InTransaction, FileInv
<1>2. open[HandleOf[k]] /\ HandleOf[k] \in Handles
  BY <1>1, SQLiteConstants DEF CallInv
<1>3. work.Schema = schema
  BY DEF TxInv, WorkFollows
<1> QED
  BY <1>1, <1>2, <1>3 DEF CallInv, FileInv, RowsGood, Free

(* A free row is staged, whatever the schema. *)
LEMMA FreeIsStaged ==
  ASSUME TxInv, FileInv, NEW k \in Conns, pc[k] = "body", Kind(k) # "open",
         NEW id \in IDs, NEW row, Free(rows, id, row), Stage(k, id, row)
  PROVE  /\ InTx(k, "commit", work.Schema, [rows EXCEPT ![id] = row])
         /\ Reply(k, "OK", row)
<1>1. /\ work.Schema = schema /\ work.Rows = rows /\ rows \in Rows
      /\ Verified(schema) /\ ~SeesTrigger(k)
  BY BodySees DEF RowsGood
<1>2. row \in IntentRecord /\ ~Refuses(schema, rows, id, row)
  BY <1>1, NotRefused DEF Free
<1>3. AsStored(schema.Table, row) = row
  BY <1>1, VerifiedKeepsText
<1>4. ~Fires(k) /\ Target(k) = "main"
  BY <1>1 DEF Fires, SeesTrigger, Target
<1> QED
  BY <1>1, <1>2, <1>3, <1>4 DEF Stage

(* An answer that is a row already there. *)
LEMMA FoundIsBorne ==
  ASSUME TxInv, FileInv, NEW k \in Conns, pc[k] = "body", Kind(k) # "open",
         NEW id \in IDs, rows[id] # Nil, Asked(call[k], rows[id]),
         Answered(k, "commit", rows[id])
  PROVE  Outcome(k)
<1>1. work.Rows = rows /\ rows[id] \in IntentRecord /\ rows[id].ID = id /\ rows \in Rows
  BY BodySees DEF RowsGood
<1>2. Bears(k, rows, rows[id])
  BY <1>1 DEF Bears, Change
<1> QED
  BY <1>1, <1>2 DEF Answered, Outcome

LEMMA StagedIsBorne ==
  ASSUME TxInv, FileInv, NEW k \in Conns, pc[k] = "body", Kind(k) # "open",
         NEW id \in IDs, NEW row, Free(rows, id, row), Stage(k, id, row),
         Change(call[k], rows, [rows EXCEPT ![id] = row]), Asked(call[k], row)
  PROVE  Outcome(k)
<1>1. rows \in Rows /\ row \in IntentRecord /\ row.ID = id
  BY BodySees DEF RowsGood, Free
<1>2. [rows EXCEPT ![id] = row] \in Rows /\ [rows EXCEPT ![id] = row][id] = row
  BY <1>1 DEF Rows
<1>3. Bears(k, [rows EXCEPT ![id] = row], row)
  BY <1>1, <1>2 DEF Bears
<1> QED
  BY <1>3, FreeIsStaged DEF Outcome

LEMMA InsertOutcome ==
  ASSUME TxInv, FileInv, NEW k \in Conns, pc[k] = "body",
         Kind(k) \in {"createAutomatic", "createExplicit"},
         NoneLike(rows, call[k].Draft), InsertIntent(k, call[k].Draft)
  PROVE  Outcome(k)
<1> DEFINE draft == call[k].Draft
<1>1. /\ call[k] \in Requests /\ RefusedAtOnce(call[k]) = ""
      /\ work.Rows = rows /\ RowsGood(rows)
  BY BodySees
<1>2. PICK id \in IDs : rows[id] = Nil /\ Stage(k, id, [draft EXCEPT !.ID = id])
  BY <1>1 DEF InsertIntent
<1> DEFINE row == [draft EXCEPT !.ID = id]
<1>3. /\ draft \in IntentRecord /\ draft.RunID = Nil
      /\ Kind(k) = "createAutomatic" => draft.Origin = "AUTOMATIC"
      /\ Kind(k) = "createExplicit" => draft.Origin = "EXPLICIT"
  BY <1>1, RequestDrafts DEF Kind, CheckExplicitDraft
<1>4. Free(rows, id, row)
  BY <1>1, <1>2, <1>3, DraftIsFree
<1>5. Change(call[k], rows, [rows EXCEPT ![id] = row])
  BY <1>2 DEF Change, Created, Kind
<1>6. Asked(call[k], row)
  <2>1. /\ row.Origin = draft.Origin /\ row.PolicyID = draft.PolicyID
        /\ row.Subject = draft.Subject /\ row.OperationID = draft.OperationID
    BY <1>3 DEF IntentRecord
  <2> HIDE DEF row
  <2> QED
    BY <1>3, <2>1 DEF Asked, Kind
<1> HIDE DEF row
<1>7. Stage(k, id, row)
  BY <1>2 DEF row
<1> QED
  BY <1>4, <1>5, <1>6, <1>7, StagedIsBorne

LEMMA AutomaticOutcome ==
  ASSUME TxInv, FileInv, NEW k \in Conns, CreateAutomatic(k)
  PROVE  pc[k] = "body" /\ Kind(k) # "open" /\ Outcome(k)
<1> DEFINE draft == call[k].Draft
           found == WhereAuto(work.Schema.Table, work.Rows, draft.PolicyID, draft.Subject)
<1>1. pc[k] = "body" /\ Kind(k) = "createAutomatic"
  BY DEF CreateAutomatic
<1>2. /\ work.Rows = rows /\ work.Schema = schema /\ Verified(schema)
      /\ call[k] \in Requests /\ RefusedAtOnce(call[k]) = ""
  BY <1>1, BodySees
<1>3. \A id : id \in found <=>
        id \in IDs /\ rows[id] # Nil /\ rows[id].Origin = "AUTOMATIC"
          /\ rows[id].PolicyID = draft.PolicyID /\ rows[id].Subject = draft.Subject
  <2>1. found = WhereAuto(schema.Table, rows, draft.PolicyID, draft.Subject)
    BY <1>2
  <2> HIDE DEF found, draft
  <2>0. Verified(schema)
    BY <1>2
  <2>2. ASSUME NEW id
        PROVE  id \in WhereAuto(schema.Table, rows, draft.PolicyID, draft.Subject) <=>
            id \in IDs /\ rows[id] # Nil /\ rows[id].Origin = "AUTOMATIC"
              /\ rows[id].PolicyID = draft.PolicyID /\ rows[id].Subject = draft.Subject
    BY <2>0, QueriesAreExact, SMT
  <2> QED
    BY <2>1, <2>2
<1>4. draft.Origin = "AUTOMATIC"
  BY <1>1, <1>2, RequestDrafts DEF Kind
<1>5. CASE \E id \in found : Answered(k, "commit", work.Rows[id])
  <2>1. PICK id \in found : Answered(k, "commit", work.Rows[id])
    BY <1>5
  <2>2. id \in IDs /\ rows[id] # Nil /\ Asked(call[k], rows[id])
    BY <1>1, <1>3 DEF Asked, Kind
  <2> QED
    BY <1>1, <1>2, <2>1, <2>2, FoundIsBorne
<1>6. CASE found = {} /\ InsertIntent(k, draft)
  <2>1. NoneLike(rows, draft)
    BY <1>3, <1>4, <1>6 DEF NoneLike
  <2> QED
    BY <1>1, <1>6, <2>1, InsertOutcome
<1>7. (\E id \in found : Answered(k, "commit", work.Rows[id])) \/ (found = {} /\ InsertIntent(k, draft))
  BY DEF CreateAutomatic
<1> QED
  BY <1>1, <1>5, <1>6, <1>7

LEMMA ExplicitOutcome ==
  ASSUME TxInv, FileInv, NEW k \in Conns, CreateExplicit(k)
  PROVE  pc[k] = "body" /\ Kind(k) # "open" /\ Outcome(k)
<1> DEFINE draft == call[k].Draft
           found == WhereExplicit(work.Schema.Table, work.Rows, draft.OperationID)
<1>1. pc[k] = "body" /\ Kind(k) = "createExplicit"
  BY DEF CreateExplicit
<1>2. /\ work.Rows = rows /\ work.Schema = schema /\ Verified(schema)
      /\ call[k] \in Requests /\ RefusedAtOnce(call[k]) = ""
  BY <1>1, BodySees
<1>3. \A id : id \in found <=>
        id \in IDs /\ rows[id] # Nil /\ rows[id].Origin = "EXPLICIT"
          /\ rows[id].OperationID = draft.OperationID
  <2>1. found = WhereExplicit(schema.Table, rows, draft.OperationID)
    BY <1>2
  <2> HIDE DEF found, draft
  <2>0. Verified(schema)
    BY <1>2
  <2>2. ASSUME NEW id
        PROVE  id \in WhereExplicit(schema.Table, rows, draft.OperationID) <=>
            id \in IDs /\ rows[id] # Nil /\ rows[id].Origin = "EXPLICIT"
              /\ rows[id].OperationID = draft.OperationID
    BY <2>0, QueriesAreExact, SMT
  <2> QED
    BY <2>1, <2>2
<1>4. draft.Origin = "EXPLICIT"
  BY <1>1, <1>2, RequestDrafts DEF Kind, CheckExplicitDraft
<1>5. CASE \E id \in found : Answered(k, "commit", work.Rows[id])
  <2>1. PICK id \in found : Answered(k, "commit", work.Rows[id])
    BY <1>5
  <2>2. id \in IDs /\ rows[id] # Nil /\ Asked(call[k], rows[id])
    BY <1>1, <1>3 DEF Asked, Kind
  <2> QED
    BY <1>1, <1>2, <2>1, <2>2, FoundIsBorne
<1>6. CASE found = {} /\ InsertIntent(k, draft)
  <2>1. NoneLike(rows, draft)
    BY <1>3, <1>4, <1>6 DEF NoneLike
  <2> QED
    BY <1>1, <1>6, <2>1, InsertOutcome
<1>7. (\E id \in found : Answered(k, "commit", work.Rows[id])) \/ (found = {} /\ InsertIntent(k, draft))
  BY DEF CreateExplicit
<1> QED
  BY <1>1, <1>5, <1>6, <1>7

LEMMA AttachOutcome ==
  ASSUME TxInv, FileInv, NEW k \in Conns, AttachRunID(k)
  PROVE  pc[k] = "body" /\ Kind(k) # "open" /\ Outcome(k)
<1> DEFINE id == call[k].ID
           run == call[k].Run
           in == rows[id]
<1>1. pc[k] = "body" /\ Kind(k) = "AttachRunID"
  BY DEF AttachRunID
<1>2. /\ work.Rows = rows /\ RowsGood(rows) /\ call[k] \in Requests
      /\ \A i \in IDs : rows[i] # Nil => rows[i] \in IntentRecord /\ rows[i].ID = i
  BY <1>1, BodySees
<1>3. id \in IDs /\ run \in RunIDs
  BY <1>1, <1>2, RequestFields DEF Kind
<1>4. CASE Fail(k, "NOT_FOUND") \/ Fail(k, "RUN_ID_CONFLICT")
  BY <1>1, <1>4 DEF Outcome, Failed
<1>5. CASE in # Nil /\ Attach(k, in, run)
  <2>1. CASE in.RunID = run /\ Answered(k, "commit", in)
    <3>1. Asked(call[k], in)
      BY <1>1, <1>2, <1>3, <1>5, <2>1 DEF Asked, Kind
    <3> QED
      BY <1>1, <1>3, <1>5, <2>1, <3>1, FoundIsBorne
  <2>2. CASE in.RunID = Nil /\ WhereRunID(rows, run) = {} /\ Stage(k, in.ID, [in EXCEPT !.RunID = run])
    <3> DEFINE row == [in EXCEPT !.RunID = run]
    <3>1. \A i \in IDs : rows[i] # Nil => rows[i].RunID # run
      BY <2>2 DEF WhereRunID
    <3>2. Free(rows, id, row)
      BY <1>2, <1>3, <1>5, <3>1, AttachedIsFree
    <3>3. Change(call[k], rows, [rows EXCEPT ![id] = row])
      BY <1>1, <1>3, <1>5, <2>2, <3>1 DEF Change, RunAttached, Kind
    <3>4. Asked(call[k], row)
      <4>1. row.ID = id /\ row.RunID = run
        BY <1>2, <1>3, <1>5 DEF IntentRecord
      <4> HIDE DEF row
      <4> QED
        BY <1>1, <4>1 DEF Asked, Kind
    <3>5. Stage(k, id, row)
      BY <1>2, <1>3, <1>5, <2>2
    <3> HIDE DEF row
    <3> QED
      BY <1>1, <1>3, <3>2, <3>3, <3>4, <3>5, StagedIsBorne
  <2> QED
    BY <1>2, <1>4, <1>1, <1>5, <2>1, <2>2 DEF Attach, Outcome, Failed
<1>6. \A i : i \in WhereID(rows, id) => i = id /\ rows[id] # Nil
  BY DEF WhereID
<1>7. \/ Fail(k, "NOT_FOUND")
      \/ \E i \in WhereID(work.Rows, id) : Attach(k, work.Rows[i], run)
  BY DEF AttachRunID
<1> QED
  BY <1>1, <1>2, <1>4, <1>5, <1>6, <1>7

LEMMA BlockerOutcome ==
  ASSUME TxInv, FileInv, NEW k \in Conns, UpdateBlocker(k)
  PROVE  pc[k] = "body" /\ Kind(k) # "open" /\ Outcome(k)
<1> DEFINE id == call[k].ID
           owner == call[k].Owner
           state == call[k].State
           in == rows[id]
           row == [in EXCEPT !.Blockers[owner] = state]
<1>1. pc[k] = "body" /\ Kind(k) = "UpdateBlocker"
  BY DEF UpdateBlocker
<1>2. /\ work.Rows = rows /\ RowsGood(rows) /\ call[k] \in Requests
      /\ \A i \in IDs : rows[i] # Nil => rows[i] \in IntentRecord /\ rows[i].ID = i
  BY <1>1, BodySees
<1>3. id \in IDs /\ state \in BlockerStates
  BY <1>1, <1>2, RequestFields DEF Kind
<1>4. CASE Fail(k, "NOT_FOUND") \/ Fail(k, "INVALID_TRANSITION")
  BY <1>1, <1>4 DEF Outcome, Failed
<1>5. CASE in # Nil /\ in.Blockers[owner] = state /\ Answered(k, "commit", in)
  <2>1. Asked(call[k], in)
    BY <1>1, <1>2, <1>3, <1>5 DEF Asked, Kind
  <2> QED
    BY <1>1, <1>3, <1>5, <2>1, FoundIsBorne
<1>6. CASE /\ in # Nil /\ owner \in BlockerOwners /\ in.Blockers[owner] # state
           /\ Stage(k, id, row)
  <2>1. Free(rows, id, row)
    BY <1>2, <1>3, <1>6, BlockedIsFree
  <2>2. Change(call[k], rows, [rows EXCEPT ![id] = row])
    BY <1>1, <1>6 DEF Change, BlockerUpdated, Kind
  <2>3. Asked(call[k], row)
    <3>1. in \in IntentRecord /\ in.ID = id /\ in.Blockers \in Blockers
      BY <1>2, <1>3, <1>6 DEF IntentRecord
    <3>2. row.Blockers[owner] = state /\ row.ID = id
      BY <3>1, <1>6 DEF IntentRecord, Blockers
    <3> HIDE DEF row
    <3> QED
      BY <1>1, <3>2 DEF Asked, Kind
  <2> HIDE DEF row
  <2> QED
    BY <1>1, <1>3, <1>6, <2>1, <2>2, <2>3, StagedIsBorne
<1>7. \A i : i \in WhereID(rows, id) => i = id /\ rows[id] # Nil
  BY DEF WhereID
<1>8. \/ Fail(k, "NOT_FOUND")
      \/ \E i \in WhereID(work.Rows, id) :
           IF owner \notin BlockerOwners THEN Fail(k, "INVALID_TRANSITION")
           ELSE IF work.Rows[i].Blockers[owner] = state THEN Answered(k, "commit", work.Rows[i])
           ELSE Stage(k, i, [work.Rows[i] EXCEPT !.Blockers[owner] = state])
  BY DEF UpdateBlocker
<1>9. CASE \E i \in WhereID(work.Rows, id) :
           IF owner \notin BlockerOwners THEN Fail(k, "INVALID_TRANSITION")
           ELSE IF work.Rows[i].Blockers[owner] = state THEN Answered(k, "commit", work.Rows[i])
           ELSE Stage(k, i, [work.Rows[i] EXCEPT !.Blockers[owner] = state])
  <2>1. /\ in # Nil
        /\ IF owner \notin BlockerOwners THEN Fail(k, "INVALID_TRANSITION")
           ELSE IF in.Blockers[owner] = state THEN Answered(k, "commit", in)
           ELSE Stage(k, id, row)
    BY <1>2, <1>7, <1>9
  <2> QED
    BY <1>4, <1>5, <1>6, <2>1, <1>1
<1> QED
  BY <1>1, <1>4, <1>8, <1>9

(***************************************************************************)
(* Every step keeps the invariant of the file and its calls.               *)
(***************************************************************************)

(* A connection a step does not touch. *)
LEMMA OthersKeep ==
  ASSUME FileInv, NEW j \in Conns,
         pc'[j] = pc[j], call'[j] = call[j], answer'[j] = answer[j], temp'[j] = temp[j],
         pc[j] \in InTransaction =>
           /\ work' = work /\ schema' = schema /\ rows' = rows
           /\ open[HandleOf[j]] => open'[HandleOf[j]],
         Evolves(rows, rows')
  PROVE  CallInv(j)' /\ AnswerInv(j)'
<1>1. CallInv(j) /\ AnswerInv(j) /\ RowsGood(rows)
  BY DEF FileInv
<1>2. CallInv(j)'
  BY <1>1 DEF CallInv, Kind, SeesTrigger
<1>3. ASSUME pc[j] = "done", answer[j].Intent # Nil
      PROVE  Asked(call[j], answer[j].Intent) /\ StandsIn(rows', answer[j].Intent)
  BY <1>1, <1>3, StandsOn DEF AnswerInv
<1>4. AnswerInv(j)'
  <2>1. pc[j] = "commit" => work' = work
    BY DEF InTransaction
  <2> QED
    BY <1>1, <1>3, <2>1 DEF AnswerInv
<1> QED
  BY <1>2, <1>4

(* A transaction that ends without a COMMIT. *)
LEMMA FailKeepsFile ==
  ASSUME TxInv, FileInv, NEW k \in Conns, pc[k] \in InTransaction, Failed(k)
  PROVE  FileInv'
<1>1. PICK code : code # "RAW" /\ Fail(k, code)
  BY DEF Failed
<1>2. /\ pc'[k] = "done" /\ \A j \in Conns : j # k => pc'[j] = pc[j]
      /\ call' = [call EXCEPT ![k] = Nil]
      /\ answer' = [answer EXCEPT ![k] = [Code |-> code, Intent |-> Nil]]
      /\ work' = NoWork /\ schema' = schema /\ rows' = rows /\ temp' = temp /\ open' = open
  BY <1>1 DEF Fail, Goto, Reply, fileVars, TxInv
<1>3. FileTyped'
  <2>1. NoWork.Rows \in Rows
    BY DEF NoWork, NoRows, Rows
  <2> QED
    BY <1>2, <2>1 DEF FileInv, FileTyped
<1>4. \A j \in Conns : j # k => CallInv(j)' /\ AnswerInv(j)'
  <2> SUFFICES ASSUME NEW j \in Conns, j # k
               PROVE  CallInv(j)' /\ AnswerInv(j)'
    OBVIOUS
  <2>1. pc[j] \notin InTransaction
    BY OneTransaction
  <2>2. call'[j] = call[j] /\ answer'[j] = answer[j]
    BY <1>2 DEF FileInv, FileTyped
  <2>3. Evolves(rows, rows')
    BY <1>2, GoodEvolves DEF FileInv
  <2> QED
    BY <1>2, <2>1, <2>2, <2>3, OthersKeep
<1>5. CallInv(k)' /\ AnswerInv(k)'
  <2>1. answer'[k].Code # "RAW" /\ answer'[k].Intent = Nil
    BY <1>1, <1>2 DEF FileInv, FileTyped
  <2> QED
    BY <1>2, <2>1 DEF CallInv, AnswerInv, InTransaction
<1> QED
  BY <1>2, <1>3, <1>4, <1>5 DEF FileInv

(* A transaction that goes on, as its own connection's invariants allow. *)
LEMMA GoesOn ==
  ASSUME TxInv, FileInv, NEW k \in Conns, pc[k] \in InTransaction,
         NEW label, Goto(k, label), work'.Rows \in Rows,
         NEW a, answer' = [answer EXCEPT ![k] = a], a.Intent \in IntentRecord \cup {Nil},
         UNCHANGED <<fileVars, lock, temp, open, call>>,
         CallInv(k)', AnswerInv(k)'
  PROVE  FileInv'
<1>1. /\ \A j \in Conns : j # k => pc'[j] = pc[j]
      /\ schema' = schema /\ rows' = rows /\ temp' = temp /\ open' = open /\ call' = call
  BY DEF Goto, fileVars, TxInv
<1>2. \A j \in Conns : j # k => answer'[j] = answer[j]
  BY DEF FileInv, FileTyped
<1>3. FileTyped'
  <2>1. answer' = [j \in Conns |-> answer'[j]] /\ answer'[k] = a
    BY DEF FileInv, FileTyped
  <2> QED
    BY <1>1, <1>2, <2>1 DEF FileInv, FileTyped
<1>4. \A j \in Conns : j # k => CallInv(j)' /\ AnswerInv(j)'
  <2> SUFFICES ASSUME NEW j \in Conns, j # k
               PROVE  CallInv(j)' /\ AnswerInv(j)'
    OBVIOUS
  <2>1. pc[j] \notin InTransaction
    BY OneTransaction
  <2>3. Evolves(rows, rows')
    BY <1>1, GoodEvolves DEF FileInv
  <2> QED
    BY <1>1, <1>2, <2>1, <2>3, OthersKeep
<1> QED
  BY <1>1, <1>3, <1>4 DEF FileInv

LEMMA OutcomeKeeps ==
  ASSUME TxInv, FileInv, NEW k \in Conns, pc[k] = "body", Kind(k) # "open", Outcome(k)
  PROVE  FileInv'
<1>1. CASE Failed(k)
  BY <1>1, FailKeepsFile DEF InTransaction
<1>2. ASSUME NEW newRows, NEW in,
             InTx(k, "commit", work.Schema, newRows), Reply(k, "OK", in), Bears(k, newRows, in)
      PROVE  FileInv'
  <2>1. /\ Goto(k, "commit") /\ UNCHANGED <<fileVars, lock, temp, open, call>>
        /\ work'.Schema = work.Schema /\ work'.Rows = newRows
    BY <1>2 DEF InTx
  <2>2. /\ answer' = [answer EXCEPT ![k] = [Code |-> "OK", Intent |-> in]]
        /\ answer'[k] = [Code |-> "OK", Intent |-> in]
    BY <1>2 DEF Reply, FileInv, FileTyped
  <2>3. pc'[k] = "commit" /\ schema' = schema /\ rows' = rows /\ open' = open /\ call' = call
    BY <2>1 DEF Goto, TxInv, fileVars
  <2>4. CallInv(k)'
    <3>1. /\ call[k] \in Requests /\ RefusedAtOnce(call[k]) = "" /\ work.Schema = schema
          /\ open[HandleOf[k]]
      BY BodySees DEF FileInv, CallInv, InTransaction
    <3>2. Change(call[k], rows, newRows)
      BY <1>2 DEF Bears
    <3> QED
      BY <2>1, <2>3, <3>1, <3>2 DEF CallInv, Kind
  <2>5. AnswerInv(k)'
    BY <1>2, <2>1, <2>2, <2>3 DEF AnswerInv, Bears
  <2>6. newRows \in Rows /\ in \in IntentRecord
    BY <1>2 DEF Bears
  <2>7. work'.Rows \in Rows
    BY <2>1, <2>6
  <2> DEFINE a == [Code |-> "OK", Intent |-> in]
  <2>8. answer' = [answer EXCEPT ![k] = a] /\ a.Intent \in IntentRecord \cup {Nil}
    BY <2>2, <2>6
  <2> HIDE DEF a
  <2> QED
    BY <2>1, <2>4, <2>5, <2>7, <2>8, GoesOn DEF InTransaction
<1> QED
  BY <1>1, <1>2 DEF Outcome

(***************************************************************************)
(* The steps of an open.                                                   *)
(***************************************************************************)
LEMMA CheckKeepsFile ==
  ASSUME TxInv, FileInv, NEW k \in Conns, VerifyNoTriggers(k)
  PROVE  FileInv'
<1>1. pc[k] = "check" /\ pc[k] \in InTransaction
  BY DEF VerifyNoTriggers, InTransaction
<1>2. CASE SeesTrigger(k)
  <2>1. Fail(k, "INTEGRITY")
    BY <1>2 DEF VerifyNoTriggers
  <2> QED
    BY <1>1, <2>1, FailKeepsFile DEF Failed
<1>3. CASE ~SeesTrigger(k)
  <2>1. Goto(k, "body") /\ UNCHANGED <<fileVars, txVars, temp, open, call, answer>>
    BY <1>3 DEF VerifyNoTriggers
  <2>2. pc'[k] = "body" /\ UNCHANGED <<schema, rows, lock, work, temp, open, call, answer>>
    BY <2>1 DEF Goto, TxInv, fileVars, txVars
  <2>3. CallInv(k) /\ AnswerInv(k) /\ FileTyped
    BY DEF FileInv
  <2>4. CallInv(k)'
    BY <1>1, <1>3, <2>2, <2>3 DEF CallInv, Kind, SeesTrigger
  <2>5. AnswerInv(k)'
    BY <1>1, <2>2, <2>3 DEF AnswerInv
  <2>6. answer' = [answer EXCEPT ![k] = answer'[k]] /\ work'.Rows \in Rows
        /\ answer'[k].Intent \in IntentRecord \cup {Nil}
    BY <2>2, <2>3 DEF FileTyped
  <2> QED
    BY <1>1, <2>1, <2>4, <2>5, <2>6, GoesOn DEF txVars
<1> QED
  BY <1>2, <1>3

(* A statement of an open leaves the rows. *)
LEMMA OpenGoesOn ==
  ASSUME TxInv, FileInv, NEW k \in Conns, pc[k] \in InTransaction \ {"commit"}, Kind(k) = "open",
         NEW label \in {"tables", "record", "commit"}, NEW newSchema,
         label = "commit" => Verified(newSchema),
         InTx(k, label, newSchema, work.Rows), UNCHANGED answer \/ Reply(k, "OK", Nil)
  PROVE  FileInv'
<1>1. /\ Goto(k, label) /\ UNCHANGED <<fileVars, lock, temp, open, call>>
      /\ work'.Schema = newSchema /\ work'.Rows = work.Rows
  BY DEF InTx
<1>2. pc'[k] = label /\ schema' = schema /\ rows' = rows /\ open' = open /\ call' = call
  BY <1>1 DEF Goto, TxInv, fileVars
<1>3. CallInv(k) /\ AnswerInv(k) /\ FileTyped
  BY DEF FileInv
<1>4. /\ answer' = [answer EXCEPT ![k] = answer'[k]]
      /\ answer'[k].Intent = Nil /\ answer'[k].Code # "RAW"
  <2>1. answer[k].Intent = Nil /\ answer[k].Code # "RAW"
    BY <1>3 DEF AnswerInv, InTransaction
  <2> QED
    BY <1>3, <2>1 DEF FileTyped, Reply
<1>5. CallInv(k)'
  BY <1>1, <1>2, <1>3 DEF CallInv, Kind, Change, InTransaction
<1>6. AnswerInv(k)'
  BY <1>4 DEF AnswerInv
<1> QED
  BY <1>1, <1>3, <1>4, <1>5, <1>6, GoesOn DEF FileTyped

LEMMA OpenKeepsFile ==
  ASSUME TxInv, FileInv, NEW k \in Conns, InitSchema(k) \/ CreateTables(k) \/ CreateRecord(k)
  PROVE  FileInv'
<1>1. CASE InitSchema(k)
  <2> DEFINE s == work.Schema
  <2>1. pc[k] = "body" /\ Kind(k) = "open" /\ s = schema /\ pc[k] \in InTransaction \ {"commit"}
    BY <1>1 DEF InitSchema, TxInv, WorkFollows, InTransaction
  <2>2. \/ Fail(k, "UNSUPPORTED_VERSION") \/ Fail(k, "INTEGRITY")
        \/ Create(k, [s EXCEPT !.Version = 0], "tables")
        \/ VerifySchemaObjects(s) /\ Answered(k, "commit", Nil)
    BY <1>1 DEF InitSchema
  <2>3. CASE Fail(k, "UNSUPPORTED_VERSION") \/ Fail(k, "INTEGRITY")
    BY <2>1, <2>3, FailKeepsFile DEF Failed
  <2>4. CASE Create(k, [s EXCEPT !.Version = 0], "tables")
    BY <2>1, <2>4, OpenGoesOn DEF Create
  <2>5. CASE VerifySchemaObjects(s) /\ Answered(k, "commit", Nil)
    <3>1. Verified(s)
      BY <2>1, <2>5 DEF VerifySchemaObjects, Verified, FileInv
    <3> QED
      BY <2>1, <2>5, <3>1, OpenGoesOn DEF Answered
  <2> QED
    BY <2>2, <2>3, <2>4, <2>5
<1>2. CASE CreateTables(k)
  <2>1. pc[k] \in InTransaction \ {"commit"} /\ Kind(k) = "open"
    BY <1>2 DEF CreateTables, FileInv, CallInv, InTransaction
  <2> QED
    BY <1>2, <2>1, OpenGoesOn DEF CreateTables, Create
<1>3. CASE CreateRecord(k)
  <2>1. pc[k] \in InTransaction \ {"commit"} /\ Kind(k) = "open"
    BY <1>3 DEF CreateRecord, FileInv, CallInv, InTransaction
  <2>2. PICK newSchema : newSchema = [work.Schema EXCEPT !.Version = 1]
    OBVIOUS
  <2>3. newSchema = SchemaV1
    <3>1. work.Schema = [SchemaV1 EXCEPT !.Version = 0]
      BY <1>3 DEF CreateRecord, TxInv, WorkFollows
    <3> QED
      BY <2>2, <3>1 DEF SchemaV1
  <2>4. InTx(k, "commit", newSchema, work.Rows) /\ Reply(k, "OK", Nil)
    BY <1>3, <2>2 DEF CreateRecord
  <2> QED
    BY <2>1, <2>3, <2>4, VersionOneVerified, OpenGoesOn
<1> QED
  BY <1>1, <1>2, <1>3

(***************************************************************************)
(* The steps outside a transaction, and its end.                           *)
(***************************************************************************)

(* What a schema check says rests on the table and its indexes. *)
LEMMA VerifiedSame ==
  ASSUME NEW s, NEW t, t.Table = s.Table, t.Indexes = s.Indexes
  PROVE  /\ Verified(s) <=> Verified(t)
         /\ MadeBySQLite(s) <=> MadeBySQLite(t)
<1>1. IndexesOn(s) = IndexesOn(t)
  BY DEF IndexesOn
<1>2. MadeBySQLite(s) <=> MadeBySQLite(t)
  BY <1>1 DEF MadeBySQLite
<1>3. VerifyExtraIndexes(s) <=> VerifyExtraIndexes(t)
  BY <1>1 DEF VerifyExtraIndexes
<1>4. VerifyRequiredIndexes(s) <=> VerifyRequiredIndexes(t)
  BY <1>1 DEF VerifyRequiredIndexes
<1> QED
  BY <1>2, <1>3, <1>4 DEF Verified

LEMMA CommitKeepsFile ==
  ASSUME TxInv, FileInv, NEW k \in Conns, Commit(k)
  PROVE  FileInv'
<1>1. pc[k] = "commit" /\ pc[k] \in InTransaction
  BY DEF Commit, InTransaction
<1>2. /\ pc'[k] = "done" /\ \A j \in Conns : j # k => pc'[j] = pc[j]
      /\ schema' = work.Schema /\ rows' = work.Rows /\ work' = NoWork
      /\ open' = [open EXCEPT ![HandleOf[k]] = @ \/ Kind(k) = "open"]
      /\ temp' = temp /\ call' = call /\ answer' = answer
  BY DEF Commit, Goto, TxInv
<1>3. /\ call[k] \in Requests /\ RefusedAtOnce(call[k]) = "" /\ HandleOf[k] \in Handles
      /\ Kind(k) # "open" => open[HandleOf[k]]
      /\ IF Kind(k) = "open" THEN Verified(work.Schema) ELSE work.Schema = schema
      /\ Change(call[k], rows, work.Rows)
  BY <1>1, SQLiteConstants DEF FileInv, CallInv
<1>4. RowsGood(rows') /\ Evolves(rows, rows')
  <2>1. RowsGood(rows)
    BY DEF FileInv
  <2> QED
    BY <1>2, <1>3, <2>1, ChangeKeepsRows
<1>5. FileTyped'
  <2>1. NoWork.Rows \in Rows
    BY DEF NoWork, NoRows, Rows
  <2>2. (Kind(k) = "open") \in BOOLEAN /\ open \in [Handles -> BOOLEAN]
    BY DEF FileInv, FileTyped
  <2>3. open' \in [Handles -> BOOLEAN]
    BY <1>2, <2>2
  <2> QED
    BY <1>2, <2>1, <2>3 DEF FileInv, FileTyped
<1>6. Verified(schema')
  BY <1>2, <1>3 DEF FileInv
<1>7. MadeBySQLite(schema') /\ \A h \in Handles : open'[h] => Verified(schema')
  BY <1>6 DEF Verified
<1>8. \A j \in Conns : j # k => CallInv(j)' /\ AnswerInv(j)'
  <2> SUFFICES ASSUME NEW j \in Conns, j # k
               PROVE  CallInv(j)' /\ AnswerInv(j)'
    OBVIOUS
  <2>1. pc[j] \notin InTransaction
    BY <1>1, OneTransaction
  <2> QED
    BY <1>2, <1>4, <2>1, OthersKeep
<1>9. CallInv(k)'
  BY <1>2 DEF CallInv, InTransaction
<1>10. AnswerInv(k)'
  <2>1. AnswerInv(k)
    BY DEF FileInv
  <2>2. ASSUME NEW in, in.ID \in IDs, in # Nil, work.Rows[in.ID] = in PROVE StandsIn(rows', in)
    BY <1>2, <2>2 DEF StandsIn, SameIntent
  <2> QED
    BY <1>1, <1>2, <2>1, <2>2 DEF AnswerInv
<1> QED
  BY <1>4, <1>5, <1>7, <1>8, <1>9, <1>10 DEF FileInv

LEMMA BeginKeepsFile ==
  ASSUME TxInv, FileInv, NEW k \in Conns, NEW r \in Requests, Begin(k, r)
  PROVE  FileInv'
<1>1. /\ pc[k] = "idle" /\ RefusedAtOnce(r) = "" /\ (r.Kind = "open" <=> ~open[HandleOf[k]])
      /\ lock = Nil /\ work'.Rows = rows /\ call' = [call EXCEPT ![k] = r]
      /\ pc'[k] = "check" /\ \A j \in Conns : j # k => pc'[j] = pc[j]
      /\ UNCHANGED <<schema, rows, temp, open, answer>>
  BY DEF Begin, Callable, Goto, fileVars, TxInv
<1>2. FileTyped /\ RowsGood(rows)
  BY DEF FileInv
<1>3. FileTyped'
  BY <1>1, <1>2 DEF FileTyped, RowsGood
<1>4. \A j \in Conns : pc[j] \notin InTransaction
  BY <1>1, SQLiteConstants DEF TxInv, LockHeldByCall
<1>5. \A j \in Conns : j # k => CallInv(j)' /\ AnswerInv(j)'
  <2> SUFFICES ASSUME NEW j \in Conns, j # k
               PROVE  CallInv(j)' /\ AnswerInv(j)'
    OBVIOUS
  <2>1. Evolves(rows, rows') /\ call'[j] = call[j]
    BY <1>1, <1>2, GoodEvolves DEF FileTyped
  <2> QED
    BY <1>1, <1>4, <2>1, OthersKeep
<1>6. CallInv(k)'
  <2>1. call'[k] = r
    BY <1>1, <1>2 DEF FileTyped
  <2> QED
    BY <1>1, <2>1 DEF CallInv, Kind
<1>7. AnswerInv(k)'
  <2>1. AnswerInv(k)
    BY DEF FileInv
  <2> QED
    BY <1>1, <2>1 DEF AnswerInv
<1> QED
  BY <1>1, <1>2, <1>3, <1>5, <1>6, <1>7 DEF FileInv

LEMMA RefuseReturnKeepFile ==
  ASSUME TxInv, FileInv, NEW k \in Conns, Return(k) \/ \E r \in Requests : Refuse(k, r)
  PROVE  FileInv'
<1>1. /\ pc[k] \notin InTransaction /\ pc'[k] \notin InTransaction
      /\ \A j \in Conns : j # k => pc'[j] = pc[j]
      /\ UNCHANGED <<schema, rows, lock, work, temp, open>>
  BY DEF Return, Refuse, Callable, Goto, fileVars, txVars, TxInv, InTransaction
<1>2. FileTyped /\ RowsGood(rows)
  BY DEF FileInv
<1>3. call' \in [Conns -> Requests \cup {Nil}] /\ \A j \in Conns : j # k => call'[j] = call[j]
  BY <1>2 DEF Return, Refuse, FileTyped
<1>4. \E c : c # "RAW" /\ answer' = [answer EXCEPT ![k] = [Code |-> c, Intent |-> Nil]]
  <2>1. CASE Return(k)
    BY <2>1 DEF Return, NoAnswer
  <2>2. ASSUME NEW r \in Requests, Refuse(k, r)
        PROVE  RefusedAtOnce(r) # "RAW" /\ Reply(k, RefusedAtOnce(r), Nil)
    BY <2>2 DEF Refuse, RefusedAtOnce
  <2> QED
    BY <2>1, <2>2 DEF Reply
<1>5. /\ answer'[k].Code # "RAW" /\ answer'[k].Intent = Nil
      /\ answer' = [j \in Conns |-> answer'[j]]
      /\ \A j \in Conns : j # k => answer'[j] = answer[j]
  BY <1>2, <1>4 DEF FileTyped
<1>6. FileTyped'
  <2>1. \A j \in Conns : answer'[j].Intent \in IntentRecord \cup {Nil}
    BY <1>2, <1>5 DEF FileTyped
  <2> QED
    BY <1>1, <1>2, <1>3, <1>5, <2>1 DEF FileTyped
<1>7. \A j \in Conns : j # k => CallInv(j)' /\ AnswerInv(j)'
  <2> SUFFICES ASSUME NEW j \in Conns, j # k
               PROVE  CallInv(j)' /\ AnswerInv(j)'
    OBVIOUS
  <2>1. Evolves(rows, rows')
    BY <1>1, <1>2, GoodEvolves
  <2> QED
    BY <1>1, <1>3, <1>5, <2>1, OthersKeep
<1>8. CallInv(k)' /\ AnswerInv(k)'
  BY <1>1, <1>5 DEF CallInv, AnswerInv, InTransaction
<1> QED
  BY <1>1, <1>2, <1>6, <1>7, <1>8 DEF FileInv

LEMMA CrashKeepsFile ==
  ASSUME TxInv, FileInv, NEW h \in Handles, Crash(h)
  PROVE  FileInv'
<1> DEFINE dead == {k \in Conns : HandleOf[k] = h}
<1>1. /\ open' = [open EXCEPT ![h] = FALSE]
      /\ pc' = [k \in Conns |-> IF k \in dead THEN "idle" ELSE pc[k]]
      /\ call' = [k \in Conns |-> IF k \in dead THEN Nil ELSE call[k]]
      /\ answer' = [k \in Conns |-> IF k \in dead THEN NoAnswer ELSE answer[k]]
      /\ temp' = [k \in Conns |-> IF k \in dead THEN "none" ELSE temp[k]]
      /\ IF lock \in dead THEN work' = NoWork ELSE work' = work
      /\ schema' = schema /\ rows' = rows
  BY DEF Crash, fileVars, txVars
<1>2. FileTyped /\ RowsGood(rows)
  BY DEF FileInv
<1>3. NoAnswer.Intent = Nil /\ NoAnswer.Code # "RAW"
  BY DEF NoAnswer
<1>4. FileTyped'
  <2>1. NoWork.Rows \in Rows
    BY DEF NoWork, NoRows, Rows
  <2>2. work'.Rows \in Rows
    BY <1>1, <1>2, <2>1 DEF FileTyped
  <2>3. answer' = [j \in Conns |-> answer'[j]] /\ \A j \in Conns : answer'[j].Intent \in IntentRecord \cup {Nil}
    BY <1>1, <1>2, <1>3 DEF FileTyped
  <2>4. open' \in [Handles -> BOOLEAN]
    BY <1>1, <1>2 DEF FileTyped
  <2> QED
    BY <1>1, <1>2, <2>2, <2>3, <2>4 DEF FileTyped
<1>5. \A g \in Handles : open'[g] => open[g]
  BY <1>1, <1>2 DEF FileTyped
<1>6. ASSUME NEW j \in Conns, j \in dead PROVE CallInv(j)' /\ AnswerInv(j)'
  BY <1>1, <1>3, <1>6 DEF CallInv, AnswerInv, InTransaction
<1>7. ASSUME NEW j \in Conns, j \notin dead PROVE CallInv(j)' /\ AnswerInv(j)'
  <2>1. pc'[j] = pc[j] /\ call'[j] = call[j] /\ answer'[j] = answer[j] /\ temp'[j] = temp[j]
    BY <1>1, <1>7
  <2>2. Evolves(rows, rows')
    BY <1>1, <1>2, GoodEvolves
  <2>3. pc[j] \in InTransaction => work' = work
    BY <1>1, <1>7, OneTransaction
  <2>4. open[HandleOf[j]] => open'[HandleOf[j]]
    BY <1>1, <1>2, <1>7, SQLiteConstants DEF FileTyped
  <2> QED
    BY <1>1, <2>1, <2>2, <2>3, <2>4, OthersKeep
<1> QED
  BY <1>1, <1>2, <1>4, <1>5, <1>6, <1>7 DEF FileInv

(* Other code changes nothing a call in its transaction has seen. *)
LEMMA ForeignKeepsFile ==
  ASSUME TxInv, FileInv,
         MainTrigger \/ \E k \in Conns, what \in {"trigger", "table"} : TempObject(k, what)
  PROVE  FileInv'
<1>1. CASE MainTrigger
  <2>1. /\ lock = Nil /\ schema' = [schema EXCEPT !.Trigger = ~@]
        /\ UNCHANGED <<rows, work, temp, open, pc, call, answer>>
    BY <1>1 DEF MainTrigger, txVars, connVars
  <2>2. schema'.Table = schema.Table /\ schema'.Indexes = schema.Indexes
    BY <2>1
  <2>3. MadeBySQLite(schema') /\ \A h \in Handles : open'[h] => Verified(schema')
    BY <2>1, <2>2, VerifiedSame DEF FileInv
  <2>4. \A j \in Conns : pc[j] \notin InTransaction
    BY <2>1, SQLiteConstants DEF TxInv, LockHeldByCall
  <2>5. Evolves(rows, rows')
    BY <2>1, GoodEvolves DEF FileInv
  <2>6. \A j \in Conns : CallInv(j)' /\ AnswerInv(j)'
    BY <2>1, <2>4, <2>5, OthersKeep
  <2> QED
    BY <2>1, <2>3, <2>6 DEF FileInv, FileTyped
<1>2. ASSUME NEW k \in Conns, NEW what \in {"trigger", "table"}, TempObject(k, what)
      PROVE  FileInv'
  <2>1. /\ pc[k] = "idle" /\ temp' = [temp EXCEPT ![k] = what]
        /\ UNCHANGED <<schema, rows, work, open, pc, call, answer>>
    BY <1>2 DEF TempObject, fileVars, txVars, connVars
  <2>2. FileTyped /\ RowsGood(rows) /\ CallInv(k) /\ AnswerInv(k)
    BY DEF FileInv
  <2>3. FileTyped' /\ \A j \in Conns : j # k => temp'[j] = temp[j]
    BY <2>1, <2>2 DEF FileTyped
  <2>4. Evolves(rows, rows')
    BY <2>1, <2>2, GoodEvolves
  <2>5. \A j \in Conns : j # k => CallInv(j)' /\ AnswerInv(j)'
    BY <2>1, <2>3, <2>4, OthersKeep
  <2>6. CallInv(k)' /\ AnswerInv(k)'
    BY <2>1, <2>2 DEF CallInv, AnswerInv, InTransaction
  <2> QED
    BY <2>1, <2>2, <2>3, <2>5, <2>6 DEF FileInv
<1> QED
  BY <1>1, <1>2

LEMMA FileStart == Init => FileInv
<1> SUFFICES ASSUME Init PROVE FileInv
  OBVIOUS
<1>1. NoRows \in Rows /\ RowsGood(NoRows)
  BY DEF NoRows, Rows, RowsGood
<1>2. FileTyped
  BY <1>1 DEF Init, FileTyped, NoWork, NoAnswer
<1>3. MadeBySQLite(schema)
  BY SchemasOfTheStore DEF Init
<1>4. \A k \in Conns : CallInv(k) /\ AnswerInv(k)
  BY DEF Init, CallInv, AnswerInv, InTransaction, NoAnswer
<1> QED
  BY <1>1, <1>2, <1>3, <1>4 DEF Init, FileInv

LEMMA FileStutter == ASSUME FileInv, UNCHANGED vars PROVE FileInv'
BY DEF FileInv, FileTyped, CallInv, AnswerInv, Kind, SeesTrigger, vars, fileVars, txVars, connVars

LEMMA StepKeepsFileInv == ASSUME TxInv, FileInv, [Next]_vars PROVE FileInv'
<1>1. ASSUME NEW k \in Conns, NEW r \in Requests, Begin(k, r) PROVE FileInv'
  BY <1>1, BeginKeepsFile
<1>2. ASSUME NEW k \in Conns, Return(k) \/ \E r \in Requests : Refuse(k, r) PROVE FileInv'
  BY <1>2, RefuseReturnKeepFile
<1>3. ASSUME NEW k \in Conns, Abort(k) PROVE FileInv'
  BY <1>3, FailKeepsFile DEF Abort, Failed
<1>4. ASSUME NEW k \in Conns, VerifyNoTriggers(k) PROVE FileInv'
  BY <1>4, CheckKeepsFile
<1>5. ASSUME NEW k \in Conns, InitSchema(k) \/ CreateTables(k) \/ CreateRecord(k) PROVE FileInv'
  BY <1>5, OpenKeepsFile
<1>6. ASSUME NEW k \in Conns,
             CreateAutomatic(k) \/ CreateExplicit(k) \/ AttachRunID(k) \/ UpdateBlocker(k)
      PROVE  FileInv'
  <2>1. pc[k] = "body" /\ Kind(k) # "open" /\ Outcome(k)
    BY <1>6, AutomaticOutcome, ExplicitOutcome, AttachOutcome, BlockerOutcome
  <2> QED
    BY <2>1, OutcomeKeeps
<1>7. ASSUME NEW k \in Conns, Commit(k) PROVE FileInv'
  BY <1>7, CommitKeepsFile
<1>8. ASSUME NEW h \in Handles, Crash(h) PROVE FileInv'
  BY <1>8, CrashKeepsFile
<1>9. CASE MainTrigger \/ \E k \in Conns, what \in {"trigger", "table"} : TempObject(k, what)
  BY <1>9, ForeignKeepsFile
<1>10. CASE UNCHANGED vars
  BY <1>10, FileStutter
<1> QED
  BY <1>1, <1>2, <1>3, <1>4, <1>5, <1>6, <1>7, <1>8, <1>9, <1>10 DEF Next

LEMMA FileInvariant == Spec => [](TxInv /\ FileInv)
<1>1. TxInv /\ FileInv /\ [Next]_vars => (TxInv /\ FileInv)'
  BY StepKeepsTxInv, StepKeepsFileInv
<1> QED
  BY <1>1, TxStart, FileStart, PTL DEF Spec

(***************************************************************************)
(* The indexes of IntentStore, read off the rows.                          *)
(***************************************************************************)
OfDomain(r, id, k) ==
  r[id] # Nil /\ r[id].Origin = "AUTOMATIC" /\ <<r[id].PolicyID, r[id].Subject>> = k
OfOperation(r, id, o) ==
  r[id] # Nil /\ r[id].Origin = "EXPLICIT" /\ r[id].OperationID = o
OfRun(r, id, run) == r[id] # Nil /\ r[id].RunID = run

DomainIn(r, k) ==
  IF \E id \in IDs : OfDomain(r, id, k) THEN CHOOSE id \in IDs : OfDomain(r, id, k) ELSE Nil
OperationIn(r, o) ==
  IF \E id \in IDs : OfOperation(r, id, o) THEN CHOOSE id \in IDs : OfOperation(r, id, o) ELSE Nil
RunIn(r, run) ==
  IF \E id \in IDs : OfRun(r, id, run) THEN CHOOSE id \in IDs : OfRun(r, id, run) ELSE Nil

LEMMA IndexesAreOfRows ==
  /\ \A k : RowOfDomain(k) = DomainIn(rows, k)
  /\ \A o : RowOfOperation(o) = OperationIn(rows, o)
  /\ \A run : RowOfRun(run) = RunIn(rows, run)
BY DEF RowOfDomain, RowOfOperation, RowOfRun, TheOneWith, DomainIn, OperationIn, RunIn,
       OfDomain, OfOperation, OfRun

LEMMA IndexesAreOfRowsNext ==
  /\ \A k : RowOfDomain(k)' = DomainIn(rows', k)
  /\ \A o : RowOfOperation(o)' = OperationIn(rows', o)
  /\ \A run : RowOfRun(run)' = RunIn(rows', run)
BY DEF RowOfDomain, RowOfOperation, RowOfRun, TheOneWith, DomainIn, OperationIn, RunIn,
       OfDomain, OfOperation, OfRun

(* An identity names the one row that has it. *)
LEMMA IndexesName ==
  ASSUME NEW r, RowsGood(r)
  PROVE  /\ \A k : /\ DomainIn(r, k) \in IDs \cup {Nil}
                   /\ \A id \in IDs : DomainIn(r, k) = id <=> OfDomain(r, id, k)
         /\ \A o : /\ OperationIn(r, o) \in IDs \cup {Nil}
                   /\ \A id \in IDs : OperationIn(r, o) = id <=> OfOperation(r, id, o)
         /\ \A run \in RunIDs :
              /\ RunIn(r, run) \in IDs \cup {Nil}
              /\ \A id \in IDs : RunIn(r, run) = id <=> OfRun(r, id, run)
<1>0. Nil \notin IDs /\ Nil \notin RunIDs
  BY NilIsFresh
<1>1. ASSUME NEW id \in IDs, NEW other \in IDs, NEW k, OfDomain(r, id, k), OfDomain(r, other, k)
      PROVE  id = other
  BY <1>1 DEF OfDomain, RowsGood, Free, Clash
<1>2. ASSUME NEW id \in IDs, NEW other \in IDs, NEW o, OfOperation(r, id, o), OfOperation(r, other, o)
      PROVE  id = other
  BY <1>2 DEF OfOperation, RowsGood, Free, Clash
<1>3. ASSUME NEW id \in IDs, NEW other \in IDs, NEW run \in RunIDs, OfRun(r, id, run), OfRun(r, other, run)
      PROVE  id = other
  BY <1>0, <1>3 DEF OfRun, RowsGood, Free, Clash
<1>4. ASSUME NEW k
      PROVE  /\ DomainIn(r, k) \in IDs \cup {Nil}
             /\ \A id \in IDs : DomainIn(r, k) = id <=> OfDomain(r, id, k)
  BY <1>0, <1>1 DEF DomainIn
<1>5. ASSUME NEW o
      PROVE  /\ OperationIn(r, o) \in IDs \cup {Nil}
             /\ \A id \in IDs : OperationIn(r, o) = id <=> OfOperation(r, id, o)
  BY <1>0, <1>2 DEF OperationIn
<1>6. ASSUME NEW run \in RunIDs
      PROVE  /\ RunIn(r, run) \in IDs \cup {Nil}
             /\ \A id \in IDs : RunIn(r, run) = id <=> OfRun(r, id, run)
  BY <1>0, <1>3 DEF RunIn
<1> QED
  BY <1>4, <1>5, <1>6

(* An index changes only where the rows of an identity do. *)
LEMMA IndexesStay ==
  ASSUME NEW r, NEW after, RowsGood(r), RowsGood(after)
  PROVE  /\ \A k : (\A id \in IDs : OfDomain(r, id, k) <=> OfDomain(after, id, k))
                     => DomainIn(after, k) = DomainIn(r, k)
         /\ \A o : (\A id \in IDs : OfOperation(r, id, o) <=> OfOperation(after, id, o))
                     => OperationIn(after, o) = OperationIn(r, o)
         /\ \A run \in RunIDs : (\A id \in IDs : OfRun(r, id, run) <=> OfRun(after, id, run))
                                  => RunIn(after, run) = RunIn(r, run)
BY IndexesName, NilIsFresh

(***************************************************************************)
(* The refinement.                                                         *)
(***************************************************************************)
LEMMA SameRowsStutter ==
  ASSUME rows' = rows
  PROVE  UNCHANGED Store!storeVars
<1>1. \A k : RowOfDomain(k)' = RowOfDomain(k)
  BY IndexesAreOfRows, IndexesAreOfRowsNext
<1>2. \A o : RowOfOperation(o)' = RowOfOperation(o)
  BY IndexesAreOfRows, IndexesAreOfRowsNext
<1>3. \A run : RowOfRun(run)' = RowOfRun(run)
  BY IndexesAreOfRows, IndexesAreOfRowsNext
<1> QED
  BY <1>1, <1>2, <1>3 DEF Store!storeVars

(* An index of the store, as the refinement reads it off the rows. *)
autoOfRows == [k \in Policies \X Subjects |-> RowOfDomain(k)]
opsOfRows == [o \in OperationIDs |-> RowOfOperation(o)]
runsOfRows == [r \in RunIDs |-> RowOfRun(r)]

LEMMA StaysOfRows ==
  ASSUME RowsGood(rows), RowsGood(rows')
  PROVE  /\ (\A id \in IDs, k \in Policies \X Subjects : OfDomain(rows, id, k) <=> OfDomain(rows', id, k))
              => autoOfRows' = autoOfRows
         /\ (\A id \in IDs, o \in OperationIDs : OfOperation(rows, id, o) <=> OfOperation(rows', id, o))
              => opsOfRows' = opsOfRows
         /\ (\A id \in IDs, run \in RunIDs : OfRun(rows, id, run) <=> OfRun(rows', id, run))
              => runsOfRows' = runsOfRows
<1>1. ASSUME \A id \in IDs, k \in Policies \X Subjects : OfDomain(rows, id, k) <=> OfDomain(rows', id, k)
      PROVE  autoOfRows' = autoOfRows
  <2>1. \A k \in Policies \X Subjects : RowOfDomain(k)' = RowOfDomain(k)
    BY <1>1, IndexesStay, IndexesAreOfRows, IndexesAreOfRowsNext
  <2> QED
    BY <2>1 DEF autoOfRows
<1>2. ASSUME \A id \in IDs, o \in OperationIDs : OfOperation(rows, id, o) <=> OfOperation(rows', id, o)
      PROVE  opsOfRows' = opsOfRows
  <2>1. \A o \in OperationIDs : RowOfOperation(o)' = RowOfOperation(o)
    BY <1>2, IndexesStay, IndexesAreOfRows, IndexesAreOfRowsNext
  <2> QED
    BY <2>1 DEF opsOfRows
<1>3. ASSUME \A id \in IDs, run \in RunIDs : OfRun(rows, id, run) <=> OfRun(rows', id, run)
      PROVE  runsOfRows' = runsOfRows
  <2>1. \A run \in RunIDs : RowOfRun(run)' = RowOfRun(run)
    BY <1>3, IndexesStay, IndexesAreOfRows, IndexesAreOfRowsNext
  <2> QED
    BY <2>1 DEF runsOfRows
<1> QED
  BY <1>1, <1>2, <1>3

LEMMA RowsOf ==
  ASSUME RowsGood(rows)
  PROVE  \A id \in IDs : rows[id] # Nil =>
           rows[id] \in IntentRecord /\ rows[id].ID = id
BY DEF RowsGood, Free

LEMMA StoreOffersDraft ==
  ASSUME NEW p \in Policies, NEW prev \in PolicyRevisions, NEW s \in Subjects,
         NEW rev \in PipelineRevisions
  PROVE  LET d == AutomaticDraft(p, prev, s, rev, 0) IN
         d \in Store!AutomaticDrafts /\ d.AdmissionEpoch = 0 /\ d.PolicyID = p /\ d.Subject = s
<1> DEFINE d == AutomaticDraft(p, prev, s, rev, 0)
<1>1. Store!AutomaticDraft(p, prev, s, rev, 0) = d
  BY DEF Store!AutomaticDraft, Store!NoBlockers, AutomaticDraft, NoBlockers
<1>2. 0 \in 0..0
  OBVIOUS
<1>3. Store!AutomaticDraft(p, prev, s, rev, 0) \in Store!AutomaticDrafts
  BY <1>2 DEF Store!AutomaticDrafts
<1>4. d.AdmissionEpoch = 0 /\ d.PolicyID = p /\ d.Subject = s
  BY DEF AutomaticDraft
<1> QED
  BY <1>1, <1>3, <1>4

(* The COMMIT of an automatic draft is the store's createAutomatic. *)
LEMMA AutomaticImplements ==
  ASSUME RowsGood(rows), RowsGood(rows'), NEW id \in IDs,
         NEW p \in Policies, NEW prev \in PolicyRevisions, NEW s \in Subjects,
         NEW rev \in PipelineRevisions, NEW draft, draft = AutomaticDraft(p, prev, s, rev, 0),
         draft \in IntentRecord, draft.RunID = Nil, draft.Origin = "AUTOMATIC",
         rows[id] = Nil, NoneLike(rows, draft),
         rows' = [rows EXCEPT ![id] = [draft EXCEPT !.ID = id]]
  PROVE  Store!StoreNext
<1> DEFINE row == [draft EXCEPT !.ID = id]
           key == <<draft.PolicyID, draft.Subject>>
<1>2. draft \in Store!AutomaticDrafts /\ draft.AdmissionEpoch = 0 /\ draft.PolicyID = p /\ draft.Subject = s
  BY StoreOffersDraft
<1>3. /\ draft \in IntentRecord /\ draft.RunID = Nil /\ draft.Origin = "AUTOMATIC"
  OBVIOUS
<1>4. /\ row.Origin = "AUTOMATIC" /\ row.PolicyID = p /\ row.Subject = s /\ row.RunID = Nil
      /\ row \in IntentRecord /\ row # Nil
  BY <1>2, <1>3, NilIsFresh DEF IntentRecord
<1>5. rows[id] = Nil /\ NoneLike(rows, draft) /\ rows' = [rows EXCEPT ![id] = row]
  OBVIOUS
<1> HIDE DEF row
<1>6. rows'[id] = row /\ \A i \in IDs : i # id => rows'[i] = rows[i]
  BY <1>5 DEF RowsGood, Rows
<1>7. key \in Policies \X Subjects /\ key = <<p, s>>
  BY <1>2
<1>8. RowOfDomain(key) = Nil
  <2>1. \A i \in IDs : ~OfDomain(rows, i, key)
    BY <1>3, <1>5, <1>7 DEF NoneLike, OfDomain
  <2> QED
    BY <2>1, IndexesAreOfRows DEF DomainIn
<1>9. autoOfRows' = [autoOfRows EXCEPT ![key] = id]
  <2>1. RowOfDomain(key)' = id
    <3>1. OfDomain(rows', id, key)
      BY <1>2, <1>4, <1>6 DEF OfDomain
    <3> QED
      BY <3>1, IndexesAreOfRowsNext, IndexesName
  <2>2. ASSUME NEW k \in Policies \X Subjects, k # key PROVE RowOfDomain(k)' = RowOfDomain(k)
    <3>1. \A i \in IDs : OfDomain(rows, i, k) <=> OfDomain(rows', i, k)
      BY <2>2, <1>2, <1>4, <1>5, <1>6 DEF OfDomain
    <3> QED
      BY <3>1, IndexesAreOfRows, IndexesAreOfRowsNext, IndexesStay
  <2> QED
    BY <2>1, <2>2, <1>7 DEF autoOfRows
<1>10. opsOfRows' = opsOfRows
  <2>1. \A i \in IDs, o \in OperationIDs : OfOperation(rows, i, o) <=> OfOperation(rows', i, o)
    BY <1>4, <1>5, <1>6 DEF OfOperation
  <2> QED
    BY <2>1, StaysOfRows
<1>11. runsOfRows' = runsOfRows
  <2>1. \A run \in RunIDs : ~OfRun(rows, id, run) /\ ~OfRun(rows', id, run)
    BY <1>4, <1>5, <1>6, NilIsFresh DEF OfRun
  <2>2. \A i \in IDs, run \in RunIDs : OfRun(rows, i, run) <=> OfRun(rows', i, run)
    BY <2>1, <1>6 DEF OfRun
  <2> QED
    BY <2>2, StaysOfRows
<1>12. Store!CreateAutomatic(draft, id)
  <2>1. Store!AutoKey(draft) = key
    BY DEF Store!AutoKey
  <2>2. autoOfRows[key] = Nil
    BY <1>7, <1>8 DEF autoOfRows
  <2>3. ~Store!Exists(id)
    BY <1>5 DEF Store!Exists
  <2> QED
    BY <2>1, <2>2, <2>3, <1>5, <1>9, <1>10, <1>11
       DEF Store!CreateAutomatic, Store!policyVars, autoOfRows, opsOfRows, runsOfRows, row
<1> QED
  BY <1>2, <1>12 DEF Store!StoreNext

LEMMA ExplicitImplements ==
  ASSUME RowsGood(rows), RowsGood(rows'), NEW q \in Requests, RefusedAtOnce(q) = "",
         q.Kind = "createExplicit", NEW id \in IDs, Created(q, id, rows, rows')
  PROVE  Store!StoreNext
<1> DEFINE draft == q.Draft
           row == [draft EXCEPT !.ID = id]
           o == draft.OperationID
<1>1. /\ draft \in IntentRecord /\ draft.RunID = Nil /\ CheckExplicitDraft(draft)
  BY RequestDrafts
<1>2. draft.Origin = "EXPLICIT" /\ o \in OperationIDs
  BY <1>1 DEF CheckExplicitDraft, IntentRecord
<1>3. draft \in DraftsOf("createExplicit")
  BY DEF DraftsOf
<1>4. /\ row.Origin = "EXPLICIT" /\ row.OperationID = o /\ row.RunID = Nil
      /\ row \in IntentRecord /\ row # Nil
  BY <1>1, <1>2, NilIsFresh DEF IntentRecord
<1>5. rows[id] = Nil /\ NoneLike(rows, draft) /\ rows' = [rows EXCEPT ![id] = row]
  BY DEF Created
<1> HIDE DEF row, draft
<1>6. rows'[id] = row /\ \A i \in IDs : i # id => rows'[i] = rows[i]
  BY <1>5 DEF RowsGood, Rows
<1>8. RowOfOperation(o) = Nil
  <2>1. \A i \in IDs : ~OfOperation(rows, i, o)
    BY <1>2, <1>5 DEF NoneLike, OfOperation
  <2> QED
    BY <2>1, IndexesAreOfRows DEF OperationIn
<1>9. opsOfRows' = [opsOfRows EXCEPT ![o] = id]
  <2>1. RowOfOperation(o)' = id
    <3>1. OfOperation(rows', id, o)
      BY <1>4, <1>6 DEF OfOperation
    <3> QED
      BY <3>1, IndexesAreOfRowsNext, IndexesName
  <2>2. ASSUME NEW n \in OperationIDs, n # o PROVE RowOfOperation(n)' = RowOfOperation(n)
    <3>1. \A i \in IDs : OfOperation(rows, i, n) <=> OfOperation(rows', i, n)
      BY <2>2, <1>4, <1>5, <1>6 DEF OfOperation
    <3> QED
      BY <3>1, IndexesAreOfRows, IndexesAreOfRowsNext, IndexesStay
  <2> QED
    BY <2>1, <2>2, <1>2 DEF opsOfRows
<1>10. autoOfRows' = autoOfRows
  <2>1. \A i \in IDs, k \in Policies \X Subjects : OfDomain(rows, i, k) <=> OfDomain(rows', i, k)
    BY <1>4, <1>5, <1>6 DEF OfDomain
  <2> QED
    BY <2>1, StaysOfRows
<1>11. runsOfRows' = runsOfRows
  <2>1. \A run \in RunIDs : ~OfRun(rows, id, run) /\ ~OfRun(rows', id, run)
    BY <1>4, <1>5, <1>6, NilIsFresh DEF OfRun
  <2>2. \A i \in IDs, run \in RunIDs : OfRun(rows, i, run) <=> OfRun(rows', i, run)
    BY <2>1, <1>6 DEF OfRun
  <2> QED
    BY <2>2, StaysOfRows
<1>12. Store!CreateExplicit(draft, id)
  <2>1. Store!CheckExplicitDraft(draft)
    BY <1>1 DEF CheckExplicitDraft, Store!CheckExplicitDraft
  <2>2. opsOfRows[o] = Nil
    BY <1>2, <1>8 DEF opsOfRows
  <2>3. ~Store!Exists(id)
    BY <1>5 DEF Store!Exists
  <2> QED
    BY <2>1, <2>2, <2>3, <1>5, <1>9, <1>10, <1>11
       DEF Store!CreateExplicit, Store!policyVars, autoOfRows, opsOfRows, runsOfRows, row
<1> QED
  BY <1>3, <1>12 DEF Store!StoreNext

LEMMA AttachImplements ==
  ASSUME RowsGood(rows), RowsGood(rows'), NEW q \in Requests, RunAttached(q, rows, rows')
  PROVE  Store!StoreNext
<1> DEFINE id == q.ID
           run == q.Run
           row == [rows[id] EXCEPT !.RunID = run]
<1>1. id \in IDs /\ run \in RunIDs
  BY RequestFields DEF RunAttached
<1>2. /\ rows[id] # Nil /\ rows[id].RunID = Nil
      /\ \A i \in IDs : rows[i] # Nil => rows[i].RunID # run
      /\ rows' = [rows EXCEPT ![id] = row]
  BY DEF RunAttached
<1>3. rows[id] \in IntentRecord
  BY <1>1, <1>2, RowsOf
<1>4. /\ row.Origin = rows[id].Origin /\ row.PolicyID = rows[id].PolicyID
      /\ row.Subject = rows[id].Subject /\ row.OperationID = rows[id].OperationID
      /\ row.RunID = run /\ row \in IntentRecord /\ row # Nil
  BY <1>1, <1>3, NilIsFresh DEF IntentRecord
<1>5. rows' = [rows EXCEPT ![id].RunID = run]
  BY <1>2
<1> HIDE DEF row, id, run
<1>6. rows'[id] = row /\ \A i \in IDs : i # id => rows'[i] = rows[i]
  BY <1>1, <1>2 DEF RowsGood, Rows
<1>8. RowOfRun(run) = Nil
  <2>1. \A i \in IDs : ~OfRun(rows, i, run)
    BY <1>2 DEF OfRun
  <2> QED
    BY <2>1, IndexesAreOfRows DEF RunIn
<1>9. runsOfRows' = [runsOfRows EXCEPT ![run] = id]
  <2>1. RowOfRun(run)' = id
    <3>1. OfRun(rows', id, run)
      BY <1>4, <1>6 DEF OfRun
    <3> QED
      BY <1>1, <3>1, IndexesAreOfRowsNext, IndexesName
  <2>2. ASSUME NEW n \in RunIDs, n # run PROVE RowOfRun(n)' = RowOfRun(n)
    <3>1. \A i \in IDs : OfRun(rows, i, n) <=> OfRun(rows', i, n)
      BY <2>2, <1>2, <1>4, <1>6, NilIsFresh DEF OfRun
    <3> QED
      BY <3>1, IndexesAreOfRows, IndexesAreOfRowsNext, IndexesStay
  <2> QED
    BY <1>1, <2>1, <2>2 DEF runsOfRows
<1>10. autoOfRows' = autoOfRows
  <2>1. \A i \in IDs, k \in Policies \X Subjects : OfDomain(rows, i, k) <=> OfDomain(rows', i, k)
    BY <1>2, <1>4, <1>6 DEF OfDomain
  <2> QED
    BY <2>1, StaysOfRows
<1>11. opsOfRows' = opsOfRows
  <2>1. \A i \in IDs, o \in OperationIDs : OfOperation(rows, i, o) <=> OfOperation(rows', i, o)
    BY <1>2, <1>4, <1>6 DEF OfOperation
  <2> QED
    BY <2>1, StaysOfRows
<1>12. Store!AttachRunID(id, run)
  <2>1. runsOfRows[run] = Nil
    BY <1>1, <1>8 DEF runsOfRows
  <2>2. Store!Exists(id)
    BY <1>1, <1>2, NilIsFresh DEF Store!Exists
  <2> QED
    BY <2>1, <2>2, <1>2, <1>5, <1>9, <1>10, <1>11
       DEF Store!AttachRunID, Store!policyVars, autoOfRows, opsOfRows, runsOfRows
<1> QED
  BY <1>1, <1>12 DEF Store!StoreNext

LEMMA BlockerImplements ==
  ASSUME RowsGood(rows), RowsGood(rows'), NEW q \in Requests, BlockerUpdated(q, rows, rows')
  PROVE  Store!StoreNext
<1> DEFINE id == q.ID
           owner == q.Owner
           state == q.State
           row == [rows[id] EXCEPT !.Blockers[owner] = state]
<1>1. id \in IDs /\ state \in BlockerStates /\ owner \in BlockerOwners
  BY RequestFields DEF BlockerUpdated
<1>2. /\ rows[id] # Nil /\ rows[id].Blockers[owner] # state
      /\ rows' = [rows EXCEPT ![id] = row]
  BY DEF BlockerUpdated
<1>3. rows[id] \in IntentRecord /\ [rows[id].Blockers EXCEPT ![owner] = state] \in Blockers
  BY <1>1, <1>2, RowsOf DEF IntentRecord, Blockers
<1>4. /\ row.Origin = rows[id].Origin /\ row.PolicyID = rows[id].PolicyID
      /\ row.Subject = rows[id].Subject /\ row.OperationID = rows[id].OperationID
      /\ row.RunID = rows[id].RunID /\ row \in IntentRecord /\ row # Nil
  BY <1>3, NilIsFresh DEF IntentRecord
<1>5. rows' = [rows EXCEPT ![id].Blockers[owner] = state]
  BY <1>2
<1> HIDE DEF row, id, owner, state
<1>6. rows'[id] = row /\ \A i \in IDs : i # id => rows'[i] = rows[i]
  BY <1>1, <1>2 DEF RowsGood, Rows
<1>9. autoOfRows' = autoOfRows
  <2>1. \A i \in IDs, k \in Policies \X Subjects : OfDomain(rows, i, k) <=> OfDomain(rows', i, k)
    BY <1>2, <1>4, <1>6 DEF OfDomain
  <2> QED
    BY <2>1, StaysOfRows
<1>10. opsOfRows' = opsOfRows
  <2>1. \A i \in IDs, o \in OperationIDs : OfOperation(rows, i, o) <=> OfOperation(rows', i, o)
    BY <1>2, <1>4, <1>6 DEF OfOperation
  <2> QED
    BY <2>1, StaysOfRows
<1>11. runsOfRows' = runsOfRows
  <2>1. \A i \in IDs, run \in RunIDs : OfRun(rows, i, run) <=> OfRun(rows', i, run)
    BY <1>2, <1>4, <1>6 DEF OfRun
  <2> QED
    BY <2>1, StaysOfRows
<1>12. Store!UpdateBlocker(id, owner, state)
  <2>1. Store!Exists(id)
    BY <1>1, <1>2, NilIsFresh DEF Store!Exists
  <2> QED
    BY <2>1, <1>2, <1>5, <1>9, <1>10, <1>11
       DEF Store!UpdateBlocker, Store!policyVars, Store!indexVars, autoOfRows, opsOfRows, runsOfRows
<1> QED
  BY <1>1, <1>12 DEF Store!StoreNext, Store!BlockerStates, BlockerStates

LEMMA CommitImplements ==
  ASSUME FileInv, RowsGood(rows'), NEW k \in Conns, Commit(k)
  PROVE  [Store!StoreNext]_(Store!storeVars)
<1>1. /\ call[k] \in Requests /\ RefusedAtOnce(call[k]) = "" /\ RowsGood(rows)
      /\ rows' = work.Rows /\ Change(call[k], rows, work.Rows)
  BY DEF Commit, FileInv, CallInv, InTransaction
<1>2. CASE rows' = rows
  BY <1>2, SameRowsStutter
<1>3. CASE \E id \in IDs : Created(call[k], id, rows, rows')
  <2>1. PICK id \in IDs : Created(call[k], id, rows, rows')
    BY <1>3
  <2>2. call[k].Kind \in {"createAutomatic", "createExplicit"}
    BY <2>1 DEF Created
  <2>3. CASE call[k].Kind = "createAutomatic"
    <3> DEFINE draft == call[k].Draft
    <3>1. PICK p \in Policies, prev \in PolicyRevisions, s \in Subjects, rev \in PipelineRevisions :
            draft = AutomaticDraft(p, prev, s, rev, 0)
      BY <1>1, <2>3, RequestFields
    <3>2. draft \in IntentRecord /\ draft.RunID = Nil /\ draft.Origin = "AUTOMATIC"
      BY <1>1, <2>3, RequestDrafts
    <3>3. /\ rows[id] = Nil /\ NoneLike(rows, draft)
          /\ rows' = [rows EXCEPT ![id] = [draft EXCEPT !.ID = id]]
      BY <2>1 DEF Created
    <3> HIDE DEF draft
    <3> QED
      BY <1>1, <3>1, <3>2, <3>3, AutomaticImplements
  <2>4. CASE call[k].Kind = "createExplicit"
    BY <1>1, <2>1, <2>4, ExplicitImplements
  <2> QED
    BY <2>2, <2>3, <2>4
<1>4. CASE RunAttached(call[k], rows, rows')
  BY <1>1, <1>4, AttachImplements
<1>5. CASE BlockerUpdated(call[k], rows, rows')
  BY <1>1, <1>5, BlockerImplements
<1> QED
  BY <1>1, <1>2, <1>3, <1>4, <1>5 DEF Change

(* Only a COMMIT writes rows. *)
LEMMA RowsStayBut ==
  ASSUME [Next]_vars, \A k \in Conns : ~Commit(k)
  PROVE  rows' = rows
<1>1. ASSUME NEW k \in Conns, NEW code, Fail(k, code) PROVE rows' = rows
  BY <1>1 DEF Fail, fileVars
<1>2. ASSUME NEW k \in Conns, NEW label, NEW s, NEW r, InTx(k, label, s, r) PROVE rows' = rows
  BY <1>2 DEF InTx, fileVars
<1>3. ASSUME NEW k \in Conns, NEW r \in Requests, Begin(k, r) \/ Refuse(k, r) PROVE rows' = rows
  BY <1>3 DEF Begin, Refuse, fileVars
<1>4. ASSUME NEW k \in Conns, Abort(k) \/ VerifyNoTriggers(k) \/ Return(k) PROVE rows' = rows
  BY <1>1, <1>4 DEF Abort, VerifyNoTriggers, Return, fileVars
<1>5. ASSUME NEW k \in Conns, InitSchema(k) \/ CreateTables(k) \/ CreateRecord(k) PROVE rows' = rows
  BY <1>1, <1>2, <1>5 DEF InitSchema, CreateTables, CreateRecord, Create, Answered
<1>6. ASSUME NEW k \in Conns,
             CreateAutomatic(k) \/ CreateExplicit(k) \/ AttachRunID(k) \/ UpdateBlocker(k)
      PROVE  rows' = rows
  BY <1>1, <1>2, <1>6, WritesStage DEF Staged
<1>7. ASSUME NEW h \in Handles, Crash(h) PROVE rows' = rows
  BY <1>7 DEF Crash, fileVars
<1>8. CASE MainTrigger \/ \E k \in Conns, what \in {"trigger", "table"} : TempObject(k, what)
  BY <1>8 DEF MainTrigger, TempObject, fileVars
<1>9. CASE UNCHANGED vars
  BY <1>9 DEF vars, fileVars
<1> QED
  BY <1>3, <1>4, <1>5, <1>6, <1>7, <1>8, <1>9 DEF Next

LEMMA StepImplements ==
  ASSUME FileInv, FileInv', [Next]_vars
  PROVE  [Store!StoreNext]_(Store!storeVars)
<1>1. CASE \E k \in Conns : Commit(k)
  BY <1>1, CommitImplements DEF FileInv
<1>2. CASE \A k \in Conns : ~Commit(k)
  BY <1>2, RowsStayBut, SameRowsStutter
<1> QED
  BY <1>1, <1>2

LEMMA StartImplements == Init => Store!StoreInit
<1> SUFFICES ASSUME Init PROVE Store!StoreInit
  OBVIOUS
<1>1. \A id \in IDs : rows[id] = Nil
  BY DEF Init, NoRows
<1>2. \A k : RowOfDomain(k) = Nil
  BY <1>1, IndexesAreOfRows DEF DomainIn, OfDomain
<1>3. \A o : RowOfOperation(o) = Nil
  BY <1>1, IndexesAreOfRows DEF OperationIn, OfOperation
<1>4. \A run : RowOfRun(run) = Nil
  BY <1>1, IndexesAreOfRows DEF RunIn, OfRun
<1> QED
  BY <1>2, <1>3, <1>4 DEF Init, NoRows, Store!StoreInit, Store!NoPolicy, NoPolicy

LEMMA LockTyped == Spec => [](lock \in Conns \cup {Nil})
<1>1. Init => lock \in Conns \cup {Nil}
  BY DEF Init
<1>2. ASSUME lock \in Conns \cup {Nil}, [Next]_vars PROVE lock' \in Conns \cup {Nil}
  <2>1. ASSUME NEW k \in Conns, NEW code, Fail(k, code) PROVE lock' \in Conns \cup {Nil}
    BY <2>1 DEF Fail
  <2>2. ASSUME NEW k \in Conns, NEW label, NEW s, NEW r, InTx(k, label, s, r)
        PROVE  lock' \in Conns \cup {Nil}
    BY <1>2, <2>2 DEF InTx
  <2>3. ASSUME NEW k \in Conns, NEW r \in Requests, Begin(k, r) \/ Refuse(k, r)
        PROVE  lock' \in Conns \cup {Nil}
    BY <1>2, <2>3 DEF Begin, Refuse, txVars
  <2>4. ASSUME NEW k \in Conns, Abort(k) \/ VerifyNoTriggers(k) \/ Return(k) \/ Commit(k)
        PROVE  lock' \in Conns \cup {Nil}
    BY <1>2, <2>1, <2>4 DEF Abort, VerifyNoTriggers, Return, Commit, txVars
  <2>5. ASSUME NEW k \in Conns, InitSchema(k) \/ CreateTables(k) \/ CreateRecord(k)
        PROVE  lock' \in Conns \cup {Nil}
    BY <2>1, <2>2, <2>5 DEF InitSchema, CreateTables, CreateRecord, Create, Answered
  <2>6. ASSUME NEW k \in Conns,
               CreateAutomatic(k) \/ CreateExplicit(k) \/ AttachRunID(k) \/ UpdateBlocker(k)
        PROVE  lock' \in Conns \cup {Nil}
    BY <2>1, <2>2, <2>6, WritesStage DEF Staged
  <2>7. ASSUME NEW h \in Handles, Crash(h) PROVE lock' \in Conns \cup {Nil}
    BY <1>2, <2>7 DEF Crash, txVars
  <2>8. CASE MainTrigger \/ \E k \in Conns, what \in {"trigger", "table"} : TempObject(k, what)
    BY <1>2, <2>8 DEF MainTrigger, TempObject, txVars
  <2>9. CASE UNCHANGED vars
    BY <1>2, <2>9 DEF vars, txVars
  <2> QED
    BY <1>2, <2>3, <2>4, <2>5, <2>6, <2>7, <2>8, <2>9 DEF Next
<1>3. lock \in Conns \cup {Nil} /\ [Next]_vars => (lock \in Conns \cup {Nil})'
  BY <1>2
<1> QED
  BY <1>1, <1>3, PTL DEF Spec

(***************************************************************************)
(* Theorems.                                                               *)
(***************************************************************************)

(* No connection returns to its pool with a transaction open, and no two
   have one: the database's write lock is that of a call still inside it,
   on every path out of write, however many processes crash.               *)
THEOREM LockNeverOutlivesCall == Spec => []LockHeldByCall
<1>1. TxInv => LockHeldByCall
  BY DEF TxInv
<1> QED
  BY <1>1, TxInvariant, PTL

(* Whichever handles open a file at once and wherever they stop, its schema
   changes from nothing to the whole of version 1, and not otherwise.      *)
THEOREM OpenCreatesOrLeaves == Spec => OpenOnlyCreates
<1>1. TxInv /\ [Next]_vars => [SchemaStep]_schema
  BY StepKeepsTxInv
<1> QED
  BY <1>1, TxInvariant, PTL DEF Spec, OpenOnlyCreates

(* The file, its transaction and its calls hold the values the methods give
   them: every row keeps the ID it was inserted under, whatever the schema
   it was inserted into.                                                   *)
THEOREM SQLiteTypes == Spec => []SQLiteTypeOK
<1>1. TxInv /\ FileInv /\ lock \in Conns \cup {Nil} => SQLiteTypeOK
  BY DEF TxInv, FileInv, FileTyped, RowsGood, Free, SQLiteTypeOK
<1> QED
  BY <1>1, FileInvariant, LockTyped, PTL

(* No schema of any file that passes the checks of an open refuses a row of
   the contract, however many handles write and whatever they write.       *)
THEOREM AcceptedSchemasTakeTheContract == Spec => []SchemaTakesTheContract
<1>1. FileInv => SchemaTakesTheContract
  BY DEF FileInv, AnswerInv, SchemaTakesTheContract
<1> QED
  BY <1>1, FileInvariant, PTL

(* What a write or a replay answered is the row of the identity it named, is
   in the file when the call returns, and stays there.                      *)
THEOREM AnswersStandInTheFile == Spec => []AnswersStand
<1>1. ASSUME FileInv, NEW k \in Conns, pc[k] = "done", answer[k].Intent # Nil
      PROVE  LET in == answer[k].Intent
                 stored == rows[in.ID]
             IN  /\ Asked(call[k], in)
                 /\ stored # Nil
                 /\ [stored EXCEPT !.RunID = in.RunID, !.Blockers = in.Blockers] = in
                 /\ in.RunID \in {Nil, stored.RunID}
  <2> DEFINE in == answer[k].Intent
             stored == rows[in.ID]
  <2>1. Asked(call[k], in) /\ StandsIn(rows, in) /\ in \in IntentRecord /\ RowsGood(rows)
    BY <1>1 DEF FileInv, FileTyped, AnswerInv
  <2>2. stored # Nil /\ SameIntent(stored, in) /\ in.RunID \in {Nil, stored.RunID} /\ in.ID \in IDs
    BY <2>1 DEF StandsIn
  <2>3. stored \in IntentRecord
    BY <2>1, <2>2, RowsOf
  <2> HIDE DEF in, stored
  <2>4. [stored EXCEPT !.RunID = in.RunID, !.Blockers = in.Blockers] = in
    BY <2>1, <2>2, <2>3 DEF SameIntent, IntentRecord
  <2> QED
    BY <2>1, <2>2, <2>4 DEF in, stored
<1>2. FileInv => AnswersStand
  BY <1>1 DEF AnswersStand
<1> QED
  BY <1>2, FileInvariant, PTL

(* Whoever opens the file and however their transactions interleave, fail and
   crash, the durable store is the store the Service is written for.        *)
THEOREM SQLiteImplementsStore == Spec => ImplementsStore
<1>1. FileInv /\ FileInv' /\ [Next]_vars => [Store!StoreNext]_(Store!storeVars)
  BY StepImplements
<1> QED
  BY <1>1, FileInvariant, StartImplements, PTL DEF Spec, ImplementsStore, Store!StoreSpec
=============================================================================
