---------------------------- MODULE IntentSchema ----------------------------
(***************************************************************************)
(* The schema of the durable intent store as a value, the checks           *)
(* NewSQLiteStore makes of one it finds, and the part of SQLite the checks *)
(* are about: which rows a schema refuses, what it stores of a row, and    *)
(* which row a query finds.  A column stands for one field of an intent    *)
(* (the two columns of a pipeline revision, and the blocker columns, are   *)
(* one each); SQL text is its tokens' meaning.                             *)
(***************************************************************************)
EXTENDS Intent, FiniteSets

CONSTANTS
  NoCase,   \* identities that another spelling equals under NOCASE, folded
  Numeric   \* identities that read as numbers, and what INTEGER affinity keeps

Columns ==
  <<"ID", "Origin", "PolicyID", "PolicyRevision", "OperationID", "Subject",
    "PipelineRevision", "RunID", "AdmissionEpoch", "Blockers">>

ColumnType(c) == IF c = "AdmissionEpoch" THEN "integer" ELSE "text"

Binary(cols) == [i \in DOMAIN cols |-> [Column |-> cols[i], Collation |-> "BINARY"]]

(* A partial index of the schema: its key columns and its WHERE predicate. *)
UniqueIndex(name, cols, where) ==
  [Name |-> name, On |-> "intents", Unique |-> TRUE, Keys |-> Binary(cols),
   Where |-> where, Origin |-> "c"]

IntentIndexes ==
  {UniqueIndex("intents_auto_key", <<"PolicyID", "Subject">>, <<"Origin", "=", "AUTOMATIC">>),
   UniqueIndex("intents_operation_id", <<"OperationID">>, <<"Origin", "=", "EXPLICIT">>),
   UniqueIndex("intents_run_id", <<"RunID">>, <<"RunID", "<>", Nil>>)}

(* Nil stands for NULL where SQLite reports a column or a predicate. *)
ASSUME NilIsNull ==
  /\ \A i \in DOMAIN Columns : Nil # Columns[i]
  /\ \A w \in IntentIndexes : Nil # w.Where

PrimaryKeyIndex ==
  [UniqueIndex("pk", <<"ID">>, Nil) EXCEPT !.Origin = "pk"]

(* Version is Nil without a version table and 0 without its record.        *)
NoSchema == [Version |-> Nil, Table |-> Nil, Indexes |-> {}, Trigger |-> FALSE]

IntentsTable ==
  [Kind |-> "table", Check |-> FALSE, ForeignKey |-> FALSE,
   Columns |-> [i \in DOMAIN Columns |->
     [Name |-> Columns[i], Type |-> ColumnType(Columns[i]), NotNull |-> TRUE,
      Key |-> Columns[i] = "ID", Hidden |-> FALSE, Collation |-> "BINARY"]]]

(* What createSchema leaves behind. *)
SchemaV1 ==
  [Version |-> 1, Table |-> IntentsTable,
   Indexes |-> IntentIndexes \cup {PrimaryKeyIndex}, Trigger |-> FALSE]

(***************************************************************************)
(* The checks of a database that records version 1.                        *)
(***************************************************************************)
IndexesOn(s) == {i \in s.Indexes : i.On = "intents"}

ObjectCount(s) ==
  Cardinality({w \in IntentIndexes : \E i \in s.Indexes : i.Name = w.Name})
    + (IF s.Table = Nil THEN 0 ELSE 1)

VerifyIntentColumns(t) ==
  /\ \A i \in DOMAIN t.Columns :
       LET c == t.Columns[i] IN
       /\ ~c.Hidden
       /\ c.NotNull
       /\ c.Key <=> c.Name = "ID"
       /\ c.Type = ColumnType(c.Name)
  /\ [i \in DOMAIN t.Columns |-> t.Columns[i].Name] = Columns

VerifyPredicateCollations(t) ==
  \A i \in DOMAIN t.Columns :
    t.Columns[i].Name \in {"Origin", "RunID"} => t.Columns[i].Collation = "BINARY"

VerifyBinaryKeys(i) == \A n \in DOMAIN i.Keys : i.Keys[n].Collation = "BINARY"

(* An expression key has no column. *)
VerifyPlainIndex(i) ==
  /\ i.Where = Nil
  /\ \A n \in DOMAIN i.Keys : i.Keys[n].Column # Nil

VerifyExtraIndexes(s) ==
  \A i \in IndexesOn(s) :
    \/ i.Origin = "pk"
    \/ \E w \in IntentIndexes : w.Name = i.Name
    \/ ~i.Unique /\ VerifyPlainIndex(i)

KeyColumns(i) == [n \in DOMAIN i.Keys |-> i.Keys[n].Column]

VerifyRequiredIndexes(s) ==
  /\ \A w \in IntentIndexes : \E i \in IndexesOn(s) :
       /\ i.Name = w.Name
       /\ i.Unique
       /\ KeyColumns(i) = KeyColumns(w)
       /\ VerifyBinaryKeys(i)
       /\ i.Where = w.Where
  /\ Cardinality({i \in IndexesOn(s) : i.Origin = "pk"}) = 1
  /\ \A i \in IndexesOn(s) : i.Origin = "pk" => VerifyBinaryKeys(i)

(* Mutants: the text of the table, or the list of its other indexes, is not
   read.                                                                   *)
VerifyWithoutCollations(s) ==
  /\ s.Table.Kind = "table"
  /\ VerifyIntentColumns(s.Table)
  /\ ~s.Table.Check
  /\ ~s.Trigger
  /\ ~s.Table.ForeignKey
  /\ VerifyExtraIndexes(s)
  /\ VerifyRequiredIndexes(s)

VerifySchemaObjects(s) ==
  /\ s.Table.Kind = "table"
  /\ VerifyIntentColumns(s.Table)
  /\ ~s.Table.Check
  /\ ~s.Trigger
  /\ ~s.Table.ForeignKey
  /\ VerifyPredicateCollations(s.Table)
  /\ VerifyExtraIndexes(s)
  /\ VerifyRequiredIndexes(s)

(***************************************************************************)
(* SQLite.  Rows are [IDs -> IntentRecord or Nil].                         *)
(***************************************************************************)
(* Of any schema: names of indexes are unique, and a PRIMARY KEY has a unique
   index, without predicate, on its columns.                               *)
MadeBySQLite(s) ==
  /\ \A i, j \in s.Indexes : i.Name = j.Name => i = j
  /\ \A i \in IndexesOn(s) : i.Origin = "pk" =>
       /\ i.Unique /\ i.Where = Nil /\ DOMAIN i.Keys # {}
       /\ \A n \in DOMAIN i.Keys : \E m \in DOMAIN s.Table.Columns :
            s.Table.Columns[m].Key /\ s.Table.Columns[m].Name = i.Keys[n].Column

SameUnder(collation, x, y) ==
  \/ x = y
  \/ collation = "ALLEQUAL"
  \/ collation = "NOCASE" /\ {x, y} \subseteq DOMAIN NoCase /\ NoCase[x] = NoCase[y]

ColumnsNamed(t, name) == {t.Columns[i] : i \in {n \in DOMAIN t.Columns : t.Columns[n].Name = name}}
CollationOf(t, name) == (CHOOSE c \in ColumnsNamed(t, name) : TRUE).Collation

(* A predicate compares under its column's declared collation. *)
Covers(t, i, row) ==
  \/ i.Where = Nil
  \/ LET same == SameUnder(CollationOf(t, i.Where[1]), row[i.Where[1]], i.Where[3])
     IN  IF i.Where[2] = "=" THEN same ELSE ~same

(* A column of another type than its field's changes the text it is given. *)
AsStored(t, row) ==
  IF row.OperationID \in DOMAIN Numeric
       /\ \E c \in ColumnsNamed(t, "OperationID") : c.Type # "text"
    THEN [row EXCEPT !.OperationID = Numeric[@]] ELSE row

Collides(t, i, row, other) ==
  /\ Covers(t, i, row) /\ Covers(t, i, other)
  /\ \A n \in DOMAIN i.Keys :
       SameUnder(i.Keys[n].Collation, row[i.Keys[n].Column], other[i.Keys[n].Column])

(* An index SQLite evaluates on a write, beyond comparing columns. *)
Evaluated(i) ==
  \/ i.Where # Nil /\ i.Where[1] = Nil
  \/ \E n \in DOMAIN i.Keys : i.Keys[n].Column = Nil

(* The statement that makes row id of the table row fails: a column it names
   is missing or one it does not name is required, a constraint, an expression
   or a foreign key says no, or a unique index holds the key already.        *)
Refuses(s, rows, id, row) ==
  LET t == s.Table IN
  \/ t.Kind # "table" \/ t.Check \/ t.ForeignKey
  \/ \E n \in DOMAIN Columns : ColumnsNamed(t, Columns[n]) = {}
  \/ \E n \in DOMAIN t.Columns :
       t.Columns[n].Hidden \/ \A m \in DOMAIN Columns : t.Columns[n].Name # Columns[m]
  \/ \E i \in IndexesOn(s) : Evaluated(i)
  \/ \E i \in IndexesOn(s), other \in IDs \ {id} :
       i.Unique /\ rows[other] # Nil /\ Collides(t, i, AsStored(t, row), rows[other])

(* The rows a query of queryIntent selects.  Origin compares under its column's
   collation; the identities pin BINARY.                                     *)
WhereAuto(t, rows, p, subject) ==
  {id \in IDs :
     /\ rows[id] # Nil
     /\ SameUnder(CollationOf(t, "Origin"), rows[id].Origin, "AUTOMATIC")
     /\ rows[id].PolicyID = p /\ rows[id].Subject = subject}

(* Mutant: the identity compares under its column's declared collation. *)
WhereExplicitDeclared(t, rows, op) ==
  {id \in IDs :
     /\ rows[id] # Nil
     /\ SameUnder(CollationOf(t, "Origin"), rows[id].Origin, "EXPLICIT")
     /\ SameUnder(CollationOf(t, "OperationID"), rows[id].OperationID, op)}

WhereExplicit(t, rows, op) ==
  {id \in IDs :
     /\ rows[id] # Nil
     /\ SameUnder(CollationOf(t, "Origin"), rows[id].Origin, "EXPLICIT")
     /\ rows[id].OperationID = op}

WhereID(rows, x) == {id \in IDs : rows[id] # Nil /\ id = x}
WhereRunID(rows, run) == {id \in IDs : rows[id] # Nil /\ rows[id].RunID = run}
=============================================================================
