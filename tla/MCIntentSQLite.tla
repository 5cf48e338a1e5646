--------------------------- MODULE MCIntentSQLite ---------------------------
(* Two processes on one file, which is empty, or holds version 1 with one of
   the departures from it that the open-time checks tell apart.            *)
EXTENDS IntentSQLiteRefinement, TLC

CONSTANTS id1, id2, p1, prev1, s1, rev1, op, OP, run1, run2, k1, k2, h1, h2

MCHandleOf == k1 :> h1 @@ k2 :> h2
MCNoCase == op :> op @@ OP :> op
MCNumeric == op :> OP
MCPublishedBefore == {}

Automatic == AutomaticDraft(p1, prev1, s1, rev1, 0)
MCRequests ==
  {[Kind |-> "open"], [Kind |-> "policyLog"],
   [Kind |-> "createAutomatic", Draft |-> Automatic]}
  \cup {[Kind |-> "createExplicit", Draft |-> ExplicitDraft(o, s1, rev1)] : o \in {op, OP}}
  \cup {[Kind |-> "createExplicit", Draft |-> [ExplicitDraft(op, s1, rev1) EXCEPT !.RunID = run1]]}
  \cup {[Kind |-> "AttachRunID", ID |-> i[1], Run |-> i[2]] :
          i \in {<<id1, run1>>, <<id1, run2>>, <<id2, run1>>}}
  \cup {[Kind |-> "UpdateBlocker", ID |-> id1, Owner |-> o, State |-> "BLOCKED"] :
          o \in {"POLICY_DISABLE", "NOBODY"}}

Index(name) == CHOOSE i \in SchemaV1.Indexes : i.Name = name
WithIndex(name, i) == [SchemaV1 EXCEPT !.Indexes = (@ \ {Index(name)}) \cup {i}]
AndIndex(i) == [SchemaV1 EXCEPT !.Indexes = @ \cup {i}]
Position(c) == CHOOSE n \in DOMAIN Columns : Columns[n] = c
WithCollation(c, coll) == [SchemaV1 EXCEPT !.Table.Columns[Position(c)].Collation = coll]
Plain == [UniqueIndex("extra", <<"OperationID">>, Nil) EXCEPT !.Unique = FALSE]

(* Schemas NewSQLiteStore takes: nothing yet, which it makes version 1, and
   one with an extra plain index and an identity column declared NOCASE under
   its BINARY indexes.                                                     *)
Taken ==
  {NoSchema,
   [WithCollation("OperationID", "NOCASE") EXCEPT !.Indexes = @ \cup {Plain}]}

Versions ==
  {[SchemaV1 EXCEPT !.Version = v] : v \in {Nil, 0, 2}}
  \cup {[NoSchema EXCEPT !.Version = v] : v \in {0, 1}}
  \cup {[SchemaV1 EXCEPT !.Indexes = @ \ {Index("intents_run_id")}]}

Tables ==
  {[SchemaV1 EXCEPT !.Table.Kind = "view"], [SchemaV1 EXCEPT !.Table.Check = TRUE],
   [SchemaV1 EXCEPT !.Table.ForeignKey = TRUE], [SchemaV1 EXCEPT !.Trigger = TRUE],
   [SchemaV1 EXCEPT !.Table.Columns[Position("OperationID")].Type = "integer"],
   [SchemaV1 EXCEPT !.Table.Columns[Position("Subject")].NotNull = FALSE],
   [SchemaV1 EXCEPT !.Table.Columns = Append(@, [@[2] EXCEPT !.Name = "generated", !.Hidden = TRUE])],
   WithCollation("Origin", "ALLEQUAL"), WithCollation("RunID", "ALLEQUAL")}

Indexes ==
  {AndIndex(UniqueIndex("extra", <<"PipelineRevision">>, Nil)),
   AndIndex([Plain EXCEPT !.Keys = <<[Column |-> Nil, Collation |-> "BINARY"]>>]),
   AndIndex([Plain EXCEPT !.Where = <<Nil, "=", Nil>>]),
   WithIndex("intents_operation_id",
     [Index("intents_operation_id") EXCEPT !.Keys[1].Collation = "NOCASE"]),
   WithIndex("intents_operation_id", [Index("intents_operation_id") EXCEPT !.Where = Nil]),
   WithIndex("intents_auto_key", [Index("intents_auto_key") EXCEPT !.Unique = FALSE]),
   WithIndex("intents_auto_key", [Index("intents_auto_key") EXCEPT !.Keys = Tail(@)]),
   WithIndex("intents_run_id", [Index("intents_run_id") EXCEPT !.On = "other"]),
   WithIndex("pk", [Index("pk") EXCEPT !.Keys[1].Collation = "NOCASE"])}

MCSymmetry == {k1 :> k2 @@ k2 :> k1 @@ h1 :> h2 @@ h2 :> h1}

MCSchemas == Taken \cup Versions \cup Tables \cup Indexes
=============================================================================
