----------------------------- MODULE RevisionStore -----------------------------
(***************************************************************************)
(* sqlitestore.Store: Commit and GetRevision on one database file, called  *)
(* from several goroutines of several processes.  Each process opens one   *)
(* handle, and a handle owns one connection (SetMaxOpenConns(1)), so the   *)
(* calls of a handle run one transaction at a time; transactions of two    *)
(* handles meet in SQLite only.                                            *)
(*                                                                         *)
(* External, modelled from how sqlite.go uses them: SQLite's deferred      *)
(* transactions (a snapshot from the first read on; a write is refused     *)
(* when another transaction is writing or has committed since), and the    *)
(* read-only resolvers, which may accept or refuse a contract differently  *)
(* each time they are asked.  A stored row may be damaged at rest.         *)
(***************************************************************************)
EXTENDS Naturals

CONSTANTS
  Callers, Handles,
  HandleOf,       \* [Callers -> Handles]
  Pipelines,
  OperationIDs,
  RevisionIDs,    \* what the UUID allocator can draw
  Bodies,         \* request bodies
  Forms,          \* canonical contracts
  Canonical,      \* [Bodies -> Forms or Nil]; Nil: parse or capability gate fails
  Damage,         \* what can happen to a stored row, as [Column, Value]
  Nil

ASSUME RevisionConstants ==
  /\ HandleOf \in [Callers -> Handles]
  /\ Canonical \in [Bodies -> Forms \cup {Nil}]
  /\ Nil \notin Forms \cup RevisionIDs \cup Callers

Keys == Pipelines \X RevisionIDs

(* SHA-256 of canonical bytes; Nil stands for bytes that are no contract. *)
DigestCanonical(form) == <<"sha256", form>>
RequestFingerprint(p, form) == <<p, DigestCanonical(form)>>

Versions == {"v1", "other"}
Row ==
  [Digest : {DigestCanonical(f) : f \in Forms \cup {Nil}}, SemVer : Versions,
   CanonVer : Versions, Body : Forms \cup {Nil}]
RowOf(form) ==
  [Digest |-> DigestCanonical(form), SemVer |-> "v1", CanonVer |-> "v1", Body |-> form]
Operation ==
  [RevisionID : RevisionIDs,
   Fingerprint : {RequestFingerprint(p, f) : p \in Pipelines, f \in Forms}]

ASSUME NoRowIsNil == Nil \notin Row \cup Operation
ASSUME DamageIsInARow ==
  \A d \in Damage : \A row \in Row : [row EXCEPT ![d.Column] = d.Value] \in Row

Requests ==
  [Call : {"Commit"}, OperationID : OperationIDs, PipelineID : Pipelines, Body : Bodies]
  \cup [Call : {"GetRevision"}, Key : Keys]

(* The three tables.  The digest index's key names the digest by its form. *)
Tables ==
  [revisions : [Keys -> Row \cup {Nil}],
   operations : [OperationIDs -> Operation \cup {Nil}],
   digestIndex : [Pipelines \X Forms -> RevisionIDs \cup {Nil}]]
Empty ==
  [revisions |-> [k \in Keys |-> Nil], operations |-> [o \in OperationIDs |-> Nil],
   digestIndex |-> [k \in Pipelines \X Forms |-> Nil]]

VARIABLES
  db,       \* the committed tables
  schema,   \* how many of the three tables exist
  up,       \* handles that are open
  conn,     \* the caller that holds each handle's connection
  pc, req, reply,
  tx,       \* each transaction's view: its snapshot, then its staged rows
  \* History, read by no action.
  minted,   \* the form each revision was minted for
  acked,    \* every success a Commit has returned
  known     \* what was committed of the request when the call began

callVars == <<conn, pc, req, reply, tx>>
vars == <<db, schema, up, callVars, minted, acked, known>>

Answer(outcome) == [Outcome |-> outcome, RevisionID |-> Nil, Row |-> Nil]

RevisionTypeOK ==
  /\ db \in Tables
  /\ schema \in 0..3
  /\ up \subseteq Handles
  /\ conn \in [Handles -> Callers \cup {Nil}]
  /\ pc \in [Callers -> {"idle", "begin", "lookup", "prepare", "mint", "converge",
                         "commit", "done"}]
  /\ req \in [Callers -> Requests \cup {Nil}]
  /\ tx \in [Callers -> Tables]
  /\ minted \in [Keys -> Forms \cup {Nil}]
  /\ known \in [Callers -> {"nothing", "content", "operation"}]

Init ==
  /\ db = Empty /\ schema = 0 /\ up = {}
  /\ conn = [h \in Handles |-> Nil]
  /\ pc = [c \in Callers |-> "idle"]
  /\ req = [c \in Callers |-> Nil]
  /\ reply = [c \in Callers |-> Nil]
  /\ tx = [c \in Callers |-> Empty]
  /\ minted = [k \in Keys |-> Nil]
  /\ acked = {}
  /\ known = [c \in Callers |-> "nothing"]

FormOf(c) == Canonical[req[c].Body]
ContentKey(c) == <<req[c].PipelineID, FormOf(c)>>
FingerprintOf(c) == RequestFingerprint(req[c].PipelineID, FormOf(c))

(* Mutant: the digest is not recomputed. *)
LoadTrusting(tables, key) ==
  LET row == tables.revisions[key] IN
  IF row = Nil THEN "NOT_FOUND"
  ELSE IF row.CanonVer # "v1" \/ row.Body = Nil \/ row.SemVer # "v1"
       THEN "INTEGRITY" ELSE "FOUND"

(* loadRevisionTx: it fails closed on whatever does not agree. *)
Load(tables, key) ==
  LET row == tables.revisions[key] IN
  IF row = Nil THEN "NOT_FOUND"
  ELSE IF \/ row.CanonVer # "v1"
          \/ row.Digest # DigestCanonical(row.Body)
          \/ row.Body = Nil
          \/ row.SemVer # "v1"
       THEN "INTEGRITY" ELSE "FOUND"

(***************************************************************************)
(* A call ends by giving its connection back, if it has one.               *)
(***************************************************************************)
Release(c) ==
  /\ conn' = [h \in Handles |-> IF conn[h] = c THEN Nil ELSE conn[h]]
  /\ tx' = [tx EXCEPT ![c] = Empty]

Return(c, answer) ==
  /\ pc' = [pc EXCEPT ![c] = "done"]
  /\ reply' = [reply EXCEPT ![c] = answer]
  /\ Release(c)
  /\ UNCHANGED req

Goto(c, step) ==
  /\ pc' = [pc EXCEPT ![c] = step]
  /\ UNCHANGED <<conn, req, reply>>

NoWrite == UNCHANGED <<db, schema, up, minted, acked, known>>

Fetched(tables, key) ==
  LET outcome == Load(tables, key) IN
  IF outcome = "FOUND"
    THEN [Outcome |-> "FOUND", RevisionID |-> key[2], Row |-> tables.revisions[key]]
    ELSE Answer(outcome)

(***************************************************************************)
(* Handles.                                                                *)
(***************************************************************************)

(* CREATE TABLE IF NOT EXISTS, three autocommitted statements; a process
   that stops between two of them leaves the rest to the next Open.        *)
CreateTable(h) ==
  /\ h \notin up /\ schema < 3
  /\ schema' = schema + 1
  /\ UNCHANGED <<db, up, callVars, minted, acked, known>>

Open(h) ==
  /\ h \notin up /\ schema = 3
  /\ up' = up \cup {h}
  /\ UNCHANGED <<db, schema, callVars, minted, acked, known>>

(* The process crashes, or closes the handle: its calls are gone, with their
   answers, and what they had not committed is rolled back.                *)
Crash(h) ==
  /\ h \in up
  /\ up' = up \ {h}
  /\ conn' = [conn EXCEPT ![h] = Nil]
  /\ pc' = [c \in Callers |-> IF HandleOf[c] = h THEN "idle" ELSE pc[c]]
  /\ req' = [c \in Callers |-> IF HandleOf[c] = h THEN Nil ELSE req[c]]
  /\ reply' = [c \in Callers |-> IF HandleOf[c] = h THEN Nil ELSE reply[c]]
  /\ tx' = [c \in Callers |-> IF HandleOf[c] = h THEN Empty ELSE tx[c]]
  /\ known' = [c \in Callers |-> IF HandleOf[c] = h THEN "nothing" ELSE known[c]]
  /\ UNCHANGED <<db, schema, minted, acked>>

(* One cell of a stored row goes bad while no transaction is open; a row
   suffers this once, as two cells could agree on a content never minted.  *)
Intact(k) == db.revisions[k] # Nil /\ db.revisions[k] = RowOf(minted[k])

DamageRow(k, d) ==
  /\ Intact(k)
  /\ \A h \in Handles : conn[h] = Nil
  /\ db' = [db EXCEPT !.revisions[k][d.Column] = d.Value]
  /\ UNCHANGED <<schema, up, callVars, minted, acked, known>>

(***************************************************************************)
(* The steps of a call.                                                    *)
(***************************************************************************)
KnownOf(r) ==
  IF r.Call = "GetRevision" \/ Canonical[r.Body] = Nil THEN "nothing"
  ELSE IF /\ db.operations[r.OperationID] # Nil
          /\ db.operations[r.OperationID].Fingerprint =
               RequestFingerprint(r.PipelineID, Canonical[r.Body])
       THEN "operation"
  ELSE IF db.digestIndex[<<r.PipelineID, Canonical[r.Body]>>] # Nil THEN "content"
  ELSE "nothing"

(* PrepareUnvalidated needs neither the database nor a resolver. *)
Start(c, r) ==
  /\ pc[c] = "idle" /\ HandleOf[c] \in up
  /\ req' = [req EXCEPT ![c] = r]
  /\ known' = [known EXCEPT ![c] = KnownOf(r)]
  /\ IF r.Call = "Commit" /\ Canonical[r.Body] = Nil
       THEN /\ pc' = [pc EXCEPT ![c] = "done"]
            /\ reply' = [reply EXCEPT ![c] = Answer("UNPARSABLE")]
       ELSE pc' = [pc EXCEPT ![c] = "begin"] /\ UNCHANGED reply
  /\ UNCHANGED <<db, schema, up, conn, tx, minted, acked>>

(* BeginTx waits for the handle's connection. *)
Begin(c) ==
  /\ pc[c] = "begin"
  /\ conn[HandleOf[c]] = Nil
  /\ conn' = [conn EXCEPT ![HandleOf[c]] = c]
  /\ pc' = [pc EXCEPT ![c] = "lookup"]
  /\ UNCHANGED <<req, reply, tx>>
  /\ NoWrite

GetRevision(c) ==
  /\ pc[c] = "lookup" /\ req[c].Call = "GetRevision"
  /\ Return(c, Fetched(db, req[c].Key))
  /\ NoWrite

(* Mutant: the refusal of a conflict keeps the connection. *)
ReplayOrConflictHolding(c) ==
  LET op == db.operations[req[c].OperationID] IN
  /\ pc[c] = "lookup" /\ req[c].Call = "Commit"
  /\ op # Nil
  /\ IF op.Fingerprint = FingerprintOf(c)
       THEN Return(c, Fetched(db, <<req[c].PipelineID, op.RevisionID>>))
       ELSE /\ pc' = [pc EXCEPT ![c] = "done"]
            /\ reply' = [reply EXCEPT ![c] = Answer("OPERATION_CONFLICT")]
            /\ UNCHANGED <<conn, req, tx>>
  /\ NoWrite

(* The first read takes the snapshot, in which the ledger and the digest
   index are looked up.                                                    *)
ReplayOrConflict(c) ==
  LET op == db.operations[req[c].OperationID] IN
  /\ pc[c] = "lookup" /\ req[c].Call = "Commit"
  /\ op # Nil
  /\ IF op.Fingerprint = FingerprintOf(c)
       THEN LET got == Fetched(db, <<req[c].PipelineID, op.RevisionID>>) IN
            /\ Return(c, got)
            /\ acked' = IF got.Outcome # "FOUND" THEN acked
                        ELSE acked \cup {[OperationID |-> req[c].OperationID,
                               Key |-> ContentKey(c), RevisionID |-> op.RevisionID,
                               Created |-> FALSE]}
       ELSE Return(c, Answer("OPERATION_CONFLICT")) /\ UNCHANGED acked
  /\ UNCHANGED <<db, schema, up, minted, known>>

(* Mutants: a new operation is validated before its content is looked up;
   the ledger is not looked up.                                            *)
LookupValidating(c) ==
  /\ pc[c] = "lookup" /\ req[c].Call = "Commit"
  /\ db.operations[req[c].OperationID] = Nil
  /\ tx' = [tx EXCEPT ![c] = db]
  /\ Goto(c, "prepare")
  /\ NoWrite

LookupUnledgered(c) ==
  /\ pc[c] = "lookup" /\ req[c].Call = "Commit"
  /\ tx' = [tx EXCEPT ![c] = db]
  /\ Goto(c, IF db.digestIndex[ContentKey(c)] # Nil THEN "converge" ELSE "prepare")
  /\ NoWrite

Lookup(c) ==
  /\ pc[c] = "lookup" /\ req[c].Call = "Commit"
  /\ db.operations[req[c].OperationID] = Nil
  /\ tx' = [tx EXCEPT ![c] = db]
  /\ Goto(c, IF db.digestIndex[ContentKey(c)] # Nil THEN "converge" ELSE "prepare")
  /\ NoWrite

(* The resolvers are asked inside the transaction, holding the connection. *)
Prepare(c) ==
  /\ pc[c] = "prepare"
  /\ \/ Goto(c, "mint") /\ UNCHANGED tx
     \/ Return(c, Answer("REFUSED"))
  /\ NoWrite

(* SQLite's rule for the first write of a deferred transaction. *)
MayWrite(c) == tx[c] = db /\ \A d \in Callers : pc[d] # "commit"

(* Mutant: the digest alone is the fingerprint. *)
OperationRowByDigest(c, rev) ==
  [RevisionID |-> rev, Fingerprint |-> DigestCanonical(FormOf(c))]

OperationRow(c, rev) == [RevisionID |-> rev, Fingerprint |-> FingerprintOf(c)]

RecordConverged(c) ==
  LET rev == db.digestIndex[ContentKey(c)]
      staged == [tx[c] EXCEPT !.operations[req[c].OperationID] = OperationRow(c, rev)]
      got == Fetched(staged, <<req[c].PipelineID, rev>>)
  IN
  /\ pc[c] = "converge" /\ MayWrite(c)
  /\ IF got.Outcome = "FOUND"
       THEN Goto(c, "commit") /\ tx' = [tx EXCEPT ![c] = staged]
       ELSE Return(c, got)
  /\ NoWrite

(* Mutant: the digest index is forgotten. *)
MintUnindexed(c, rev) ==
  LET k == <<req[c].PipelineID, rev>> IN
  /\ pc[c] = "mint" /\ MayWrite(c)
  /\ tx[c].revisions[k] = Nil
  /\ tx' = [tx EXCEPT ![c].revisions[k] = RowOf(FormOf(c)),
                      ![c].operations[req[c].OperationID] = OperationRow(c, rev)]
  /\ Goto(c, "commit")
  /\ NoWrite

(* A drawn RevisionID that is taken fails on the primary key: Fail(c).  The
   keys of the ledger and of the digest index never refuse here, since both
   were missing in the snapshot tx[c] = db that Lookup took.               *)
Mint(c, rev) ==
  LET k == <<req[c].PipelineID, rev>> IN
  /\ pc[c] = "mint" /\ MayWrite(c)
  /\ tx[c].revisions[k] = Nil
  /\ tx' = [tx EXCEPT ![c].revisions[k] = RowOf(FormOf(c)),
                      ![c].operations[req[c].OperationID] = OperationRow(c, rev),
                      ![c].digestIndex[ContentKey(c)] = rev]
  /\ Goto(c, "commit")
  /\ NoWrite

(* The durable boundary; only then is the caller answered. *)
TxCommit(c) ==
  LET rev == tx[c].operations[req[c].OperationID].RevisionID
      k == <<req[c].PipelineID, rev>>
      created == db.revisions[k] = Nil
  IN
  /\ pc[c] = "commit"
  /\ db' = tx[c]
  /\ minted' = IF created THEN [minted EXCEPT ![k] = FormOf(c)] ELSE minted
  /\ acked' = acked \cup {[OperationID |-> req[c].OperationID, Key |-> ContentKey(c),
                           RevisionID |-> rev, Created |-> created]}
  /\ Return(c, [Outcome |-> IF created THEN "CREATED" ELSE "FOUND",
                RevisionID |-> rev, Row |-> tx[c].revisions[k]])
  /\ UNCHANGED <<schema, up, known>>

(* Any statement, and the COMMIT, may fail, and the context may be cancelled
   while the call waits: the transaction is rolled back.  SQLITE_BUSY, a
   primary key that is taken and faultBeforeCommit end here too.           *)
Fail(c) ==
  /\ pc[c] \notin {"idle", "done"}
  /\ Return(c, Answer("ERROR"))
  /\ NoWrite

Finish(c) ==
  /\ pc[c] = "done"
  /\ pc' = [pc EXCEPT ![c] = "idle"]
  /\ req' = [req EXCEPT ![c] = Nil]
  /\ reply' = [reply EXCEPT ![c] = Nil]
  /\ known' = [known EXCEPT ![c] = "nothing"]
  /\ UNCHANGED <<db, schema, up, conn, tx, minted, acked>>

Advance(c) ==
  \/ GetRevision(c) \/ ReplayOrConflict(c) \/ Lookup(c) \/ Prepare(c)
  \/ RecordConverged(c) \/ \E rev \in RevisionIDs : Mint(c, rev)
  \/ TxCommit(c) \/ Fail(c)

Next ==
  \/ \E h \in Handles : CreateTable(h) \/ Open(h) \/ Crash(h)
  \/ \E k \in Keys, d \in Damage : DamageRow(k, d)
  \/ \E c \in Callers : \/ \E r \in Requests : Start(c, r)
                        \/ Begin(c) \/ Advance(c) \/ Finish(c)

Spec == Init /\ [][Next]_vars

(* A statement returns, with a result or an error; database/sql hands the
   connection to the calls that wait for it in turn; resolvers return.     *)
Fairness ==
  \A c \in Callers : SF_vars(Begin(c)) /\ WF_vars(pc[c] # "begin" /\ Advance(c))
FairSpec == Spec /\ Fairness

(***************************************************************************)
(* Properties.                                                             *)
(***************************************************************************)

(* The three tables move together: every ledger row names a revision that was
   minted for exactly the body its fingerprint stands for; a pipeline has one
   revision per canonical body, the one the digest index names; and no crash
   or failed statement leaves one table's row without the others' (the single
   transaction of Commit).                                                 *)
TablesAgree ==
  /\ \A k \in Keys : (db.revisions[k] = Nil) = (minted[k] = Nil)
  /\ \A p \in Pipelines, f \in Forms, rev \in RevisionIDs :
       db.digestIndex[<<p, f>>] = rev <=> minted[<<p, rev>>] = f
  /\ \A o \in OperationIDs : db.operations[o] # Nil =>
       \E p \in Pipelines, f \in Forms :
         /\ db.operations[o].Fingerprint = RequestFingerprint(p, f)
         /\ minted[<<p, db.operations[o].RevisionID>>] = f

(* What Commit acknowledged stays: through crashes and whatever other
   processes commit, the operation is still bound to the same body and
   revision, so every retry is answered alike, and a body is reported as
   created once only.                                                      *)
AcknowledgedIsDurable ==
  \A a \in acked :
    /\ db.operations[a.OperationID] =
         [RevisionID |-> a.RevisionID, Fingerprint |-> RequestFingerprint(a.Key[1], a.Key[2])]
    /\ db.revisions[<<a.Key[1], a.RevisionID>>] # Nil
    /\ \A b \in acked : a.Created /\ b.Created /\ a.Key = b.Key => a = b

(* A revision that a call returns has the content it was minted for, and for
   a Commit that is the content of the request; a row damaged since is never
   returned (loadRevisionTx fails closed).                                 *)
ReturnsWhatWasMinted ==
  \A c \in Callers : pc[c] = "done" /\ reply[c].RevisionID # Nil =>
    LET commit == req[c].Call = "Commit"
        p == IF commit THEN req[c].PipelineID ELSE req[c].Key[1]
        form == minted[<<p, reply[c].RevisionID>>]
    IN  /\ form # Nil /\ reply[c].Row = RowOf(form)
        /\ commit => form = FormOf(c)

(* Every call returns, unless its process stops: whoever holds the single
   connection gives it back on every path, refusals and faults included.   *)
CallsReturn ==
  \A c \in Callers : pc[c] \notin {"idle", "done"} ~> pc[c] \in {"idle", "done"}
=============================================================================
