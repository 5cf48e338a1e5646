------------------------- MODULE RevisionStoreProofs -------------------------
(***************************************************************************)
(* One deferred transaction is enough for Commit: for every number of      *)
(* processes, goroutines, operations and bodies, whatever crashes, fails   *)
(* or is refused, the three tables agree, and Commit and GetRevision       *)
(* implement the atomic ledger of RevisionPromise.                         *)
(***************************************************************************)
EXTENDS RevisionRefinement, TLAPS

InTx == {"lookup", "prepare", "mint", "converge", "commit"}

(* What a transaction has staged, relative to the committed tables. *)
StagedConverged(c, rev) ==
  /\ db.digestIndex[ContentKey(c)] = rev
  /\ tx[c] = [db EXCEPT !.operations[req[c].OperationID] = OperationRow(c, rev)]

StagedMint(c, rev) ==
  /\ db.digestIndex[ContentKey(c)] = Nil
  /\ db.revisions[<<req[c].PipelineID, rev>>] = Nil
  /\ tx[c] = [db EXCEPT !.revisions[<<req[c].PipelineID, rev>>] = RowOf(FormOf(c)),
                        !.operations[req[c].OperationID] = OperationRow(c, rev),
                        !.digestIndex[ContentKey(c)] = rev]

Staged(c) ==
  /\ db.operations[req[c].OperationID] = Nil
  /\ \E rev \in RevisionIDs : StagedConverged(c, rev) \/ StagedMint(c, rev)

(* What holds of a call in progress. *)
CallerInv(c) ==
  /\ pc[c] \in InTx => conn[HandleOf[c]] = c
  /\ pc[c] \in InTx \cup {"begin"} =>
       req[c] \in Requests /\ (req[c].Call = "Commit" => FormOf(c) \in Forms)
  /\ pc[c] \in InTx \ {"lookup"} => req[c].Call = "Commit"
  /\ pc[c] \in {"prepare", "mint", "converge"} =>
       tx[c].operations[req[c].OperationID] = Nil
  /\ pc[c] \in {"prepare", "mint"} => tx[c].digestIndex[ContentKey(c)] = Nil
  /\ pc[c] = "converge" => tx[c].digestIndex[ContentKey(c)] \in RevisionIDs
  /\ pc[c] = "commit" => Staged(c)

OneWriter == \A c, d \in Callers : pc[c] = "commit" /\ pc[d] = "commit" => c = d

RevisionInv ==
  /\ RevisionTypeOK /\ TablesAgree /\ OneWriter
  /\ \A c \in Callers : CallerInv(c)

(***************************************************************************)
(* Types.                                                                  *)
(***************************************************************************)
LEMMA EmptyTyped == Empty \in Tables
  BY DEF Empty, Tables

LEMMA RowTyped == ASSUME NEW f \in Forms PROVE RowOf(f) \in Row /\ RowOf(f) # Nil
  BY NoRowIsNil DEF RowOf, Row, Versions

(* A commit in progress names its operation, pipeline and content. *)
LEMMA CommitTyped ==
  ASSUME NEW c \in Callers, CallerInv(c), pc[c] \in InTx \cup {"begin"},
         req[c].Call = "Commit"
  PROVE  /\ req[c].OperationID \in OperationIDs /\ req[c].PipelineID \in Pipelines
         /\ FormOf(c) \in Forms /\ FormOf(c) # Nil
         /\ ContentKey(c) = <<req[c].PipelineID, FormOf(c)>>
         /\ ContentKey(c) \in Pipelines \X Forms
         /\ \A rev \in RevisionIDs : /\ OperationRow(c, rev) \in Operation
                                     /\ OperationRow(c, rev) # Nil
                                     /\ <<req[c].PipelineID, rev>> \in Keys
<1>1. req[c] \in Requests /\ FormOf(c) \in Forms
  BY DEF CallerInv
<1>2. req[c].OperationID \in OperationIDs /\ req[c].PipelineID \in Pipelines
  BY <1>1 DEF Requests
<1>3. ASSUME NEW rev \in RevisionIDs
      PROVE  OperationRow(c, rev) \in Operation
  BY <1>1, <1>2 DEF OperationRow, Operation, FingerprintOf
<1> QED
  BY <1>1, <1>2, <1>3, RevisionConstants, NoRowIsNil DEF ContentKey, Keys

(***************************************************************************)
(* What does not disturb a call.                                           *)
(***************************************************************************)
LEMMA CallUndisturbed ==
  ASSUME NEW c \in Callers, CallerInv(c), db' = db,
         pc'[c] = pc[c], req'[c] = req[c], tx'[c] = tx[c],
         pc[c] \in InTx => conn'[HandleOf[c]] = c
  PROVE  CallerInv(c)'
  BY DEF CallerInv, Staged, StagedConverged, StagedMint, FormOf, ContentKey,
     OperationRow, FingerprintOf

LEMMA CallOver ==
  ASSUME NEW c \in Callers, pc'[c] \in {"idle", "done"}
  PROVE  CallerInv(c)'
  BY DEF CallerInv, InTx

LEMMA TablesUndisturbed ==
  ASSUME TablesAgree, db' = db, minted' = minted
  PROVE  TablesAgree'
  BY DEF TablesAgree

(* A call that ends without a write. *)
LEMMA ReturnKeeps ==
  ASSUME RevisionInv, NEW c \in Callers, NEW answer, Return(c, answer),
         UNCHANGED <<db, schema, up, minted, known>>
  PROVE  RevisionInv'
<1> USE DEF RevisionInv
<1>1. pc' = [pc EXCEPT ![c] = "done"] /\ tx' = [tx EXCEPT ![c] = Empty] /\ req' = req
  BY DEF Return, Release
<1>2. conn' = [h \in Handles |-> IF conn[h] = c THEN Nil ELSE conn[h]]
  BY DEF Return, Release
<1>3. RevisionTypeOK'
  BY <1>1, <1>2, EmptyTyped DEF RevisionTypeOK
<1>4. OneWriter'
  BY <1>1 DEF OneWriter, RevisionTypeOK
<1>5. ASSUME NEW d \in Callers
      PROVE  CallerInv(d)'
  <2>1. CASE d = c
    <3>1. pc'[c] = "done"
      BY <1>1 DEF RevisionTypeOK
    <3> QED
      BY <2>1, <3>1, CallOver
  <2>2. CASE d # c
    <3>1. pc'[d] = pc[d] /\ req'[d] = req[d] /\ tx'[d] = tx[d]
      BY <1>1, <2>2 DEF RevisionTypeOK
    <3>2. pc[d] \in InTx => conn'[HandleOf[d]] = d
      BY <1>2, <2>2, RevisionConstants DEF CallerInv
    <3> QED
      BY <3>1, <3>2, CallUndisturbed
  <2> QED
    BY <2>1, <2>2
<1> QED
  BY <1>3, <1>4, <1>5, TablesUndisturbed

(* A step of one call that stays in its transaction and writes nothing. *)
LEMMA StepKeeps ==
  ASSUME RevisionInv, NEW c \in Callers, NEW step \in InTx, NEW view \in Tables,
         pc' = [pc EXCEPT ![c] = step], tx' = [tx EXCEPT ![c] = view],
         UNCHANGED <<db, schema, up, minted, known, conn, req>>,
         pc[c] \in InTx,
         step = "commit" => \A d \in Callers : pc[d] # "commit",
         CallerInv(c)'
  PROVE  RevisionInv'
<1> USE DEF RevisionInv
<1>1. RevisionTypeOK'
  BY DEF RevisionTypeOK, InTx
<1>2. OneWriter'
  BY DEF OneWriter, RevisionTypeOK
<1>3. ASSUME NEW d \in Callers, d # c
      PROVE  CallerInv(d)'
  <2>1. pc'[d] = pc[d] /\ req'[d] = req[d] /\ tx'[d] = tx[d]
    BY <1>3 DEF RevisionTypeOK
  <2>2. pc[d] \in InTx => conn'[HandleOf[d]] = d
    BY DEF CallerInv
  <2> QED
    BY <2>1, <2>2, CallUndisturbed
<1> QED
  BY <1>1, <1>2, <1>3, TablesUndisturbed

(***************************************************************************)
(* The steps of a call.                                                    *)
(***************************************************************************)
LEMMA StartKeeps ==
  ASSUME RevisionInv, NEW c \in Callers, NEW r \in Requests, Start(c, r)
  PROVE  RevisionInv'
<1> USE DEF RevisionInv
<1>1. /\ req' = [req EXCEPT ![c] = r]
      /\ UNCHANGED <<db, schema, up, conn, tx, minted>>
      /\ pc[c] = "idle"
      /\ \/ pc' = [pc EXCEPT ![c] = "done"]
         \/ /\ pc' = [pc EXCEPT ![c] = "begin"]
            /\ r.Call = "Commit" => Canonical[r.Body] # Nil
  BY DEF Start
<1>2. known' \in [Callers -> {"nothing", "content", "operation"}]
  BY DEF Start, KnownOf, RevisionTypeOK
<1>3. RevisionTypeOK'
  BY <1>1, <1>2 DEF RevisionTypeOK
<1>4. OneWriter'
  BY <1>1 DEF OneWriter, RevisionTypeOK
<1>5. CallerInv(c)'
  <2>1. CASE pc' = [pc EXCEPT ![c] = "done"]
    BY <2>1, CallOver DEF RevisionTypeOK
  <2>2. CASE pc' = [pc EXCEPT ![c] = "begin"] /\ (r.Call = "Commit" => Canonical[r.Body] # Nil)
    <3>1. pc'[c] = "begin" /\ req'[c] = r
      BY <1>1, <2>2 DEF RevisionTypeOK
    <3>2. r.Call = "Commit" => r.Body \in Bodies
      BY DEF Requests
    <3>3. r.Call = "Commit" => Canonical[r.Body] \in Forms
      BY <2>2, <3>2, RevisionConstants
    <3> QED
      BY <3>1, <3>3 DEF CallerInv, InTx, FormOf
  <2> QED
    BY <1>1, <2>1, <2>2
<1>6. ASSUME NEW d \in Callers, d # c
      PROVE  CallerInv(d)'
  <2>1. pc'[d] = pc[d] /\ req'[d] = req[d] /\ tx'[d] = tx[d]
    BY <1>1, <1>6 DEF RevisionTypeOK
  <2>2. pc[d] \in InTx => conn'[HandleOf[d]] = d
    BY <1>1 DEF CallerInv
  <2> QED
    BY <1>1, <2>1, <2>2, CallUndisturbed
<1> QED
  BY <1>1, <1>3, <1>4, <1>5, <1>6, TablesUndisturbed

LEMMA BeginKeeps ==
  ASSUME RevisionInv, NEW c \in Callers, Begin(c)
  PROVE  RevisionInv'
<1> USE DEF RevisionInv
<1>1. /\ pc[c] = "begin" /\ pc' = [pc EXCEPT ![c] = "lookup"]
      /\ conn[HandleOf[c]] = Nil /\ conn' = [conn EXCEPT ![HandleOf[c]] = c]
      /\ UNCHANGED <<db, schema, up, req, tx, minted, known>>
  BY DEF Begin, NoWrite
<1>2. HandleOf[c] \in Handles
  BY RevisionConstants
<1>3. RevisionTypeOK'
  BY <1>1, <1>2 DEF RevisionTypeOK
<1>4. OneWriter'
  BY <1>1 DEF OneWriter, RevisionTypeOK
<1>5. CallerInv(c)'
  <2>1. pc'[c] = "lookup" /\ conn'[HandleOf[c]] = c
    BY <1>1, <1>2 DEF RevisionTypeOK
  <2>2. req[c] \in Requests /\ (req[c].Call = "Commit" => FormOf(c) \in Forms)
    BY <1>1 DEF CallerInv
  <2> QED
    BY <1>1, <2>1, <2>2 DEF CallerInv, InTx, FormOf
<1>6. ASSUME NEW d \in Callers, d # c
      PROVE  CallerInv(d)'
  <2>1. pc'[d] = pc[d] /\ req'[d] = req[d] /\ tx'[d] = tx[d]
    BY <1>1, <1>6 DEF RevisionTypeOK
  <2>2. pc[d] \in InTx => conn'[HandleOf[d]] = d
    BY <1>1, <1>2, RevisionConstants DEF CallerInv, RevisionTypeOK
  <2> QED
    BY <1>1, <2>1, <2>2, CallUndisturbed
<1> QED
  BY <1>1, <1>3, <1>4, <1>5, <1>6, TablesUndisturbed

LEMMA LookupKeeps ==
  ASSUME RevisionInv, NEW c \in Callers, Lookup(c)
  PROVE  RevisionInv'
<1> USE DEF RevisionInv
<1> DEFINE step == IF db.digestIndex[ContentKey(c)] # Nil THEN "converge" ELSE "prepare"
<1>1. /\ pc[c] = "lookup" /\ req[c].Call = "Commit"
      /\ db.operations[req[c].OperationID] = Nil
      /\ tx' = [tx EXCEPT ![c] = db] /\ pc' = [pc EXCEPT ![c] = step]
      /\ UNCHANGED <<db, schema, up, minted, known, conn, req>>
  BY DEF Lookup, Goto, NoWrite
<1>2. ContentKey(c) \in Pipelines \X Forms
  BY <1>1, CommitTyped DEF InTx
<1>3. db.digestIndex[ContentKey(c)] \in RevisionIDs \cup {Nil}
  BY <1>2 DEF RevisionTypeOK, Tables
<1>4. pc'[c] = step /\ tx'[c] = db /\ db \in Tables
  BY <1>1 DEF RevisionTypeOK
<1>5. step \in {"converge", "prepare"}
  OBVIOUS
<1>6. /\ step = "converge" => db.digestIndex[ContentKey(c)] # Nil
      /\ step = "prepare" => db.digestIndex[ContentKey(c)] = Nil
  OBVIOUS
<1> HIDE DEF step
<1>7. CallerInv(c)'
  <2>1. CallerInv(c)
    OBVIOUS
  <2> QED
    BY <2>1, <1>1, <1>3, <1>4, <1>5, <1>6 DEF CallerInv, InTx, FormOf, ContentKey
<1> QED
  BY <1>1, <1>4, <1>5, <1>7, StepKeeps DEF InTx

LEMMA PrepareKeeps ==
  ASSUME RevisionInv, NEW c \in Callers, Prepare(c)
  PROVE  RevisionInv'
<1>1. CASE Return(c, Answer("REFUSED")) /\ NoWrite
  BY <1>1, ReturnKeeps DEF NoWrite
<1>2. CASE Goto(c, "mint") /\ UNCHANGED tx /\ NoWrite
  <2>1. /\ pc' = [pc EXCEPT ![c] = "mint"] /\ pc[c] = "prepare"
        /\ UNCHANGED <<db, schema, up, minted, known, conn, req>>
    BY <1>2 DEF Prepare, Goto, NoWrite
  <2>2. tx' = [tx EXCEPT ![c] = tx[c]] /\ tx[c] \in Tables /\ tx' = tx
    BY <1>2 DEF RevisionInv, RevisionTypeOK
  <2>3. CallerInv(c)'
    <3>1. CallerInv(c) /\ pc'[c] = "mint"
      BY <2>1 DEF RevisionInv, RevisionTypeOK
    <3> QED
      BY <2>1, <2>2, <3>1 DEF CallerInv, InTx, FormOf, ContentKey
  <2> QED
    BY <2>1, <2>2, <2>3, StepKeeps DEF InTx
<1> QED
  BY <1>1, <1>2 DEF Prepare

LEMMA RecordConvergedKeeps ==
  ASSUME RevisionInv, NEW c \in Callers, RecordConverged(c)
  PROVE  RevisionInv'
<1> DEFINE o == req[c].OperationID
           rev == db.digestIndex[ContentKey(c)]
           staged == [tx[c] EXCEPT !.operations[o] = OperationRow(c, rev)]
           got == Fetched(staged, <<req[c].PipelineID, rev>>)
<1>1. pc[c] = "converge" /\ MayWrite(c) /\ NoWrite
      /\ \/ Return(c, got)
         \/ Goto(c, "commit") /\ tx' = [tx EXCEPT ![c] = staged]
  BY DEF RecordConverged
<1>2. CASE Return(c, got)
  <2> HIDE DEF got
  <2> QED
    BY <1>1, <1>2, ReturnKeeps DEF NoWrite
<1>3. CASE Goto(c, "commit") /\ tx' = [tx EXCEPT ![c] = staged]
  <2>1. /\ pc' = [pc EXCEPT ![c] = "commit"] /\ req' = req /\ conn' = conn
        /\ UNCHANGED <<db, schema, up, minted, known>>
    BY <1>1, <1>3 DEF Goto, NoWrite
  <2>2. tx[c] = db /\ \A d \in Callers : pc[d] # "commit"
    BY <1>1 DEF MayWrite
  <2>3. req[c].Call = "Commit" /\ CallerInv(c)
    BY <1>1 DEF RevisionInv, CallerInv, InTx
  <2>4. /\ o \in OperationIDs /\ rev \in RevisionIDs /\ db.operations[o] = Nil
        /\ OperationRow(c, rev) \in Operation
    BY <1>1, <2>2, <2>3, CommitTyped DEF CallerInv, InTx
  <2>5. staged \in Tables
    BY <2>2, <2>4 DEF RevisionInv, RevisionTypeOK, Tables
  <2>6. pc'[c] = "commit" /\ tx'[c] = staged
    BY <1>3, <2>1 DEF RevisionInv, RevisionTypeOK
  <2>7. StagedConverged(c, rev)'
    BY <2>1, <2>2, <2>6 DEF StagedConverged, ContentKey, FormOf, OperationRow, FingerprintOf
  <2>8. Staged(c)'
    BY <2>1, <2>4, <2>7 DEF Staged, StagedConverged, ContentKey, FormOf, OperationRow,
       FingerprintOf
  <2>9. CallerInv(c)'
    BY <1>1, <2>1, <2>3, <2>6, <2>8 DEF CallerInv, InTx, FormOf
  <2> HIDE DEF staged
  <2> QED
    BY <1>1, <1>3, <2>1, <2>2, <2>5, <2>9, StepKeeps DEF InTx
<1> QED
  BY <1>1, <1>2, <1>3

LEMMA MintKeeps ==
  ASSUME RevisionInv, NEW c \in Callers, NEW rev \in RevisionIDs, Mint(c, rev)
  PROVE  RevisionInv'
<1> DEFINE o == req[c].OperationID
           k == <<req[c].PipelineID, rev>>
           staged == [tx[c] EXCEPT !.revisions[k] = RowOf(FormOf(c)),
                                   !.operations[o] = OperationRow(c, rev),
                                   !.digestIndex[ContentKey(c)] = rev]
<1>1. /\ pc[c] = "mint" /\ pc' = [pc EXCEPT ![c] = "commit"]
      /\ tx[c] = db /\ \A d \in Callers : pc[d] # "commit"
      /\ db.revisions[k] = Nil
      /\ tx' = [tx EXCEPT ![c] = staged]
      /\ UNCHANGED <<db, schema, up, minted, known, conn, req>>
  BY DEF Mint, MayWrite, Goto, NoWrite
<1>2. req[c].Call = "Commit" /\ CallerInv(c)
  BY <1>1 DEF RevisionInv, CallerInv, InTx
<1>3. /\ o \in OperationIDs /\ db.operations[o] = Nil /\ db.digestIndex[ContentKey(c)] = Nil
      /\ ContentKey(c) \in Pipelines \X Forms /\ k \in Keys
      /\ OperationRow(c, rev) \in Operation /\ RowOf(FormOf(c)) \in Row
  BY <1>1, <1>2, CommitTyped, RowTyped DEF CallerInv, InTx
<1>4. staged \in Tables
  BY <1>1, <1>3 DEF RevisionInv, RevisionTypeOK, Tables
<1>5. pc'[c] = "commit" /\ tx'[c] = staged
  BY <1>1 DEF RevisionInv, RevisionTypeOK
<1>6. StagedMint(c, rev)'
  BY <1>1, <1>3, <1>5 DEF StagedMint, ContentKey, FormOf, OperationRow, FingerprintOf
<1>7. Staged(c)'
  BY <1>1, <1>3, <1>6 DEF Staged, StagedMint, ContentKey, FormOf, OperationRow,
     FingerprintOf
<1>8. CallerInv(c)'
  BY <1>1, <1>2, <1>5, <1>7 DEF CallerInv, InTx, FormOf
<1> HIDE DEF staged
<1> QED
  BY <1>1, <1>4, <1>8, StepKeeps DEF InTx

(***************************************************************************)
(* The commit.                                                             *)
(***************************************************************************)

(* A converged commit adds one ledger row for a revision that exists. *)
LEMMA ConvergedAgree ==
  ASSUME RevisionInv, NEW c \in Callers, pc[c] = "commit", NEW rev \in RevisionIDs,
         StagedConverged(c, rev)
  PROVE  /\ db.revisions[<<req[c].PipelineID, rev>>] # Nil
         /\ tx[c].operations[req[c].OperationID].RevisionID = rev
         /\ db' = tx[c] /\ minted' = minted => TablesAgree'
<1> DEFINE o == req[c].OperationID
           p == req[c].PipelineID
           f == FormOf(c)
<1>1. /\ o \in OperationIDs /\ p \in Pipelines /\ f \in Forms /\ f # Nil
      /\ ContentKey(c) = <<p, f>>
  BY CommitTyped DEF RevisionInv, CallerInv, InTx
<1>2. minted[<<p, rev>>] = f
  BY <1>1 DEF RevisionInv, TablesAgree, StagedConverged
<1>3. db.revisions[<<p, rev>>] # Nil
  BY <1>1, <1>2 DEF RevisionInv, TablesAgree, Keys
<1>4. tx[c] = [db EXCEPT !.operations[o] = OperationRow(c, rev)]
  BY DEF StagedConverged
<1>5. tx[c].operations[o] = OperationRow(c, rev)
  BY <1>1, <1>4 DEF RevisionInv, RevisionTypeOK, Tables
<1>6. /\ OperationRow(c, rev).RevisionID = rev
      /\ OperationRow(c, rev).Fingerprint = RequestFingerprint(p, f)
  BY DEF OperationRow, FingerprintOf
<1>7. ASSUME db' = tx[c], minted' = minted
      PROVE  TablesAgree'
  <2>1. /\ db'.revisions = db.revisions /\ db'.digestIndex = db.digestIndex
        /\ db'.operations = [db.operations EXCEPT ![o] = OperationRow(c, rev)]
    BY <1>4, <1>7 DEF RevisionInv, RevisionTypeOK, Tables
  <2>2. ASSUME NEW q \in OperationIDs, db'.operations[q] # Nil
        PROVE  \E p2 \in Pipelines, f2 \in Forms :
                 /\ db'.operations[q].Fingerprint = RequestFingerprint(p2, f2)
                 /\ minted[<<p2, db'.operations[q].RevisionID>>] = f2
    <3>1. CASE q = o
      <4>1. db'.operations[q] = OperationRow(c, rev)
        BY <1>5, <1>7, <3>1
      <4> HIDE DEF p, f
      <4> QED
        BY <4>1, <1>1, <1>2, <1>6
    <3>2. CASE q # o
      <4>1. db'.operations[q] = db.operations[q]
        BY <2>1, <2>2, <3>2 DEF RevisionInv, RevisionTypeOK, Tables
      <4> QED
        BY <4>1, <2>2 DEF RevisionInv, TablesAgree
    <3> QED
      BY <3>1, <3>2
  <2> QED
    BY <1>7, <2>1, <2>2 DEF RevisionInv, TablesAgree
<1> QED
  BY <1>3, <1>5, <1>6, <1>7

(* A minting commit adds one row to each table, for a body that had none. *)
LEMMA MintAgree ==
  ASSUME RevisionInv, NEW c \in Callers, pc[c] = "commit", NEW rev \in RevisionIDs,
         StagedMint(c, rev)
  PROVE  /\ tx[c].operations[req[c].OperationID].RevisionID = rev
         /\ db' = tx[c] /\ minted' = [minted EXCEPT ![<<req[c].PipelineID, rev>>] = FormOf(c)]
              => TablesAgree'
<1> DEFINE o == req[c].OperationID
           p == req[c].PipelineID
           f == FormOf(c)
           k == <<p, rev>>
<1>1. /\ o \in OperationIDs /\ p \in Pipelines /\ f \in Forms /\ f # Nil
      /\ ContentKey(c) = <<p, f>> /\ k \in Keys
  BY CommitTyped DEF RevisionInv, CallerInv, InTx
<1>2. db.digestIndex[<<p, f>>] = Nil /\ db.revisions[k] = Nil /\ minted[k] = Nil
  BY <1>1 DEF StagedMint, RevisionInv, TablesAgree
<1>3. tx[c] = [db EXCEPT !.revisions[k] = RowOf(f), !.operations[o] = OperationRow(c, rev),
                         !.digestIndex[<<p, f>>] = rev]
  BY <1>1 DEF StagedMint
<1>4. /\ tx[c].revisions = [db.revisions EXCEPT ![k] = RowOf(f)]
      /\ tx[c].operations = [db.operations EXCEPT ![o] = OperationRow(c, rev)]
      /\ tx[c].digestIndex = [db.digestIndex EXCEPT ![<<p, f>>] = rev]
  BY <1>3 DEF RevisionInv, RevisionTypeOK, Tables
<1>5. tx[c].operations[o] = OperationRow(c, rev)
  BY <1>1, <1>4 DEF RevisionInv, RevisionTypeOK, Tables
<1>6. /\ OperationRow(c, rev).RevisionID = rev
      /\ OperationRow(c, rev).Fingerprint = RequestFingerprint(p, f)
  BY DEF OperationRow, FingerprintOf
<1>7. ASSUME db' = tx[c], minted' = [minted EXCEPT ![k] = f]
      PROVE  TablesAgree'
  <2>1. \A j \in Keys : minted'[j] = IF j = k THEN f ELSE minted[j]
    BY <1>7 DEF RevisionInv, RevisionTypeOK
  <2>2. ASSUME NEW j \in Keys
        PROVE  (db'.revisions[j] = Nil) = (minted'[j] = Nil)
    <3>1. db'.revisions[j] = IF j = k THEN RowOf(f) ELSE db.revisions[j]
      BY <1>4, <1>7 DEF RevisionInv, RevisionTypeOK, Tables
    <3> QED
      BY <3>1, <2>1, <1>1, RowTyped DEF RevisionInv, TablesAgree
  <2>3. ASSUME NEW p2 \in Pipelines, NEW f2 \in Forms, NEW r2 \in RevisionIDs
        PROVE  db'.digestIndex[<<p2, f2>>] = r2 <=> minted'[<<p2, r2>>] = f2
    <3>1. db'.digestIndex[<<p2, f2>>] =
            IF p2 = p /\ f2 = f THEN rev ELSE db.digestIndex[<<p2, f2>>]
      BY <1>1, <1>4, <1>7 DEF RevisionInv, RevisionTypeOK, Tables
    <3>2. minted'[<<p2, r2>>] = IF p2 = p /\ r2 = rev THEN f ELSE minted[<<p2, r2>>]
      BY <2>1 DEF Keys
    <3>3. db.digestIndex[<<p2, f2>>] = r2 <=> minted[<<p2, r2>>] = f2
      BY DEF RevisionInv, TablesAgree
    <3>4. f2 # Nil /\ r2 # Nil
      BY RevisionConstants
    <3> HIDE DEF p, f
    <3> QED
      BY <3>1, <3>2, <3>3, <3>4, <1>2
  <2>4. ASSUME NEW q \in OperationIDs, db'.operations[q] # Nil
        PROVE  \E p2 \in Pipelines, f2 \in Forms :
                 /\ db'.operations[q].Fingerprint = RequestFingerprint(p2, f2)
                 /\ minted'[<<p2, db'.operations[q].RevisionID>>] = f2
    <3>1. CASE q = o
      <4>1. db'.operations[q] = OperationRow(c, rev) /\ minted'[k] = f
        BY <1>1, <1>5, <1>7, <2>1, <3>1
      <4> QED
        BY <4>1, <1>1, <1>6
    <3>2. CASE q # o
      <4>1. db'.operations[q] = db.operations[q]
        BY <1>4, <1>7, <3>2 DEF RevisionInv, RevisionTypeOK, Tables
      <4>2. PICK p2 \in Pipelines, f2 \in Forms :
              /\ db.operations[q].Fingerprint = RequestFingerprint(p2, f2)
              /\ minted[<<p2, db.operations[q].RevisionID>>] = f2
        BY <4>1, <2>4 DEF RevisionInv, TablesAgree
      <4>3. db.operations[q].RevisionID \in RevisionIDs
        BY <4>1, <2>4 DEF RevisionInv, RevisionTypeOK, Tables, Operation
      <4> DEFINE j == <<p2, db.operations[q].RevisionID>>
      <4>5. j \in Keys /\ minted[j] = f2 /\ f2 # Nil
        BY <4>2, <4>3, RevisionConstants DEF Keys
      <4>4. minted'[<<p2, db.operations[q].RevisionID>>] = f2
        <5> HIDE DEF j, k
        <5>1. minted'[j] = f2
          BY ONLY <4>5, <2>1, <1>2
        <5> QED
          BY <5>1 DEF j
      <4> QED
        BY <4>1, <4>2, <4>4
    <3> QED
      BY <3>1, <3>2
  <2> QED
    BY <2>2, <2>3, <2>4 DEF TablesAgree
<1> QED
  BY <1>1, <1>5, <1>6, <1>7

LEMMA TxCommitKeeps ==
  ASSUME RevisionInv, NEW c \in Callers, TxCommit(c)
  PROVE  RevisionInv'
<1> DEFINE o == req[c].OperationID
           p == req[c].PipelineID
           f == FormOf(c)
<1>1. pc[c] = "commit" /\ Staged(c) /\ db' = tx[c] /\ UNCHANGED <<schema, up, known>>
  BY DEF TxCommit, RevisionInv, CallerInv
<1>2. PICK rev \in RevisionIDs : StagedConverged(c, rev) \/ StagedMint(c, rev)
  BY <1>1 DEF Staged
<1>3. p \in Pipelines /\ f \in Forms /\ <<p, rev>> \in Keys
  BY <1>1, CommitTyped DEF RevisionInv, CallerInv, InTx
<1>4. tx[c].operations[o].RevisionID = rev
  BY <1>1, <1>2, ConvergedAgree, MintAgree
<1>5. minted' = IF db.revisions[<<p, rev>>] = Nil
                  THEN [minted EXCEPT ![<<p, rev>>] = f] ELSE minted
  BY <1>4 DEF TxCommit
<1>6. TablesAgree'
  <2>1. CASE StagedConverged(c, rev)
    BY <1>1, <1>5, <2>1, ConvergedAgree
  <2>2. CASE StagedMint(c, rev)
    <3>1. db.revisions[<<p, rev>>] = Nil
      BY <2>2 DEF StagedMint
    <3> QED
      BY <1>1, <1>5, <2>2, <3>1, MintAgree
  <2> QED
    BY <1>2, <2>1, <2>2
<1>7. /\ pc' = [pc EXCEPT ![c] = "done"] /\ tx' = [tx EXCEPT ![c] = Empty] /\ req' = req
      /\ conn' = [h \in Handles |-> IF conn[h] = c THEN Nil ELSE conn[h]]
  BY DEF TxCommit, Return, Release
<1>8. RevisionTypeOK'
  <2>1. minted' \in [Keys -> Forms \cup {Nil}]
    BY <1>3, <1>5 DEF RevisionInv, RevisionTypeOK
  <2>2. db' \in Tables
    BY <1>1 DEF RevisionInv, RevisionTypeOK
  <2> QED
    BY <1>1, <1>7, <2>1, <2>2, EmptyTyped DEF RevisionInv, RevisionTypeOK
<1>9. ASSUME NEW d \in Callers, d # c
      PROVE  /\ pc[d] # "commit" /\ pc'[d] = pc[d] /\ req'[d] = req[d] /\ tx'[d] = tx[d]
             /\ pc[d] \in InTx => conn'[HandleOf[d]] = d
  BY <1>1, <1>7, <1>9, RevisionConstants
     DEF RevisionInv, RevisionTypeOK, OneWriter, CallerInv
<1>10. pc'[c] = "done"
  BY <1>7 DEF RevisionInv, RevisionTypeOK
<1>11. OneWriter'
  BY <1>9, <1>10 DEF OneWriter
<1>12. ASSUME NEW d \in Callers
       PROVE  CallerInv(d)'
  <2>1. CASE d = c
    BY <1>10, <2>1, CallOver
  <2>2. CASE d # c
    <3>1. CallerInv(d)
      BY DEF RevisionInv
    <3> QED
      BY <1>9, <2>2, <3>1 DEF CallerInv, InTx, FormOf, ContentKey
  <2> QED
    BY <2>1, <2>2
<1> QED
  BY <1>6, <1>8, <1>11, <1>12, SMTT(30) DEF RevisionInv

LEMMA FinishKeeps ==
  ASSUME RevisionInv, NEW c \in Callers, Finish(c)
  PROVE  RevisionInv'
<1> USE DEF RevisionInv
<1>1. /\ pc' = [pc EXCEPT ![c] = "idle"] /\ req' = [req EXCEPT ![c] = Nil]
      /\ known' = [known EXCEPT ![c] = "nothing"]
      /\ UNCHANGED <<db, schema, up, conn, tx, minted>>
  BY DEF Finish
<1>2. RevisionTypeOK'
  BY <1>1 DEF RevisionTypeOK
<1>3. OneWriter'
  BY <1>1 DEF OneWriter, RevisionTypeOK
<1>4. ASSUME NEW d \in Callers
      PROVE  CallerInv(d)'
  <2>1. CASE d = c
    <3>1. pc'[c] = "idle"
      BY <1>1 DEF RevisionTypeOK
    <3> QED
      BY <2>1, <3>1, CallOver
  <2>2. CASE d # c
    <3>1. pc'[d] = pc[d] /\ req'[d] = req[d] /\ tx'[d] = tx[d]
      BY <1>1, <2>2 DEF RevisionTypeOK
    <3>2. pc[d] \in InTx => conn'[HandleOf[d]] = d
      BY <1>1 DEF CallerInv
    <3> QED
      BY <1>1, <3>1, <3>2, CallUndisturbed
  <2> QED
    BY <2>1, <2>2
<1> QED
  BY <1>1, <1>2, <1>3, <1>4, TablesUndisturbed

(***************************************************************************)
(* Handles and rows.                                                       *)
(***************************************************************************)
LEMMA CrashKeeps ==
  ASSUME RevisionInv, NEW h \in Handles, Crash(h)
  PROVE  RevisionInv'
<1> USE DEF RevisionInv
<1>1. RevisionTypeOK'
  BY EmptyTyped DEF Crash, RevisionTypeOK
<1>2. OneWriter'
  BY DEF Crash, OneWriter, RevisionTypeOK
<1>3. ASSUME NEW d \in Callers
      PROVE  CallerInv(d)'
  <2>1. CASE HandleOf[d] = h
    <3>1. pc'[d] = "idle"
      BY <2>1 DEF Crash
    <3> QED
      BY <3>1, CallOver
  <2>2. CASE HandleOf[d] # h
    <3>1. db' = db /\ pc'[d] = pc[d] /\ req'[d] = req[d] /\ tx'[d] = tx[d]
      BY <2>2 DEF Crash
    <3>2. pc[d] \in InTx => conn'[HandleOf[d]] = d
      BY <2>2 DEF Crash, CallerInv, RevisionTypeOK
    <3> QED
      BY <3>1, <3>2, CallUndisturbed
  <2> QED
    BY <2>1, <2>2
<1> QED
  BY <1>1, <1>2, <1>3, TablesUndisturbed DEF Crash

LEMMA OpenKeeps ==
  ASSUME RevisionInv, NEW h \in Handles, CreateTable(h) \/ Open(h)
  PROVE  RevisionInv'
<1> USE DEF RevisionInv
<1>1. UNCHANGED <<db, callVars, minted, known>>
  BY DEF CreateTable, Open
<1>2. RevisionTypeOK'
  BY <1>1 DEF RevisionTypeOK, callVars, CreateTable, Open
<1>3. OneWriter'
  BY <1>1 DEF OneWriter, callVars
<1>4. \A d \in Callers : CallerInv(d)'
  BY <1>1, CallUndisturbed DEF callVars, CallerInv
<1> QED
  BY <1>1, <1>2, <1>3, <1>4, TablesUndisturbed

(* Damage happens to a row, between transactions, and leaves a row. *)
LEMMA DamageRowKeeps ==
  ASSUME RevisionInv, NEW k \in Keys, NEW d \in Damage, DamageRow(k, d)
  PROVE  RevisionInv'
<1> USE DEF RevisionInv
<1> DEFINE row == [db.revisions[k] EXCEPT ![d.Column] = d.Value]
<1>1. /\ db.revisions[k] # Nil /\ \A h \in Handles : conn[h] = Nil
      /\ db' = [db EXCEPT !.revisions[k] = row]
      /\ UNCHANGED <<schema, up, conn, pc, req, reply, tx, minted, known>>
  BY DEF DamageRow, Intact, callVars
<1>2. db.revisions[k] \in Row
  BY <1>1 DEF RevisionTypeOK, Tables
<1>3. row \in Row /\ row # Nil
  BY <1>2, DamageIsInARow, NoRowIsNil
<1> HIDE DEF row
<1>4. /\ db'.operations = db.operations /\ db'.digestIndex = db.digestIndex
      /\ db'.revisions = [db.revisions EXCEPT ![k] = row]
  BY <1>1 DEF RevisionTypeOK, Tables
<1>5. RevisionTypeOK'
  BY <1>1, <1>3 DEF RevisionTypeOK, Tables
<1>6. TablesAgree'
  <2>1. \A j \in Keys : (db'.revisions[j] = Nil) = (db.revisions[j] = Nil)
    BY <1>1, <1>3, <1>4 DEF RevisionTypeOK, Tables
  <2> QED
    BY <1>1, <1>4, <2>1 DEF TablesAgree
<1>7. OneWriter'
  BY <1>1 DEF OneWriter
<1>8. ASSUME NEW c \in Callers
      PROVE  CallerInv(c)'
  <2>1. pc[c] \notin InTx
    BY <1>1, RevisionConstants DEF CallerInv
  <2> QED
    BY <1>1, <2>1 DEF CallerInv, InTx, FormOf
<1> QED
  BY <1>5, <1>6, <1>7, <1>8

(***************************************************************************)
(* The inductive invariant.                                                *)
(***************************************************************************)
LEMMA InitInv == Init => RevisionInv
<1> SUFFICES ASSUME Init PROVE RevisionInv
  OBVIOUS
<1>1. RevisionTypeOK
  BY EmptyTyped DEF Init, RevisionTypeOK
<1>2. OneWriter /\ \A c \in Callers : CallerInv(c)
  BY DEF Init, OneWriter, CallerInv, InTx
<1>3. TablesAgree
  BY RevisionConstants DEF Init, Empty, TablesAgree, Keys
<1> QED
  BY <1>1, <1>2, <1>3 DEF RevisionInv

LEMMA AdvanceKeeps ==
  ASSUME RevisionInv, NEW c \in Callers, Advance(c)
  PROVE  RevisionInv'
<1>1. CASE GetRevision(c)
  <2>1. Return(c, Fetched(db, req[c].Key)) /\ NoWrite
    BY <1>1 DEF GetRevision
  <2> QED
    BY <2>1, ReturnKeeps DEF NoWrite
<1>2. CASE ReplayOrConflict(c)
  <2>1. \E answer : Return(c, answer)
    BY <1>2 DEF ReplayOrConflict
  <2>2. UNCHANGED <<db, schema, up, minted, known>>
    BY <1>2 DEF ReplayOrConflict
  <2> QED
    BY <2>1, <2>2, ReturnKeeps
<1>3. CASE Lookup(c)
  BY <1>3, LookupKeeps
<1>4. CASE Prepare(c)
  BY <1>4, PrepareKeeps
<1>5. CASE RecordConverged(c)
  BY <1>5, RecordConvergedKeeps
<1>6. ASSUME NEW rev \in RevisionIDs, Mint(c, rev)
      PROVE  RevisionInv'
  BY <1>6, MintKeeps
<1>7. CASE TxCommit(c)
  BY <1>7, TxCommitKeeps
<1>8. CASE Fail(c)
  BY <1>8, ReturnKeeps DEF Fail, NoWrite
<1> QED
  BY <1>1, <1>2, <1>3, <1>4, <1>5, <1>6, <1>7, <1>8 DEF Advance

LEMMA RevisionStep == RevisionInv /\ [Next]_vars => RevisionInv'
<1> SUFFICES ASSUME RevisionInv, [Next]_vars
             PROVE  RevisionInv'
  OBVIOUS
<1>1. ASSUME NEW h \in Handles, CreateTable(h) \/ Open(h) \/ Crash(h)
      PROVE  RevisionInv'
  BY <1>1, OpenKeeps, CrashKeeps
<1>2. ASSUME NEW k \in Keys, NEW d \in Damage, DamageRow(k, d)
      PROVE  RevisionInv'
  BY <1>2, DamageRowKeeps
<1>3. ASSUME NEW c \in Callers, NEW r \in Requests, Start(c, r)
      PROVE  RevisionInv'
  BY <1>3, StartKeeps
<1>4. ASSUME NEW c \in Callers, Begin(c) \/ Advance(c) \/ Finish(c)
      PROVE  RevisionInv'
  BY <1>4, BeginKeeps, AdvanceKeeps, FinishKeeps
<1>5. CASE UNCHANGED vars
  <2>1. UNCHANGED <<db, schema, up, conn, pc, req, tx, minted, known>>
    BY <1>5 DEF vars, callVars
  <2>2. \A c \in Callers : CallerInv(c)'
    BY <2>1, CallUndisturbed DEF RevisionInv, CallerInv
  <2> QED
    BY <2>1, <2>2 DEF RevisionInv, RevisionTypeOK, TablesAgree, OneWriter
<1> QED
  BY <1>1, <1>2, <1>3, <1>4, <1>5 DEF Next

(* Every reachable state of the revision store is well typed. *)
THEOREM RevisionTypeCorrect == Spec => []RevisionTypeOK
<1>1. RevisionInv => RevisionTypeOK
  BY DEF RevisionInv
<1> QED
  BY <1>1, InitInv, RevisionStep, PTL DEF Spec

(* Commit's three tables agree, for any number of processes and goroutines:
   no crash, failure, refusal or race leaves a ledger row without its
   revision, a revision the index does not name, or two for one body.      *)
THEOREM RevisionTablesAgree == Spec => []TablesAgree
<1>1. RevisionInv => TablesAgree
  BY DEF RevisionInv
<1> QED
  BY <1>1, InitInv, RevisionStep, PTL DEF Spec

(***************************************************************************)
(* Acknowledged commits.                                                   *)
(***************************************************************************)
Ack(o, key, rev, created) ==
  [OperationID |-> o, Key |-> key, RevisionID |-> rev, Created |-> created]
Acks ==
  [OperationID : OperationIDs, Key : Pipelines \X Forms, RevisionID : RevisionIDs,
   Created : BOOLEAN]

Bound(a) ==
  db.operations[a.OperationID] =
    [RevisionID |-> a.RevisionID, Fingerprint |-> RequestFingerprint(a.Key[1], a.Key[2])]

AckInv ==
  \A a \in acked :
    /\ a \in Acks /\ Bound(a)
    /\ \A b \in acked : a.Created /\ b.Created /\ a.Key = b.Key => a = b

(* A bound operation's body is in the digest index, and its row exists. *)
LEMMA BoundIndexed ==
  ASSUME RevisionInv, NEW a \in Acks, Bound(a)
  PROVE  /\ db.digestIndex[a.Key] = a.RevisionID
         /\ db.revisions[<<a.Key[1], a.RevisionID>>] # Nil
<1>1. /\ a.OperationID \in OperationIDs /\ a.RevisionID \in RevisionIDs
      /\ a.Key[1] \in Pipelines /\ a.Key[2] \in Forms /\ a.Key = <<a.Key[1], a.Key[2]>>
  BY DEF Acks
<1>2. /\ db.operations[a.OperationID].RevisionID = a.RevisionID
      /\ db.operations[a.OperationID].Fingerprint = RequestFingerprint(a.Key[1], a.Key[2])
  BY DEF Bound
<1>3. db.operations[a.OperationID] # Nil
  <2>1. db.operations[a.OperationID] \in Operation
    BY <1>1 DEF Bound, Operation
  <2> QED
    BY <2>1, NoRowIsNil
<1>4. PICK p \in Pipelines, f \in Forms :
        /\ RequestFingerprint(a.Key[1], a.Key[2]) = RequestFingerprint(p, f)
        /\ minted[<<p, a.RevisionID>>] = f
  BY <1>1, <1>2, <1>3 DEF RevisionInv, TablesAgree
<1>5. p = a.Key[1] /\ f = a.Key[2]
  BY <1>4 DEF RequestFingerprint, DigestCanonical
<1>6. minted[<<a.Key[1], a.RevisionID>>] = a.Key[2] /\ a.Key[2] # Nil
  BY <1>1, <1>4, <1>5, RevisionConstants
<1> QED
  BY <1>1, <1>6 DEF RevisionInv, TablesAgree, Keys

LEMMA AckReplay ==
  ASSUME RevisionInv, AckInv, NEW c \in Callers, ReplayOrConflict(c)
  PROVE  AckInv'
<1> DEFINE o == req[c].OperationID
           op == db.operations[o]
           new == Ack(o, ContentKey(c), op.RevisionID, FALSE)
<1>1. /\ db' = db /\ pc[c] = "lookup" /\ req[c].Call = "Commit" /\ op # Nil
      /\ acked' = acked \/ (op.Fingerprint = FingerprintOf(c) /\ acked' = acked \cup {new})
  BY DEF ReplayOrConflict, Ack
<1>2. CASE acked' = acked
  BY <1>1, <1>2 DEF AckInv, Bound
<1>3. CASE op.Fingerprint = FingerprintOf(c) /\ acked' = acked \cup {new}
  <2>1. /\ o \in OperationIDs /\ ContentKey(c) \in Pipelines \X Forms
        /\ ContentKey(c) = <<req[c].PipelineID, FormOf(c)>>
    BY <1>1, CommitTyped DEF RevisionInv, InTx
  <2>2. op \in Operation
    BY <1>1, <2>1 DEF RevisionInv, RevisionTypeOK, Tables
  <2>3. new \in Acks /\ new.Created = FALSE
    BY <2>1, <2>2 DEF Acks, Ack, Operation
  <2>4. Bound(new)
    BY <1>3, <2>1, <2>2 DEF Bound, Ack, Operation, FingerprintOf
  <2> HIDE DEF new
  <2> QED
    BY <1>1, <1>3, <2>3, <2>4 DEF AckInv, Bound
<1> QED
  BY <1>1, <1>2, <1>3

LEMMA AckCommit ==
  ASSUME RevisionInv, AckInv, NEW c \in Callers, TxCommit(c)
  PROVE  AckInv'
<1> DEFINE o == req[c].OperationID
           p == req[c].PipelineID
<1>1. pc[c] = "commit" /\ Staged(c) /\ db' = tx[c]
  BY DEF TxCommit, RevisionInv, CallerInv
<1>2. PICK rev \in RevisionIDs : StagedConverged(c, rev) \/ StagedMint(c, rev)
  BY <1>1 DEF Staged
<1>3. /\ o \in OperationIDs /\ ContentKey(c) = <<p, FormOf(c)>>
      /\ ContentKey(c) \in Pipelines \X Forms
      /\ req[c].Call = "Commit"
  BY <1>1, CommitTyped DEF RevisionInv, CallerInv, InTx
<1>4. tx[c].operations[o].RevisionID = rev
  BY <1>1, <1>2, ConvergedAgree, MintAgree
<1> DEFINE created == db.revisions[<<p, rev>>] = Nil
           new == Ack(o, ContentKey(c), rev, created)
<1>5. acked' = acked \cup {new}
  BY <1>4 DEF TxCommit, Ack
<1>6. db'.operations = [db.operations EXCEPT ![o] = OperationRow(c, rev)]
  BY <1>1, <1>2 DEF StagedConverged, StagedMint, RevisionInv, RevisionTypeOK, Tables
<1>7. created \in BOOLEAN
  OBVIOUS
<1>8. created => db.digestIndex[ContentKey(c)] = Nil
  BY <1>1, <1>2, ConvergedAgree DEF StagedMint
<1> HIDE DEF created
<1>9. PICK ack \in Acks : /\ ack = new
                          /\ ack.OperationID = o /\ ack.Key = ContentKey(c)
                          /\ ack.RevisionID = rev /\ ack.Created = created
  <2>1. new \in Acks
    BY <1>3, <1>7 DEF Acks, Ack
  <2> QED
    BY <2>1 DEF Ack
<1> HIDE DEF new
<1>10. Bound(ack)'
  <2>1. db'.operations[o] = OperationRow(c, rev)
    BY <1>3, <1>6 DEF RevisionInv, RevisionTypeOK, Tables
  <2>2. OperationRow(c, rev) =
          [RevisionID |-> rev, Fingerprint |-> RequestFingerprint(p, FormOf(c))]
    BY DEF OperationRow, FingerprintOf
  <2>3. ack.Key[1] = p /\ ack.Key[2] = FormOf(c)
    BY <1>3, <1>9
  <2> QED
    BY <2>1, <2>2, <2>3, <1>9 DEF Bound
<1>11. ASSUME NEW a \in acked
       PROVE  a \in Acks /\ Bound(a)' /\ ~(a.Created /\ ack.Created /\ a.Key = ack.Key)
  <2>1. a \in Acks /\ Bound(a)
    BY DEF AckInv
  <2>2. a.OperationID # o
    <3>1. db.operations[o] = Nil
      BY <1>1 DEF Staged
    <3>2. db.operations[a.OperationID] \in Operation
      BY <2>1 DEF Bound, Acks, Operation
    <3> QED
      BY <3>1, <3>2, NoRowIsNil
  <2>3. Bound(a)'
    BY <1>6, <2>1, <2>2 DEF Bound, Acks, RevisionInv, RevisionTypeOK, Tables
  <2>4. db.digestIndex[a.Key] = a.RevisionID /\ a.RevisionID # Nil
    BY <2>1, BoundIndexed, RevisionConstants DEF Acks
  <2> QED
    BY <2>1, <2>3, <2>4, <1>8, <1>9
<1>12. acked' = acked \cup {ack}
  BY <1>5, <1>9
<1>13. \A a, b \in acked : a.Created /\ b.Created /\ a.Key = b.Key => a = b
  BY DEF AckInv
<1>14. ASSUME NEW a \in acked', NEW b \in acked', a.Created, b.Created, a.Key = b.Key
       PROVE  a = b
  BY <1>11, <1>12, <1>13, <1>14
<1>15. \A a \in acked' : a \in Acks /\ Bound(a)'
  BY <1>10, <1>11, <1>12
<1>16. \A a, b \in acked' : a.Created /\ b.Created /\ a.Key = b.Key => a = b
  BY ONLY <1>14
<1> QED
  BY <1>15, <1>16, SMTT(30) DEF AckInv

LEMMA AckStep == RevisionInv /\ AckInv /\ [Next]_vars => AckInv'
<1> SUFFICES ASSUME RevisionInv, AckInv, [Next]_vars
             PROVE  AckInv'
  OBVIOUS
<1>1. ASSUME db'.operations = db.operations, acked' = acked
      PROVE  AckInv'
  BY <1>1 DEF AckInv, Bound
<1>2. ASSUME NEW h \in Handles, CreateTable(h) \/ Open(h) \/ Crash(h)
      PROVE  AckInv'
  BY <1>1, <1>2 DEF CreateTable, Open, Crash
<1>3. ASSUME NEW k \in Keys, NEW d \in Damage, DamageRow(k, d)
      PROVE  AckInv'
  BY <1>1, <1>3 DEF DamageRow, RevisionInv, RevisionTypeOK, Tables
<1>4. ASSUME NEW c \in Callers, NEW r \in Requests, Start(c, r)
      PROVE  AckInv'
  BY <1>1, <1>4 DEF Start
<1>5. ASSUME NEW c \in Callers, Begin(c) \/ Finish(c)
      PROVE  AckInv'
  BY <1>1, <1>5 DEF Begin, Finish, NoWrite
<1>6. ASSUME NEW c \in Callers, Advance(c)
      PROVE  AckInv'
  <2>1. CASE ReplayOrConflict(c)
    BY <2>1, AckReplay
  <2>2. CASE TxCommit(c)
    BY <2>2, AckCommit
  <2>3. CASE \/ GetRevision(c) \/ Lookup(c) \/ Prepare(c) \/ RecordConverged(c)
             \/ (\E rev \in RevisionIDs : Mint(c, rev)) \/ Fail(c)
    <3>1. NoWrite
      BY <2>3 DEF GetRevision, Lookup, Prepare, RecordConverged, Mint, Fail
    <3> QED
      BY <3>1, <1>1 DEF NoWrite
  <2> QED
    BY <1>6, <2>1, <2>2, <2>3 DEF Advance
<1>7. CASE UNCHANGED vars
  BY <1>1, <1>7 DEF vars
<1> QED
  BY <1>2, <1>3, <1>4, <1>5, <1>6, <1>7 DEF Next

(* What Commit has acknowledged is never undone or rebound, and no body is
   ever reported as created twice, across any crashes and any other process
   on the file.                                                            *)
THEOREM RevisionAcksDurable == Spec => []AcknowledgedIsDurable
<1>1. Init => AckInv
  BY DEF Init, AckInv
<1>2. RevisionInv /\ AckInv => AcknowledgedIsDurable
  <2> SUFFICES ASSUME RevisionInv, AckInv, NEW a \in acked
               PROVE  /\ Bound(a) /\ db.revisions[<<a.Key[1], a.RevisionID>>] # Nil
                      /\ \A b \in acked : a.Created /\ b.Created /\ a.Key = b.Key => a = b
    BY DEF AcknowledgedIsDurable, Bound
  <2> QED
    BY BoundIndexed DEF AckInv
<1> QED
  BY <1>1, <1>2, InitInv, RevisionStep, AckStep, PTL DEF Spec

(***************************************************************************)
(* The refinement.                                                         *)
(***************************************************************************)

(* What the mapping needs to know beyond the tables' agreement. *)

(* A stored row that loads is the one that was minted. *)
RowsGood == \A k \in Keys : Load(db, k) = "FOUND" => db.revisions[k] = RowOf(minted[k])

(* What was committed of a request when the call began, still is. *)
KnownStays(c) ==
  pc[c] \in InTx \cup {"begin"} /\ req[c].Call = "Commit" /\ known[c] # "nothing" =>
    db.digestIndex[ContentKey(c)] # Nil

(* The resolvers are asked about what was new at the beginning of the call. *)
AsksOfNew(c) == pc[c] = "prepare" => known[c] = "nothing"

(* What a convergence has read cannot go bad before it commits. *)
ConvergesOnGood(c) ==
  pc[c] = "commit" =>
    \A rev \in RevisionIDs :
      StagedConverged(c, rev) => Load(db, <<req[c].PipelineID, rev>>) = "FOUND"

MapInv ==
  /\ RowsGood
  /\ reply = [c \in Callers |-> reply[c]]
  /\ \A c \in Callers : KnownStays(c) /\ AsksOfNew(c) /\ ConvergesOnGood(c)

(***************************************************************************)
(* Steps of the promise.                                                   *)
(***************************************************************************)
LEMMA CallStands ==
  ASSUME NEW d \in Callers, pc'[d] = pc[d], req'[d] = req[d], reply'[d] = reply[d],
         known'[d] = known[d]
  PROVE  CallOf(d)' = CallOf(d)
  BY DEF CallOf, IsCall, FormOf, ContentKey, RequestOf, AnswerOf, ContentIn

LEMMA CallsStand ==
  ASSUME \A d \in Callers : CallOf(d)' = CallOf(d)
  PROVE  Calls' = Calls
  BY DEF Calls

LEMMA OneCallMoves ==
  ASSUME NEW c \in Callers, \A d \in Callers \ {c} : CallOf(d)' = CallOf(d)
  PROVE  Calls' = [Calls EXCEPT ![c] = CallOf(c)']
  BY DEF Calls

(* Tables that stay as they are leave the ledger as it is. *)
LEMMA LedgerStands ==
  ASSUME db' = db
  PROVE  UNCHANGED Promise!ledger
  BY DEF Promise!ledger, Bindings, Broken, Load

(* A call that returns is answered with what it returns. *)
LEMMA ReturnReplies ==
  ASSUME RevisionTypeOK, MapInv, NEW c \in Callers, NEW answer, Return(c, answer), known' = known,
         pc[c] \notin {"idle", "done"}, IsCall(c)
  PROVE  Promise!Reply(c, answer.Outcome, answer.RevisionID, ContentIn(answer.Row))
<1>1. /\ pc' = [pc EXCEPT ![c] = "done"] /\ reply' = [reply EXCEPT ![c] = answer]
      /\ req' = req /\ known' = known
  BY DEF Return
<1>2. \A d \in Callers \ {c} : pc'[d] = pc[d] /\ req'[d] = req[d] /\ reply'[d] = reply[d]
                               /\ known'[d] = known[d]
  BY <1>1 DEF RevisionTypeOK, MapInv
<1>3. \A d \in Callers \ {c} : CallOf(d)' = CallOf(d)
  BY <1>2, CallStands
<1>4. pc'[c] = "done" /\ reply'[c] = answer /\ req'[c] = req[c] /\ known'[c] = known[c]
  BY <1>1 DEF RevisionTypeOK, MapInv
<1>5. IsCall(c)' /\ RequestOf(c)' = RequestOf(c)
  BY <1>4 DEF IsCall, FormOf, RequestOf, ContentKey
<1>6. AnswerOf(reply[c])' = AnswerOf(answer)
  BY <1>4 DEF AnswerOf, ContentIn
<1> DEFINE new == req[c].Call = "Commit" /\ known[c] = "nothing"
<1>7. CallOf(c) = [State |-> "asked", Request |-> RequestOf(c), New |-> new, Answer |-> Nil]
  BY DEF CallOf
<1>8. CallOf(c)' = [State |-> "answered", Request |-> RequestOf(c), New |-> new,
                    Answer |-> AnswerOf(answer)]
  BY <1>4, <1>5, <1>6 DEF CallOf
<1>9. /\ CallOf(c).Request = RequestOf(c) /\ CallOf(c).New = new
  <2> HIDE DEF new
  <2> QED
    BY <1>7
<1>10. Calls' = [Calls EXCEPT ![c] = CallOf(c)']
  BY <1>3, OneCallMoves
<1>11. Calls[c] = CallOf(c)
  BY DEF Calls
<1>12. Calls' = [Calls EXCEPT ![c] =
          [State |-> "answered", Request |-> Calls[c].Request, New |-> Calls[c].New,
           Answer |-> AnswerOf(answer)]]
  <2> HIDE DEF new
  <2> QED
    BY <1>8, <1>9, <1>10, <1>11
<1> QED
  BY <1>12 DEF Promise!Reply, AnswerOf

(***************************************************************************)
(* The tables as the promise sees them.                                    *)
(***************************************************************************)
LEMMA CallInProgress ==
  ASSUME RevisionInv, NEW c \in Callers, pc[c] \in InTx \cup {"begin"}
  PROVE  /\ IsCall(c)
         /\ Calls[c].State = "asked" /\ Calls[c].Request = RequestOf(c)
         /\ Calls[c].New = (req[c].Call = "Commit" /\ known[c] = "nothing")
<1>1. IsCall(c) /\ pc[c] # "done"
  BY RevisionConstants DEF RevisionInv, CallerInv, IsCall, InTx
<1> DEFINE new == req[c].Call = "Commit" /\ known[c] = "nothing"
<1>2. Calls[c] = [State |-> "asked", Request |-> RequestOf(c), New |-> new, Answer |-> Nil]
  BY <1>1 DEF Calls, CallOf
<1>3. Calls[c].State = "asked" /\ Calls[c].Request = RequestOf(c) /\ Calls[c].New = new
  <2> HIDE DEF new
  <2> QED
    BY <1>2
<1> QED
  BY <1>1, <1>3

(* A commit in progress is one of the promise's. *)
LEMMA CommitAsked ==
  ASSUME RevisionInv, NEW c \in Callers, pc[c] \in InTx, req[c].Call = "Commit"
  PROVE  /\ IsCall(c) /\ Calls[c].State = "asked" /\ Calls[c].Request.Call = "Commit"
         /\ Promise!Operation(c) = req[c].OperationID /\ Promise!Wanted(c) = ContentKey(c)
<1>1. IsCall(c) /\ Calls[c].State = "asked" /\ Calls[c].Request = RequestOf(c)
  BY CallInProgress
<1>2. RequestOf(c) = [Call |-> "Commit", OperationID |-> req[c].OperationID,
                      Content |-> ContentKey(c)]
  BY DEF RequestOf
<1> QED
  BY <1>1, <1>2 DEF Promise!Operation, Promise!Wanted

LEMMA HoldingMinted ==
  ASSUME RevisionInv, NEW p \in Pipelines, NEW rev \in RevisionIDs
  PROVE  /\ minted[<<p, rev>>] = Nil => Promise!Holding(<<p, rev>>) = {}
         /\ minted[<<p, rev>>] # Nil =>
              /\ minted[<<p, rev>>] \in Forms
              /\ <<p, minted[<<p, rev>>]>> \in Promise!Holding(<<p, rev>>)
<1>1. <<p, rev>> \in Keys /\ minted[<<p, rev>>] \in Forms \cup {Nil}
  BY DEF Keys, RevisionInv, RevisionTypeOK
<1>2. \A f \in Forms : db.digestIndex[<<p, f>>] = rev <=> minted[<<p, rev>>] = f
  BY DEF RevisionInv, TablesAgree
<1>3. CASE minted[<<p, rev>>] = Nil
  <2>1. \A f \in Forms : db.digestIndex[<<p, f>>] # rev
    BY <1>2, <1>3, RevisionConstants
  <2> QED
    BY <2>1, <1>3 DEF Promise!Holding, Promise!Contents
<1>4. CASE minted[<<p, rev>>] # Nil
  BY <1>1, <1>2, <1>4 DEF Promise!Holding, Promise!Contents
<1> QED
  BY <1>3, <1>4

(* A ledger row binds its operation to a content that has a revision. *)
LEMMA BoundContent ==
  ASSUME RevisionInv, NEW o \in OperationIDs, db.operations[o] # Nil
  PROVE  \E p \in Pipelines, f \in Forms :
           /\ db.operations[o].Fingerprint = RequestFingerprint(p, f)
           /\ Bindings[o] = <<p, f>>
           /\ db.operations[o].RevisionID \in RevisionIDs
           /\ db.digestIndex[<<p, f>>] = db.operations[o].RevisionID
<1>1. PICK p \in Pipelines, f \in Forms :
        /\ db.operations[o].Fingerprint = RequestFingerprint(p, f)
        /\ minted[<<p, db.operations[o].RevisionID>>] = f
  BY DEF RevisionInv, TablesAgree
<1>2. db.operations[o].RevisionID \in RevisionIDs
  BY DEF RevisionInv, RevisionTypeOK, Tables, Operation
<1>3. db.digestIndex[<<p, f>>] = db.operations[o].RevisionID
  BY <1>1, <1>2 DEF RevisionInv, TablesAgree
<1>4. Bindings[o] = ContentOf(RequestFingerprint(p, f))
  BY <1>1 DEF Bindings
<1>5. Bindings[o] = <<p, f>>
  BY <1>4 DEF ContentOf, RequestFingerprint, DigestCanonical
<1> QED
  BY <1>1, <1>2, <1>3, <1>5

LEMMA Unbound ==
  ASSUME NEW o \in OperationIDs
  PROVE  db.operations[o] = Nil => Bindings[o] = Nil
  BY DEF Bindings

(* What a call fetches by a content's revision is what the promise serves. *)
LEMMA FetchServes ==
  ASSUME RevisionInv, MapInv, NEW c \in Callers, pc[c] \in InTx, known' = known,
         NEW p \in Pipelines, NEW f \in Forms, NEW rev \in RevisionIDs,
         db.digestIndex[<<p, f>>] = rev, Return(c, Fetched(db, <<p, rev>>))
  PROVE  /\ Promise!Serve(c, <<p, f>>)
         /\ Promise!IsBroken(<<p, f>>) <=> Load(db, <<p, rev>>) # "FOUND"
<1> DEFINE k == <<p, rev>>
           answer == Fetched(db, k)
<1>1. k \in Keys /\ minted[k] = f /\ f # Nil
  BY RevisionConstants DEF Keys, RevisionInv, TablesAgree
<1>2. db.revisions[k] # Nil
  BY <1>1 DEF RevisionInv, TablesAgree
<1>3. Load(db, k) \in {"INTEGRITY", "FOUND"}
  BY <1>2 DEF Load
<1>4. Promise!IsBroken(<<p, f>>) <=> Load(db, k) = "INTEGRITY"
  BY <1>1 DEF Promise!IsBroken, Broken
<1>5. Promise!Reply(c, answer.Outcome, answer.RevisionID, ContentIn(answer.Row))
  BY CallInProgress, ReturnReplies DEF RevisionInv, InTx
<1>6. CASE Load(db, k) = "INTEGRITY"
  <2>1. answer.Outcome = "INTEGRITY" /\ answer.RevisionID = Nil /\ ContentIn(answer.Row) = Nil
    BY <1>6 DEF Fetched, Answer, ContentIn
  <2>2. Promise!Reply(c, "INTEGRITY", Nil, Nil)
    <3> HIDE DEF answer
    <3> QED
      BY <1>5, <2>1
  <2> QED
    BY <1>4, <1>6, <2>2 DEF Promise!Serve
<1>7. CASE Load(db, k) = "FOUND"
  <2>1. db.revisions[k] = RowOf(f)
    BY <1>1, <1>7 DEF MapInv, RowsGood
  <2>2. answer.Outcome = "FOUND" /\ answer.RevisionID = rev /\ answer.Row = RowOf(f)
    BY <1>7, <2>1 DEF Fetched
  <2>3. ContentIn(answer.Row) = f
    <3> HIDE DEF answer
    <3> QED
      BY <2>2, RowTyped DEF ContentIn, RowOf
  <2>4. Promise!Reply(c, "FOUND", rev, f)
    <3> HIDE DEF answer
    <3> QED
      BY <1>5, <2>2, <2>3
  <2> QED
    BY <1>4, <1>7, <2>4 DEF Promise!Serve
<1> QED
  BY <1>3, <1>4, <1>6, <1>7

(***************************************************************************)
(* Each step of the store is a step of the promise, or none.               *)
(***************************************************************************)
Mapped == [Promise!PromiseNext]_(Promise!promiseVars)

LEMMA Stutters ==
  ASSUME db' = db, \A d \in Callers : CallOf(d)' = CallOf(d)
  PROVE  Mapped
<1>1. UNCHANGED Promise!ledger /\ Calls' = Calls
  BY LedgerStands, CallsStand
<1> QED
  BY <1>1 DEF Mapped, Promise!promiseVars

LEMMA Responding ==
  ASSUME NEW c \in Callers, Promise!Respond(c)
  PROVE  Mapped
  BY DEF Mapped, Promise!PromiseNext

LEMMA CommitResponds ==
  ASSUME RevisionInv, NEW c \in Callers, pc[c] \in InTx, req[c].Call = "Commit",
         \/ Promise!Replay(c) \/ Promise!Conflict(c) \/ Promise!Converge(c) \/ Promise!Refuse(c)
         \/ \E rev \in RevisionIDs : Promise!Create(c, rev)
  PROVE  Mapped
<1>1. Calls[c].State = "asked" /\ Calls[c].Request.Call = "Commit"
  BY CommitAsked
<1>2. Promise!Respond(c)
  BY <1>1 DEF Promise!Respond
<1> QED
  BY <1>2, Responding

LEMMA GetRevisionMaps ==
  ASSUME RevisionInv, MapInv, NEW c \in Callers, GetRevision(c)
  PROVE  Mapped
<1>1. /\ pc[c] = "lookup" /\ pc[c] \in InTx /\ req[c].Call = "GetRevision"
      /\ Return(c, Fetched(db, req[c].Key)) /\ db' = db /\ known' = known
  BY DEF GetRevision, NoWrite, InTx
<1>2. req[c] \in Requests
  BY <1>1 DEF RevisionInv, CallerInv
<1>3. PICK p \in Pipelines, rev \in RevisionIDs : req[c].Key = <<p, rev>>
  BY <1>1, <1>2 DEF Requests, Keys
<1>4. UNCHANGED Promise!ledger
  BY <1>1, LedgerStands
<1>5. IsCall(c) /\ Calls[c].State = "asked" /\ Calls[c].Request = RequestOf(c)
  BY <1>1, CallInProgress
<1>6. Calls[c].Request.Call = "GetRevision" /\ Calls[c].Request.Key = <<p, rev>>
  BY <1>1, <1>3, <1>5 DEF RequestOf
<1>7. Promise!Get(c)
  <2>1. CASE minted[<<p, rev>>] = Nil
    <3>1. Promise!Holding(<<p, rev>>) = {}
      BY <2>1, HoldingMinted
    <3>2. db.revisions[<<p, rev>>] = Nil
      BY <2>1 DEF RevisionInv, TablesAgree, Keys
    <3>3. Fetched(db, <<p, rev>>) = Answer("NOT_FOUND")
      BY <3>2 DEF Fetched, Load
    <3>4. Promise!Reply(c, Answer("NOT_FOUND").Outcome, Answer("NOT_FOUND").RevisionID,
                        ContentIn(Answer("NOT_FOUND").Row))
      BY <1>1, <1>3, <1>5, <3>3, ReturnReplies DEF RevisionInv
    <3>5. Promise!Reply(c, "NOT_FOUND", Nil, Nil)
      BY <3>4 DEF Answer, ContentIn
    <3> QED
      BY <1>4, <1>6, <3>1, <3>5 DEF Promise!Get
  <2>2. CASE minted[<<p, rev>>] # Nil
    <3> DEFINE f == minted[<<p, rev>>]
    <3>1. f \in Forms /\ <<p, f>> \in Promise!Holding(<<p, rev>>)
      BY <2>2, HoldingMinted
    <3>2. db.digestIndex[<<p, f>>] = rev
      BY <3>1 DEF RevisionInv, TablesAgree
    <3> HIDE DEF f
    <3>3. Promise!Serve(c, <<p, f>>)
      BY <1>1, <1>3, <3>1, <3>2, FetchServes
    <3> QED
      BY <1>4, <1>6, <3>1, <3>3 DEF Promise!Get
  <2> QED
    BY <2>1, <2>2
<1>8. Promise!Respond(c)
  BY <1>5, <1>6, <1>7 DEF Promise!Respond
<1> QED
  BY <1>8, Responding

LEMMA ReplayOrConflictMaps ==
  ASSUME RevisionInv, MapInv, NEW c \in Callers, ReplayOrConflict(c)
  PROVE  Mapped
<1> DEFINE o == req[c].OperationID
           op == db.operations[o]
<1>1. /\ pc[c] = "lookup" /\ pc[c] \in InTx /\ req[c].Call = "Commit" /\ op # Nil
      /\ db' = db /\ known' = known
      /\ IF op.Fingerprint = FingerprintOf(c)
           THEN Return(c, Fetched(db, <<req[c].PipelineID, op.RevisionID>>))
           ELSE Return(c, Answer("OPERATION_CONFLICT"))
  BY DEF ReplayOrConflict, InTx
<1>2. /\ o \in OperationIDs /\ req[c].PipelineID \in Pipelines /\ FormOf(c) \in Forms
      /\ ContentKey(c) = <<req[c].PipelineID, FormOf(c)>>
  BY <1>1, CommitTyped DEF RevisionInv
<1>3. PICK p \in Pipelines, f \in Forms :
        /\ op.Fingerprint = RequestFingerprint(p, f)
        /\ Bindings[o] = <<p, f>>
        /\ op.RevisionID \in RevisionIDs
        /\ db.digestIndex[<<p, f>>] = op.RevisionID
  BY <1>1, <1>2, BoundContent
<1>4. /\ IsCall(c) /\ Promise!Operation(c) = o /\ Promise!Wanted(c) = ContentKey(c)
      /\ UNCHANGED Promise!ledger
  BY <1>1, CommitAsked, LedgerStands
<1>5. op.Fingerprint = FingerprintOf(c) <=> (p = req[c].PipelineID /\ f = FormOf(c))
  BY <1>3 DEF FingerprintOf, RequestFingerprint, DigestCanonical
<1>6. CASE op.Fingerprint = FingerprintOf(c)
  <2>1. Promise!Serve(c, <<p, f>>)
    BY <1>1, <1>3, <1>5, <1>6, FetchServes
  <2>2. Promise!Replay(c)
    BY <1>2, <1>3, <1>4, <1>5, <1>6, <2>1 DEF Promise!Replay
  <2> QED
    BY <1>1, <2>2, CommitResponds
<1>7. CASE op.Fingerprint # FingerprintOf(c)
  <2>1. Bindings[o] \notin {Nil, ContentKey(c)}
    BY <1>2, <1>3, <1>5, <1>7, NilIsNoContent
  <2>2. Promise!Reply(c, Answer("OPERATION_CONFLICT").Outcome,
                      Answer("OPERATION_CONFLICT").RevisionID,
                      ContentIn(Answer("OPERATION_CONFLICT").Row))
    BY <1>1, <1>4, <1>7, ReturnReplies DEF RevisionInv
  <2>3. Promise!Reply(c, "OPERATION_CONFLICT", Nil, Nil)
    BY <2>2 DEF Answer, ContentIn
  <2>4. Promise!Conflict(c)
    BY <1>4, <2>1, <2>3 DEF Promise!Conflict
  <2> QED
    BY <1>1, <2>4, CommitResponds
<1> QED
  BY <1>6, <1>7

(* A step inside a call is none of the promise's. *)
LEMMA InsideMaps ==
  ASSUME RevisionInv, NEW c \in Callers, pc[c] \in InTx \cup {"begin"}, NEW step \in InTx,
         pc' = [pc EXCEPT ![c] = step], UNCHANGED <<db, req, reply, known>>
  PROVE  Mapped
<1>1. ASSUME NEW d \in Callers
      PROVE  CallOf(d)' = CallOf(d)
  <2>1. CASE d # c
    <3>1. pc'[d] = pc[d]
      BY <2>1 DEF RevisionInv, RevisionTypeOK
    <3> QED
      BY <3>1, CallStands
  <2>2. CASE d = c
    <3>1. pc'[d] = step /\ pc'[d] \notin {"idle", "done"} /\ pc[d] \notin {"idle", "done"}
      BY <2>2 DEF RevisionInv, RevisionTypeOK, InTx
    <3> QED
      BY <3>1 DEF CallOf, IsCall, FormOf, ContentKey, RequestOf
  <2> QED
    BY <2>1, <2>2
<1> QED
  BY <1>1, Stutters

(* A content is known to a call exactly when the ledger has its revision. *)
LEMMA KnownIsIndexed ==
  ASSUME RevisionInv, NEW r \in Requests, r.Call = "Commit", Canonical[r.Body] # Nil
  PROVE  /\ <<r.PipelineID, Canonical[r.Body]>> \in Pipelines \X Forms
         /\ KnownOf(r) = "nothing" <=> db.digestIndex[<<r.PipelineID, Canonical[r.Body]>>] = Nil
<1> DEFINE q == r.PipelineID
           g == Canonical[r.Body]
           o == r.OperationID
<1>1. q \in Pipelines /\ g \in Forms /\ o \in OperationIDs
  BY RevisionConstants DEF Requests
<1>2. CASE db.operations[o] # Nil /\ db.operations[o].Fingerprint = RequestFingerprint(q, g)
  <2>1. PICK p \in Pipelines, f \in Forms :
          /\ db.operations[o].Fingerprint = RequestFingerprint(p, f)
          /\ db.operations[o].RevisionID \in RevisionIDs
          /\ db.digestIndex[<<p, f>>] = db.operations[o].RevisionID
    BY <1>1, <1>2, BoundContent
  <2>2. p = q /\ f = g
    BY <1>2, <2>1 DEF RequestFingerprint, DigestCanonical
  <2>3. db.digestIndex[<<q, g>>] # Nil
    BY <2>1, <2>2, RevisionConstants
  <2> QED
    BY <1>1, <1>2, <2>3 DEF KnownOf
<1>3. CASE ~(db.operations[o] # Nil /\ db.operations[o].Fingerprint = RequestFingerprint(q, g))
  BY <1>1, <1>3 DEF KnownOf
<1> QED
  BY <1>1, <1>2, <1>3

LEMMA StartMaps ==
  ASSUME RevisionInv, MapInv, NEW c \in Callers, NEW r \in Requests, Start(c, r)
  PROVE  Mapped
<1>1. /\ pc[c] = "idle" /\ req' = [req EXCEPT ![c] = r] /\ db' = db
      /\ known' = [known EXCEPT ![c] = KnownOf(r)]
      /\ pc' = [pc EXCEPT ![c] = "done"] \/ pc' = [pc EXCEPT ![c] = "begin"]
      /\ reply' = [reply EXCEPT ![c] = Answer("UNPARSABLE")] \/ reply' = reply
  BY DEF Start
<1>2. ASSUME NEW d \in Callers \ {c}
      PROVE  CallOf(d)' = CallOf(d)
  <2>1. pc'[d] = pc[d] /\ req'[d] = req[d] /\ reply'[d] = reply[d] /\ known'[d] = known[d]
    BY <1>1 DEF RevisionInv, RevisionTypeOK, MapInv
  <2> QED
    BY <2>1, CallStands
<1>3. req'[c] = r /\ known'[c] = KnownOf(r)
  BY <1>1 DEF RevisionInv, RevisionTypeOK
<1>4. ~IsCall(c)
  BY <1>1 DEF IsCall
<1>5. CASE r.Call = "Commit" /\ Canonical[r.Body] = Nil
  <2>1. ~IsCall(c)'
    BY <1>3, <1>5 DEF IsCall, FormOf
  <2>2. CallOf(c)' = CallOf(c)
    BY <1>4, <2>1 DEF CallOf
  <2> QED
    BY <1>1, <1>2, <2>2, Stutters
<1>6. CASE ~(r.Call = "Commit" /\ Canonical[r.Body] = Nil)
  <2> DEFINE asked == IF r.Call = "Commit"
                        THEN [Call |-> "Commit", OperationID |-> r.OperationID,
                              Content |-> <<r.PipelineID, Canonical[r.Body]>>]
                        ELSE [Call |-> "GetRevision", Key |-> r.Key]
             new == r.Call = "Commit" /\ KnownOf(r) = "nothing"
  <2>1. pc'[c] = "begin"
    BY <1>6 DEF Start, RevisionInv, RevisionTypeOK
  <2>2. IsCall(c)' /\ RequestOf(c)' = asked
    BY <1>3, <1>6, <2>1 DEF IsCall, FormOf, RequestOf, ContentKey
  <2>3. CallOf(c)' = [State |-> "asked", Request |-> asked, New |-> new, Answer |-> Nil]
    <3> HIDE DEF asked
    <3> QED
      BY <1>3, <2>1, <2>2 DEF CallOf
  <2>4. Calls[c].State = "none"
    BY <1>4 DEF Calls, CallOf
  <2>5. Calls' = [Calls EXCEPT ![c] = CallOf(c)']
    BY <1>2, OneCallMoves
  <2>6. /\ asked \in Promise!Asked
        /\ new = (asked.Call = "Commit" /\ db.digestIndex[asked.Content] = Nil)
    <3>1. CASE r.Call = "Commit"
      <4>1. Canonical[r.Body] # Nil
        BY <1>6, <3>1
      <4>2. r.OperationID \in OperationIDs
        BY <3>1 DEF Requests
      <4>3. asked = [Call |-> "Commit", OperationID |-> r.OperationID,
                     Content |-> <<r.PipelineID, Canonical[r.Body]>>]
        BY <3>1
      <4>4. asked \in Promise!Asked
        BY <3>1, <4>1, <4>2, <4>3, KnownIsIndexed DEF Promise!Asked, Promise!Contents
      <4>5. asked.Call = "Commit" /\ asked.Content = <<r.PipelineID, Canonical[r.Body]>>
        BY <4>3
      <4> HIDE DEF asked
      <4> QED
        BY <3>1, <4>1, <4>4, <4>5, KnownIsIndexed
    <3>2. CASE r.Call # "Commit"
      <4>1. r.Call = "GetRevision" /\ r.Key \in Keys
        BY <3>2 DEF Requests
      <4>2. asked = [Call |-> "GetRevision", Key |-> r.Key]
        BY <3>2
      <4> QED
        BY <3>2, <4>1, <4>2 DEF Promise!Asked, Promise!Keys, Keys
    <3> QED
      BY <3>1, <3>2
  <2> HIDE DEF asked, new
  <2>7. Calls' = [Calls EXCEPT ![c] =
           [State |-> "asked", Request |-> asked, Answer |-> Nil,
            New |-> asked.Call = "Commit" /\ db.digestIndex[asked.Content] = Nil]]
    BY <2>3, <2>5, <2>6
  <2>8. UNCHANGED Promise!ledger
    BY <1>1, LedgerStands
  <2>9. Promise!Ask(c)
    BY <2>4, <2>6, <2>7, <2>8 DEF Promise!Ask
  <2> QED
    BY <2>9 DEF Mapped, Promise!PromiseNext
<1> QED
  BY <1>5, <1>6

LEMMA LookupMaps ==
  ASSUME RevisionInv, NEW c \in Callers, Begin(c) \/ Lookup(c)
  PROVE  Mapped
<1> DEFINE next == IF db.digestIndex[ContentKey(c)] # Nil THEN "converge" ELSE "prepare"
<1>1. CASE Begin(c)
  BY <1>1, InsideMaps DEF Begin, NoWrite, InTx
<1>2. CASE Lookup(c)
  <2>1. /\ pc[c] \in InTx \cup {"begin"} /\ next \in InTx /\ pc' = [pc EXCEPT ![c] = next]
        /\ UNCHANGED <<db, req, reply, known>>
    BY <1>2 DEF Lookup, Goto, NoWrite, InTx
  <2> HIDE DEF next
  <2> QED
    BY <2>1, InsideMaps
<1> QED
  BY <1>1, <1>2

LEMMA PrepareMaps ==
  ASSUME RevisionInv, MapInv, NEW c \in Callers, Prepare(c)
  PROVE  Mapped
<1>1. pc[c] = "prepare" /\ pc[c] \in InTx /\ db' = db /\ known' = known
  BY DEF Prepare, NoWrite, InTx
<1>2. CASE Goto(c, "mint")
  BY <1>1, <1>2, InsideMaps DEF Goto, Prepare, NoWrite, InTx
<1>3. CASE Return(c, Answer("REFUSED"))
  <2>1. req[c].Call = "Commit" /\ known[c] = "nothing"
    BY <1>1 DEF RevisionInv, CallerInv, MapInv, AsksOfNew
  <2>2. IsCall(c) /\ Calls[c].New
    BY <1>1, <2>1, CallInProgress
  <2>3. Promise!Reply(c, Answer("REFUSED").Outcome, Answer("REFUSED").RevisionID,
                      ContentIn(Answer("REFUSED").Row))
    BY <1>1, <1>3, <2>2, ReturnReplies DEF RevisionInv
  <2>4. Promise!Reply(c, "REFUSED", Nil, Nil)
    BY <2>3 DEF Answer, ContentIn
  <2>5. Promise!Refuse(c)
    BY <1>1, <2>2, <2>4, LedgerStands DEF Promise!Refuse
  <2> QED
    BY <1>1, <2>1, <2>5, CommitResponds
<1> QED
  BY <1>2, <1>3 DEF Prepare

LEMMA RecordConvergedMaps ==
  ASSUME RevisionInv, MapInv, NEW c \in Callers, RecordConverged(c)
  PROVE  Mapped
<1> DEFINE o == req[c].OperationID
           p == req[c].PipelineID
           f == FormOf(c)
           rev == db.digestIndex[ContentKey(c)]
           staged == [tx[c] EXCEPT !.operations[o] = OperationRow(c, rev)]
           got == Fetched(staged, <<p, rev>>)
<1>1. /\ pc[c] = "converge" /\ pc[c] \in InTx /\ tx[c] = db
      /\ db' = db /\ known' = known
      /\ \/ got.Outcome # "FOUND" /\ Return(c, got)
         \/ Goto(c, "commit")
  BY DEF RecordConverged, MayWrite, NoWrite, InTx
<1>2. req[c].Call = "Commit"
  BY <1>1 DEF RevisionInv, CallerInv
<1>3. /\ o \in OperationIDs /\ p \in Pipelines /\ f \in Forms /\ ContentKey(c) = <<p, f>>
  BY <1>1, <1>2, CommitTyped DEF RevisionInv
<1>4. rev \in RevisionIDs /\ db.operations[o] = Nil
  BY <1>1 DEF RevisionInv, CallerInv
<1>5. CASE Goto(c, "commit")
  BY <1>1, <1>5, InsideMaps DEF Goto, RecordConverged, NoWrite, InTx
<1>6. CASE got.Outcome # "FOUND" /\ Return(c, got)
  <2>1. staged.revisions = db.revisions
    BY <1>1 DEF RevisionInv, RevisionTypeOK, Tables
  <2>2. got = Fetched(db, <<p, rev>>)
    <3> HIDE DEF staged
    <3> QED
      BY <2>1 DEF Fetched, Load
  <2>3. Load(db, <<p, rev>>) # "FOUND"
    BY <1>6, <2>2 DEF Fetched
  <2>4. Return(c, Fetched(db, <<p, rev>>))
    BY <1>6, <2>2
  <2>5. db.digestIndex[<<p, f>>] = rev
    BY <1>3
  <2> HIDE DEF rev, got
  <2>6. Promise!Serve(c, <<p, f>>) /\ Promise!IsBroken(<<p, f>>)
    BY <1>1, <1>3, <1>4, <2>3, <2>4, <2>5, FetchServes
  <2>7. Promise!Operation(c) = o /\ Promise!Wanted(c) = <<p, f>>
    BY <1>1, <1>2, <1>3, CommitAsked
  <2>8. Bindings[o] = Nil /\ rev # Nil
    BY <1>3, <1>4, Unbound, RevisionConstants
  <2>9. UNCHANGED <<db.digestIndex, Bindings, Broken>>
    BY <1>1, LedgerStands DEF Promise!ledger
  <2>10. Promise!Converge(c)
    BY <2>5, <2>6, <2>7, <2>8, <2>9 DEF Promise!Converge
  <2> QED
    BY <1>1, <1>2, <2>10, CommitResponds
<1> QED
  BY <1>1, <1>5, <1>6

LEMMA MintMaps ==
  ASSUME RevisionInv, NEW c \in Callers, NEW rev \in RevisionIDs, Mint(c, rev)
  PROVE  Mapped
  BY InsideMaps DEF Mint, Goto, NoWrite, InTx

LEMMA FailMaps ==
  ASSUME RevisionInv, MapInv, NEW c \in Callers, Fail(c)
  PROVE  Mapped
<1>1. /\ pc[c] \in InTx \cup {"begin"} /\ pc[c] \notin {"idle", "done"}
      /\ db' = db /\ known' = known /\ Return(c, Answer("ERROR"))
  BY DEF Fail, NoWrite, InTx, RevisionInv, RevisionTypeOK
<1>2. IsCall(c) /\ Calls[c].State = "asked"
  BY <1>1, CallInProgress
<1>3. Promise!Reply(c, Answer("ERROR").Outcome, Answer("ERROR").RevisionID,
                    ContentIn(Answer("ERROR").Row))
  BY <1>1, <1>2, ReturnReplies DEF RevisionInv
<1>4. Promise!Reply(c, "ERROR", Nil, Nil)
  BY <1>3 DEF Answer, ContentIn
<1>5. Promise!Respond(c)
  BY <1>1, <1>2, <1>4, LedgerStands DEF Promise!Respond
<1> QED
  BY <1>5, Responding

(* Calls that are over, or that died with their process. *)
LEMMA Forgetting ==
  ASSUME db' = db, NEW S \in SUBSET Callers, \A c \in S : ~IsCall(c)',
         \A d \in Callers \ S : CallOf(d)' = CallOf(d)
  PROVE  Mapped
<1>1. \A c \in S : CallOf(c)' = Promise!NoCall
  BY DEF CallOf, Promise!NoCall
<1>2. Calls' = [c \in Callers |-> IF c \in S THEN Promise!NoCall ELSE Calls[c]]
  BY <1>1 DEF Calls
<1>3. Promise!Forget
  BY <1>2, LedgerStands DEF Promise!Forget
<1> QED
  BY <1>3 DEF Mapped, Promise!PromiseNext

LEMMA FinishMaps ==
  ASSUME RevisionInv, MapInv, NEW c \in Callers, Finish(c)
  PROVE  Mapped
<1>1. /\ db' = db /\ pc' = [pc EXCEPT ![c] = "idle"] /\ req' = [req EXCEPT ![c] = Nil]
      /\ reply' = [reply EXCEPT ![c] = Nil] /\ known' = [known EXCEPT ![c] = "nothing"]
  BY DEF Finish
<1>2. ASSUME NEW d \in Callers \ {c}
      PROVE  CallOf(d)' = CallOf(d)
  <2>1. pc'[d] = pc[d] /\ req'[d] = req[d] /\ reply'[d] = reply[d] /\ known'[d] = known[d]
    BY <1>1 DEF RevisionInv, RevisionTypeOK, MapInv
  <2> QED
    BY <2>1, CallStands
<1>3. pc'[c] = "idle"
  BY <1>1 DEF RevisionInv, RevisionTypeOK
<1>4. {c} \in SUBSET Callers /\ \A d \in {c} : ~IsCall(d)'
  BY <1>3 DEF IsCall
<1> DEFINE S == {c}
<1> HIDE DEF S
<1>5. /\ S \in SUBSET Callers /\ \A d \in S : ~IsCall(d)'
      /\ \A d \in Callers \ S : CallOf(d)' = CallOf(d)
  BY <1>2, <1>4 DEF S
<1> QED
  BY <1>1, <1>5, Forgetting

LEMMA CrashMaps ==
  ASSUME NEW h \in Handles, Crash(h)
  PROVE  Mapped
<1> DEFINE S == {c \in Callers : HandleOf[c] = h}
<1>1. \A c \in S : ~IsCall(c)'
  BY DEF Crash, IsCall
<1>2. \A d \in Callers \ S : /\ pc'[d] = pc[d] /\ req'[d] = req[d] /\ reply'[d] = reply[d]
                             /\ known'[d] = known[d]
  BY DEF Crash
<1>3. \A d \in Callers \ S : CallOf(d)' = CallOf(d)
  BY <1>2, CallStands
<1>4. db' = db /\ S \in SUBSET Callers
  BY DEF Crash
<1> HIDE DEF S
<1> QED
  BY <1>1, <1>3, <1>4, Forgetting

LEMMA OpenMaps ==
  ASSUME NEW h \in Handles, CreateTable(h) \/ Open(h)
  PROVE  Mapped
<1>1. UNCHANGED <<db, pc, req, reply, known>>
  BY DEF CreateTable, Open, callVars
<1>2. \A d \in Callers : CallOf(d)' = CallOf(d)
  BY <1>1, CallStands
<1> QED
  BY <1>1, <1>2, Stutters

(* What the damage of a cell leaves of a row that was intact. *)
LEMMA DamagedRow ==
  ASSUME RevisionInv, NEW k \in Keys, NEW d \in Damage, DamageRow(k, d)
  PROVE  /\ minted[k] \in Forms /\ minted[k] # Nil
         /\ Load(db, k) = "FOUND" /\ Load(db, k)' \in {"FOUND", "INTEGRITY"}
         /\ Load(db, k)' = "FOUND" => db'.revisions[k] = RowOf(minted[k])
         /\ \A j \in Keys \ {k} : db'.revisions[j] = db.revisions[j]
         /\ db'.operations = db.operations /\ db'.digestIndex = db.digestIndex
         /\ \A h \in Handles : conn[h] = Nil
         /\ UNCHANGED <<pc, req, reply, tx, minted, known>>
<1> DEFINE f == minted[k]
           row == [db.revisions[k] EXCEPT ![d.Column] = d.Value]
<1>1. /\ db.revisions[k] # Nil /\ db.revisions[k] = RowOf(f)
      /\ \A h \in Handles : conn[h] = Nil
      /\ db' = [db EXCEPT !.revisions[k] = row]
      /\ UNCHANGED <<pc, req, reply, tx, minted, known>>
  BY DEF DamageRow, Intact, callVars
<1>2. f \in Forms /\ f # Nil
  BY <1>1 DEF RevisionInv, RevisionTypeOK, TablesAgree
<1>3. RowOf(f) \in Row
  BY <1>2, RowTyped
<1>4. row \in Row /\ row # Nil
  BY <1>1, <1>3, DamageIsInARow, NoRowIsNil
<1>5. row = [RowOf(f) EXCEPT ![d.Column] = d.Value]
  BY <1>1
<1>6. row = RowOf(f) \/ row.Digest # DigestCanonical(row.Body) \/ row.Body = Nil
      \/ row.SemVer # "v1" \/ row.CanonVer # "v1"
  <2>1. /\ row.Digest = IF d.Column = "Digest" THEN d.Value ELSE DigestCanonical(f)
        /\ row.SemVer = IF d.Column = "SemVer" THEN d.Value ELSE "v1"
        /\ row.CanonVer = IF d.Column = "CanonVer" THEN d.Value ELSE "v1"
        /\ row.Body = IF d.Column = "Body" THEN d.Value ELSE f
    BY <1>5 DEF RowOf
  <2>2. row = [Digest |-> row.Digest, SemVer |-> row.SemVer, CanonVer |-> row.CanonVer,
               Body |-> row.Body]
    BY <1>4 DEF Row
  <2> HIDE DEF row
  <2>3. ASSUME row.Digest = DigestCanonical(row.Body), row.SemVer = "v1", row.CanonVer = "v1"
        PROVE  row.Digest = DigestCanonical(f) /\ row.Body = f
    BY <2>1, <2>3 DEF DigestCanonical
  <2> QED
    BY <2>2, <2>3 DEF RowOf
<1> HIDE DEF row
<1>7. /\ db'.operations = db.operations /\ db'.digestIndex = db.digestIndex
      /\ db'.revisions = [db.revisions EXCEPT ![k] = row]
  BY <1>1 DEF RevisionInv, RevisionTypeOK, Tables
<1>8. db'.revisions[k] = row /\ \A j \in Keys \ {k} : db'.revisions[j] = db.revisions[j]
  BY <1>7 DEF RevisionInv, RevisionTypeOK, Tables
<1>9. Load(db, k) = "FOUND"
  BY <1>1, <1>2 DEF Load, RowOf
<1>10. Load(db, k)' \in {"FOUND", "INTEGRITY"} /\ (Load(db, k)' = "FOUND" => row = RowOf(f))
  BY <1>4, <1>6, <1>8 DEF Load
<1> QED
  BY <1>1, <1>2, <1>7, <1>8, <1>9, <1>10

LEMMA DamageRowMaps ==
  ASSUME RevisionInv, NEW k \in Keys, NEW d \in Damage, DamageRow(k, d)
  PROVE  Mapped
<1>1. /\ minted[k] # Nil /\ Load(db, k) = "FOUND" /\ Load(db, k)' \in {"FOUND", "INTEGRITY"}
      /\ \A j \in Keys \ {k} : db'.revisions[j] = db.revisions[j]
      /\ db'.operations = db.operations /\ db'.digestIndex = db.digestIndex
      /\ UNCHANGED <<pc, req, reply, known>>
  BY DamagedRow
<1>2. Promise!Holding(k) # {}
  <2>1. PICK p \in Pipelines, rev \in RevisionIDs : k = <<p, rev>>
    BY DEF Keys
  <2> QED
    BY <1>1, <2>1, HoldingMinted
<1>3. \A j \in Keys \ {k} : Load(db, j)' = Load(db, j)
  BY <1>1 DEF Load
<1>4. Broken' = IF Load(db, k)' = "INTEGRITY" THEN Broken \cup {k} ELSE Broken
  BY <1>1, <1>3 DEF Broken
<1>5. \A c \in Callers : CallOf(c)' = CallOf(c)
  BY <1>1, CallStands
<1>6. UNCHANGED <<db.digestIndex, Bindings, Calls>>
  BY <1>1, <1>5, CallsStand DEF Bindings
<1>7. CASE Broken' = Broken
  BY <1>6, <1>7 DEF Mapped, Promise!promiseVars, Promise!ledger
<1>8. CASE Broken' = Broken \cup {k}
  <2>1. Promise!Break
    BY <1>2, <1>6, <1>8 DEF Promise!Break, Promise!Keys, Keys
  <2> QED
    BY <2>1 DEF Mapped, Promise!PromiseNext
<1> QED
  BY <1>4, <1>7, <1>8

(* What a commit writes and answers. *)
LEMMA CommitEffect ==
  ASSUME RevisionInv, NEW c \in Callers, TxCommit(c)
  PROVE  /\ pc[c] = "commit" /\ req[c].Call = "Commit" /\ known' = known
         /\ db' = tx[c] /\ db.operations[req[c].OperationID] = Nil
         /\ \E rev \in RevisionIDs :
              LET k == <<req[c].PipelineID, rev>> IN
              \/ /\ StagedConverged(c, rev) /\ minted' = minted
                 /\ Return(c, [Outcome |-> "FOUND", RevisionID |-> rev,
                               Row |-> db.revisions[k]])
              \/ /\ StagedMint(c, rev) /\ minted' = [minted EXCEPT ![k] = FormOf(c)]
                 /\ Return(c, [Outcome |-> "CREATED", RevisionID |-> rev,
                               Row |-> RowOf(FormOf(c))])
<1>1. /\ pc[c] = "commit" /\ Staged(c) /\ db' = tx[c] /\ known' = known
      /\ req[c].Call = "Commit"
  BY DEF TxCommit, RevisionInv, CallerInv, InTx
<1>2. PICK rev \in RevisionIDs : StagedConverged(c, rev) \/ StagedMint(c, rev)
  BY <1>1 DEF Staged
<1> DEFINE k == <<req[c].PipelineID, rev>>
           created == db.revisions[k] = Nil
<1>3. /\ k \in Keys /\ FormOf(c) \in Forms /\ req[c].OperationID \in OperationIDs
      /\ ContentKey(c) \in Pipelines \X Forms
  BY <1>1, CommitTyped DEF RevisionInv, InTx
<1>4. tx[c].operations[req[c].OperationID].RevisionID = rev
  BY <1>1, <1>2, ConvergedAgree, MintAgree
<1>5. /\ minted' = IF created THEN [minted EXCEPT ![k] = FormOf(c)] ELSE minted
      /\ Return(c, [Outcome |-> IF created THEN "CREATED" ELSE "FOUND",
                    RevisionID |-> rev, Row |-> tx[c].revisions[k]])
  BY <1>4 DEF TxCommit
<1>6. CASE StagedConverged(c, rev)
  <2>1. ~created
    BY <1>1, <1>6, ConvergedAgree
  <2>2. tx[c].revisions[k] = db.revisions[k]
    BY <1>6 DEF StagedConverged, RevisionInv, RevisionTypeOK, Tables
  <2> QED
    BY <1>1, <1>5, <1>6, <2>1, <2>2 DEF Staged
<1>7. CASE StagedMint(c, rev)
  <2>1. created
    BY <1>7 DEF StagedMint
  <2>2. tx[c].revisions[k] = RowOf(FormOf(c))
    BY <1>3, <1>7 DEF StagedMint, RevisionInv, RevisionTypeOK, Tables
  <2> QED
    BY <1>1, <1>5, <1>7, <2>1, <2>2 DEF Staged
<1> QED
  BY <1>2, <1>6, <1>7

LEMMA ConvergedMaps ==
  ASSUME RevisionInv, MapInv, NEW c \in Callers, pc[c] = "commit", req[c].Call = "Commit",
         known' = known, db' = tx[c], db.operations[req[c].OperationID] = Nil,
         NEW rev \in RevisionIDs, StagedConverged(c, rev),
         Return(c, [Outcome |-> "FOUND", RevisionID |-> rev,
                    Row |-> db.revisions[<<req[c].PipelineID, rev>>]])
  PROVE  Mapped
<1> DEFINE o == req[c].OperationID
           p == req[c].PipelineID
           f == FormOf(c)
           k == <<p, rev>>
<1>1. /\ o \in OperationIDs /\ p \in Pipelines /\ f \in Forms /\ ContentKey(c) = <<p, f>>
      /\ pc[c] \in InTx
  BY CommitTyped DEF RevisionInv, InTx
<1>2. /\ db.digestIndex[<<p, f>>] = rev /\ rev # Nil
      /\ Load(db, k) = "FOUND"
  BY <1>1, RevisionConstants DEF StagedConverged, MapInv, ConvergesOnGood
<1>3. /\ k \in Keys /\ minted[k] = f
  BY <1>1, <1>2 DEF Keys, RevisionInv, TablesAgree
<1>4. Return(c, Fetched(db, k))
  BY <1>2 DEF Fetched
<1>5. Promise!Serve(c, <<p, f>>) /\ ~Promise!IsBroken(<<p, f>>)
  BY <1>1, <1>2, <1>4, FetchServes
<1>6. /\ db'.revisions = db.revisions /\ db'.digestIndex = db.digestIndex
      /\ db'.operations = [db.operations EXCEPT ![o] = OperationRow(c, rev)]
  BY DEF StagedConverged, RevisionInv, RevisionTypeOK, Tables
<1>7. Broken' = Broken
  BY <1>6 DEF Broken, Load
<1>8. OperationRow(c, rev) # Nil /\ ContentOf(OperationRow(c, rev).Fingerprint) = <<p, f>>
  BY <1>1, CommitTyped DEF RevisionInv, InTx, OperationRow, FingerprintOf, ContentOf,
     RequestFingerprint, DigestCanonical
<1>9. Bindings' = [Bindings EXCEPT ![o] = <<p, f>>]
  <2>1. db'.operations[o] = OperationRow(c, rev)
        /\ \A q \in OperationIDs \ {o} : db'.operations[q] = db.operations[q]
    BY <1>1, <1>6 DEF RevisionInv, RevisionTypeOK, Tables
  <2> QED
    BY <1>8, <2>1 DEF Bindings
<1>10. Promise!Operation(c) = o /\ Promise!Wanted(c) = <<p, f>>
  BY <1>1, CommitAsked
<1>11. Bindings[o] = Nil
  BY <1>1, Unbound
<1>12. Promise!Converge(c)
  BY <1>2, <1>5, <1>6, <1>7, <1>9, <1>10, <1>11 DEF Promise!Converge
<1> QED
  BY <1>1, <1>12, CommitResponds

LEMMA MintedMaps ==
  ASSUME RevisionInv, MapInv, NEW c \in Callers, pc[c] = "commit", req[c].Call = "Commit",
         known' = known, db' = tx[c], db.operations[req[c].OperationID] = Nil,
         NEW rev \in RevisionIDs, StagedMint(c, rev),
         Return(c, [Outcome |-> "CREATED", RevisionID |-> rev, Row |-> RowOf(FormOf(c))])
  PROVE  Mapped
<1> DEFINE o == req[c].OperationID
           p == req[c].PipelineID
           f == FormOf(c)
           k == <<p, rev>>
           answer == [Outcome |-> "CREATED", RevisionID |-> rev, Row |-> RowOf(f)]
<1>1. /\ o \in OperationIDs /\ p \in Pipelines /\ f \in Forms /\ f # Nil
      /\ ContentKey(c) = <<p, f>> /\ pc[c] \in InTx /\ k \in Keys
  BY CommitTyped DEF RevisionInv, InTx, Keys
<1>2. db.digestIndex[<<p, f>>] = Nil /\ db.revisions[k] = Nil /\ minted[k] = Nil
  BY <1>1 DEF StagedMint, RevisionInv, TablesAgree
<1>3. /\ db'.revisions = [db.revisions EXCEPT ![k] = RowOf(f)]
      /\ db'.operations = [db.operations EXCEPT ![o] = OperationRow(c, rev)]
      /\ db'.digestIndex = [db.digestIndex EXCEPT ![<<p, f>>] = rev]
  BY <1>1 DEF StagedMint, RevisionInv, RevisionTypeOK, Tables
<1>4. Broken' = Broken
  <2>1. /\ db'.revisions[k] = RowOf(f)
        /\ \A j \in Keys \ {k} : db'.revisions[j] = db.revisions[j]
    BY <1>1, <1>3 DEF RevisionInv, RevisionTypeOK, Tables
  <2>2. Load(db', k) # "INTEGRITY"
    BY <1>1, <2>1 DEF Load, RowOf
  <2>3. Load(db, k) # "INTEGRITY"
    BY <1>2 DEF Load
  <2>4. \A j \in Keys \ {k} : Load(db', j) = Load(db, j)
    BY <2>1 DEF Load
  <2> HIDE DEF k
  <2> QED
    BY <2>2, <2>3, <2>4 DEF Broken
<1>5. OperationRow(c, rev) # Nil /\ ContentOf(OperationRow(c, rev).Fingerprint) = <<p, f>>
  BY <1>1, CommitTyped DEF RevisionInv, InTx, OperationRow, FingerprintOf, ContentOf,
     RequestFingerprint, DigestCanonical
<1>6. Bindings' = [Bindings EXCEPT ![o] = <<p, f>>]
  <2>1. db'.operations[o] = OperationRow(c, rev)
        /\ \A q \in OperationIDs \ {o} : db'.operations[q] = db.operations[q]
    BY <1>1, <1>3 DEF RevisionInv, RevisionTypeOK, Tables
  <2> QED
    BY <1>5, <2>1 DEF Bindings
<1>7. IsCall(c) /\ Promise!Operation(c) = o /\ Promise!Wanted(c) = <<p, f>>
  BY <1>1, CommitAsked
<1>8. Bindings[o] = Nil /\ Promise!Holding(k) = {}
  BY <1>1, <1>2, Unbound, HoldingMinted
<1>9. Promise!Reply(c, "CREATED", rev, f)
  <2>1. Promise!Reply(c, answer.Outcome, answer.RevisionID, ContentIn(answer.Row))
    <3>1. Return(c, answer)
      OBVIOUS
    <3> HIDE DEF answer
    <3> QED
      BY <1>1, <1>7, <3>1, ReturnReplies DEF RevisionInv
  <2>2. answer.Outcome = "CREATED" /\ answer.RevisionID = rev /\ ContentIn(answer.Row) = f
    BY <1>1, RowTyped DEF ContentIn, RowOf
  <2> HIDE DEF answer
  <2> QED
    BY <2>1, <2>2
<1>10. <<p, f>>[1] = p /\ <<p, f>>[2] = f
  OBVIOUS
<1> HIDE DEF o, p, f
<1>11. Promise!Create(c, rev)
  BY <1>2, <1>3, <1>4, <1>6, <1>7, <1>8, <1>9, <1>10 DEF Promise!Create
<1> QED
  BY <1>1, <1>11, CommitResponds

LEMMA TxCommitMaps ==
  ASSUME RevisionInv, MapInv, NEW c \in Callers, TxCommit(c)
  PROVE  Mapped
  BY CommitEffect, ConvergedMaps, MintedMaps

LEMMA StepMaps ==
  ASSUME RevisionInv, MapInv, [Next]_vars
  PROVE  Mapped
<1>1. ASSUME NEW h \in Handles, CreateTable(h) \/ Open(h) \/ Crash(h)
      PROVE  Mapped
  BY <1>1, OpenMaps, CrashMaps
<1>2. ASSUME NEW k \in Keys, NEW d \in Damage, DamageRow(k, d)
      PROVE  Mapped
  BY <1>2, DamageRowMaps
<1>3. ASSUME NEW c \in Callers, NEW r \in Requests, Start(c, r)
      PROVE  Mapped
  BY <1>3, StartMaps
<1>4. ASSUME NEW c \in Callers, Begin(c) \/ Finish(c)
      PROVE  Mapped
  BY <1>4, LookupMaps, FinishMaps
<1>5. ASSUME NEW c \in Callers, Advance(c)
      PROVE  Mapped
  BY <1>5, GetRevisionMaps, ReplayOrConflictMaps, LookupMaps, PrepareMaps, RecordConvergedMaps,
     MintMaps, TxCommitMaps, FailMaps DEF Advance
<1>6. CASE UNCHANGED vars
  <2>1. UNCHANGED <<db, pc, req, reply, known>>
    BY <1>6 DEF vars, callVars
  <2> QED
    BY <2>1, CallStands, Stutters
<1> QED
  BY <1>1, <1>2, <1>3, <1>4, <1>5, <1>6 DEF Next

(***************************************************************************)
(* What the mapping needs is invariant.                                    *)
(***************************************************************************)
LEMMA MapInit == Init => MapInv
<1> SUFFICES ASSUME Init
             PROVE  MapInv
  OBVIOUS
<1>1. RowsGood
  BY DEF Init, RowsGood, Load, Empty
<1>2. reply = [c \in Callers |-> reply[c]]
  BY DEF Init
<1> QED
  BY <1>1, <1>2 DEF Init, MapInv, KnownStays, AsksOfNew, ConvergesOnGood, InTx

(* What holds of a call stands while it rests and its content's revision and
   row do.                                                                 *)
CallMap(c) == KnownStays(c) /\ AsksOfNew(c) /\ ConvergesOnGood(c)

LEMMA MapUndisturbed ==
  ASSUME NEW d \in Callers, CallMap(d), pc'[d] = pc[d], req'[d] = req[d], tx'[d] = tx[d],
         known'[d] = known[d], db' = db
  PROVE  CallMap(d)'
  BY DEF CallMap, KnownStays, AsksOfNew, ConvergesOnGood, StagedConverged, ContentKey, FormOf,
     OperationRow, FingerprintOf, Load

LEMMA MapOver ==
  ASSUME NEW d \in Callers, pc'[d] \in {"idle", "done"}
  PROVE  CallMap(d)'
  BY DEF CallMap, KnownStays, AsksOfNew, ConvergesOnGood, InTx

LEMMA RowsStand ==
  ASSUME RowsGood, db' = db, minted' = minted
  PROVE  RowsGood'
  BY DEF RowsGood, Load

(* A step of one call that leaves the tables as they are. *)
LEMMA MapStep ==
  ASSUME RevisionInv, MapInv, NEW c \in Callers, CallMap(c)', db' = db, minted' = minted,
         \A d \in Callers \ {c} : /\ pc'[d] = pc[d] /\ req'[d] = req[d] /\ tx'[d] = tx[d]
                                 /\ known'[d] = known[d],
         reply' = [d \in Callers |-> reply'[d]]
  PROVE  MapInv'
<1>1. ASSUME NEW d \in Callers
      PROVE  CallMap(d)'
  BY MapUndisturbed DEF MapInv, CallMap
<1> QED
  BY <1>1, RowsStand DEF MapInv, CallMap

LEMMA ReturnMap ==
  ASSUME RevisionInv, MapInv, NEW c \in Callers, NEW answer, Return(c, answer),
         UNCHANGED <<db, minted, known>>
  PROVE  MapInv'
<1>1. /\ pc' = [pc EXCEPT ![c] = "done"] /\ reply' = [reply EXCEPT ![c] = answer]
      /\ tx' = [tx EXCEPT ![c] = Empty] /\ req' = req
  BY DEF Return, Release
<1>2. pc'[c] = "done"
  BY <1>1 DEF RevisionInv, RevisionTypeOK
<1>3. \A d \in Callers \ {c} : /\ pc'[d] = pc[d] /\ req'[d] = req[d] /\ tx'[d] = tx[d]
                               /\ known'[d] = known[d]
  BY <1>1 DEF RevisionInv, RevisionTypeOK
<1>4. reply' = [d \in Callers |-> reply'[d]]
  BY <1>1 DEF MapInv
<1> QED
  BY <1>2, <1>3, <1>4, MapOver, MapStep

(* A step inside a call: what it must show of where it arrives. *)
LEMMA InsideMap ==
  ASSUME RevisionInv, MapInv, NEW c \in Callers, pc[c] \in InTx \cup {"begin"},
         NEW step \in InTx, pc' = [pc EXCEPT ![c] = step],
         tx' = tx \/ (\E view : tx' = [tx EXCEPT ![c] = view]),
         UNCHANGED <<db, minted, known, req, reply>>,
         AsksOfNew(c)', ConvergesOnGood(c)'
  PROVE  MapInv'
<1>1. pc'[c] = step /\ \A d \in Callers \ {c} : pc'[d] = pc[d] /\ tx'[d] = tx[d]
  BY DEF RevisionInv, RevisionTypeOK
<1>2. KnownStays(c)'
  BY <1>1 DEF MapInv, KnownStays, ContentKey, FormOf
<1>3. reply' = [d \in Callers |-> reply'[d]]
  BY DEF MapInv
<1> QED
  BY <1>1, <1>2, <1>3, MapStep DEF CallMap

LEMMA StartMap ==
  ASSUME RevisionInv, MapInv, NEW c \in Callers, NEW r \in Requests, Start(c, r)
  PROVE  MapInv'
<1>1. /\ UNCHANGED <<db, minted, tx>> /\ req' = [req EXCEPT ![c] = r]
      /\ known' = [known EXCEPT ![c] = KnownOf(r)]
      /\ pc' = [pc EXCEPT ![c] = "done"] \/ pc' = [pc EXCEPT ![c] = "begin"]
      /\ reply' = [reply EXCEPT ![c] = Answer("UNPARSABLE")] \/ reply' = reply
  BY DEF Start
<1>2. /\ req'[c] = r /\ known'[c] = KnownOf(r) /\ pc'[c] \in {"done", "begin"}
      /\ \A d \in Callers \ {c} : /\ pc'[d] = pc[d] /\ req'[d] = req[d] /\ tx'[d] = tx[d]
                                 /\ known'[d] = known[d]
  BY <1>1 DEF RevisionInv, RevisionTypeOK
<1>3. CallMap(c)'
  <2>1. CASE pc'[c] = "done"
    BY <2>1, MapOver
  <2>2. CASE pc'[c] = "begin"
    <3>1. AsksOfNew(c)' /\ ConvergesOnGood(c)'
      BY <2>2 DEF AsksOfNew, ConvergesOnGood
    <3>2. r.Call = "Commit" /\ KnownOf(r) # "nothing" =>
            db.digestIndex[<<r.PipelineID, Canonical[r.Body]>>] # Nil
      <4>1. r.Call = "Commit" /\ KnownOf(r) # "nothing" => Canonical[r.Body] # Nil
        BY DEF KnownOf
      <4> QED
        BY <4>1, KnownIsIndexed
    <3>3. KnownStays(c)'
      BY <1>1, <1>2, <3>2 DEF KnownStays, ContentKey, FormOf
    <3> QED
      BY <3>1, <3>3 DEF CallMap
  <2> QED
    BY <1>2, <2>1, <2>2
<1>4. reply' = [d \in Callers |-> reply'[d]]
  BY <1>1 DEF MapInv
<1> QED
  BY <1>1, <1>2, <1>3, <1>4, MapStep

LEMMA LookupMap ==
  ASSUME RevisionInv, MapInv, NEW c \in Callers, Lookup(c)
  PROVE  MapInv'
<1> DEFINE step == IF db.digestIndex[ContentKey(c)] # Nil THEN "converge" ELSE "prepare"
<1>1. /\ pc[c] = "lookup" /\ req[c].Call = "Commit" /\ tx' = [tx EXCEPT ![c] = db]
      /\ pc' = [pc EXCEPT ![c] = step] /\ UNCHANGED <<db, minted, known, req, reply>>
  BY DEF Lookup, Goto, NoWrite
<1>2. pc[c] \in InTx /\ step \in InTx /\ pc'[c] = step
  BY <1>1 DEF InTx, RevisionInv, RevisionTypeOK
<1>3. ConvergesOnGood(c)'
  BY <1>2 DEF ConvergesOnGood
<1>4. AsksOfNew(c)'
  BY <1>1, <1>2 DEF AsksOfNew, MapInv, KnownStays
<1> HIDE DEF step
<1> QED
  BY <1>1, <1>2, <1>3, <1>4, InsideMap

LEMMA PrepareMap ==
  ASSUME RevisionInv, MapInv, NEW c \in Callers, Begin(c) \/ Prepare(c)
  PROVE  MapInv'
<1>1. CASE Return(c, Answer("REFUSED")) /\ NoWrite
  BY <1>1, ReturnMap DEF NoWrite
<1>2. ASSUME NEW step \in {"lookup", "mint"}, pc[c] \in InTx \cup {"begin"},
             pc' = [pc EXCEPT ![c] = step], UNCHANGED <<db, minted, known, req, reply, tx>>
      PROVE  MapInv'
  <2>1. AsksOfNew(c)' /\ ConvergesOnGood(c)'
    BY <1>2 DEF AsksOfNew, ConvergesOnGood, RevisionInv, RevisionTypeOK
  <2> QED
    BY <1>2, <2>1, InsideMap DEF InTx
<1> QED
  BY <1>1, <1>2 DEF Begin, Prepare, Goto, NoWrite, InTx

LEMMA RecordConvergedMap ==
  ASSUME RevisionInv, MapInv, NEW c \in Callers, RecordConverged(c)
  PROVE  MapInv'
<1> DEFINE o == req[c].OperationID
           p == req[c].PipelineID
           rev == db.digestIndex[ContentKey(c)]
           staged == [tx[c] EXCEPT !.operations[o] = OperationRow(c, rev)]
           got == Fetched(staged, <<p, rev>>)
<1>1. /\ pc[c] = "converge" /\ pc[c] \in InTx /\ tx[c] = db /\ NoWrite
      /\ \/ Return(c, got)
         \/ got.Outcome = "FOUND" /\ Goto(c, "commit") /\ tx' = [tx EXCEPT ![c] = staged]
  BY DEF RecordConverged, MayWrite, InTx
<1>2. CASE Return(c, got)
  <2> HIDE DEF got
  <2> QED
    BY <1>1, <1>2, ReturnMap DEF NoWrite
<1>3. CASE got.Outcome = "FOUND" /\ Goto(c, "commit") /\ tx' = [tx EXCEPT ![c] = staged]
  <2>1. /\ pc' = [pc EXCEPT ![c] = "commit"] /\ UNCHANGED <<db, minted, known, req, reply>>
    BY <1>1, <1>3 DEF Goto, NoWrite
  <2>2. staged.revisions = db.revisions
    BY <1>1 DEF RevisionInv, RevisionTypeOK, Tables
  <2>3. Load(db, <<p, rev>>) = "FOUND"
    <3>1. Load(staged, <<p, rev>>) = Load(db, <<p, rev>>)
      <4> HIDE DEF staged
      <4> QED
        BY <2>2 DEF Load
    <3> HIDE DEF staged
    <3> QED
      BY <1>3, <3>1 DEF Fetched, Answer
  <2>4. AsksOfNew(c)'
    BY <2>1 DEF AsksOfNew, RevisionInv, RevisionTypeOK
  <2>5. ConvergesOnGood(c)'
    <3>1. ASSUME NEW r2 \in RevisionIDs, StagedConverged(c, r2)'
          PROVE  r2 = rev
      BY <2>1, <3>1 DEF StagedConverged, ContentKey, FormOf
    <3>2. ASSUME NEW r2 \in RevisionIDs, StagedConverged(c, r2)'
          PROVE  Load(db', <<req'[c].PipelineID, r2>>) = "FOUND"
      BY <2>1, <2>3, <3>1, <3>2
    <3> QED
      BY <3>2 DEF ConvergesOnGood
  <2> HIDE DEF staged
  <2>6. \E view : tx' = [tx EXCEPT ![c] = view]
    BY <1>3
  <2> QED
    BY <1>1, <2>1, <2>4, <2>5, <2>6, InsideMap DEF InTx
<1> QED
  BY <1>1, <1>2, <1>3

LEMMA MintMap ==
  ASSUME RevisionInv, MapInv, NEW c \in Callers, NEW rev \in RevisionIDs, Mint(c, rev)
  PROVE  MapInv'
<1>1. /\ pc[c] = "mint" /\ pc[c] \in InTx /\ tx[c] = db
      /\ pc' = [pc EXCEPT ![c] = "commit"] /\ UNCHANGED <<db, minted, known, req, reply>>
  BY DEF Mint, MayWrite, Goto, NoWrite, InTx
<1> DEFINE staged == [tx[c] EXCEPT !.revisions[<<req[c].PipelineID, rev>>] = RowOf(FormOf(c)),
                                   !.operations[req[c].OperationID] = OperationRow(c, rev),
                                   !.digestIndex[ContentKey(c)] = rev]
<1>2. \E view : tx' = [tx EXCEPT ![c] = view]
  <2>1. tx' = [tx EXCEPT ![c] = staged]
    BY DEF Mint
  <2> HIDE DEF staged
  <2> QED
    BY <2>1
<1>3. AsksOfNew(c)'
  BY <1>1 DEF AsksOfNew, RevisionInv, RevisionTypeOK
<1>4. db.digestIndex[ContentKey(c)] = Nil
  BY <1>1 DEF RevisionInv, CallerInv
<1>5. ConvergesOnGood(c)'
  BY <1>1, <1>4, RevisionConstants DEF ConvergesOnGood, StagedConverged, ContentKey, FormOf
<1> QED
  BY <1>1, <1>2, <1>3, <1>5, InsideMap DEF InTx

LEMMA TxCommitMap ==
  ASSUME RevisionInv, MapInv, NEW c \in Callers, TxCommit(c)
  PROVE  MapInv'
<1>1. /\ pc[c] = "commit" /\ req[c].Call = "Commit" /\ known' = known /\ db' = tx[c]
  BY CommitEffect
<1>2. PICK rev \in RevisionIDs :
        \/ StagedConverged(c, rev) /\ minted' = minted
        \/ /\ StagedMint(c, rev)
           /\ minted' = [minted EXCEPT ![<<req[c].PipelineID, rev>>] = FormOf(c)]
  BY CommitEffect
<1> DEFINE k == <<req[c].PipelineID, rev>>
<1>3. k \in Keys /\ FormOf(c) \in Forms /\ ContentKey(c) \in Pipelines \X Forms
  BY <1>1, CommitTyped DEF RevisionInv, InTx
<1>4. /\ \A j \in Keys : \/ db'.revisions[j] = db.revisions[j] /\ minted'[j] = minted[j]
                        \/ db'.revisions[j] = RowOf(minted'[j])
      /\ \A x \in Pipelines \X Forms : db.digestIndex[x] # Nil => db'.digestIndex[x] # Nil
  <2>1. CASE StagedConverged(c, rev) /\ minted' = minted
    BY <1>1, <2>1 DEF StagedConverged, RevisionInv, RevisionTypeOK, Tables
  <2>2. CASE StagedMint(c, rev) /\ minted' = [minted EXCEPT ![k] = FormOf(c)]
    <3>1. /\ db'.revisions = [db.revisions EXCEPT ![k] = RowOf(FormOf(c))]
          /\ db'.digestIndex = [db.digestIndex EXCEPT ![ContentKey(c)] = rev]
      BY <1>1, <2>2 DEF StagedMint, RevisionInv, RevisionTypeOK, Tables
    <3>2. \A j \in Keys : /\ db'.revisions[j] = IF j = k THEN RowOf(FormOf(c)) ELSE db.revisions[j]
                          /\ minted'[j] = IF j = k THEN FormOf(c) ELSE minted[j]
      BY <2>2, <3>1 DEF RevisionInv, RevisionTypeOK, Tables
    <3>3. \A x \in Pipelines \X Forms :
            db'.digestIndex[x] = IF x = ContentKey(c) THEN rev ELSE db.digestIndex[x]
      BY <3>1 DEF RevisionInv, RevisionTypeOK, Tables
    <3> HIDE DEF k
    <3> QED
      BY <3>2, <3>3, RevisionConstants
  <2> QED
    BY <1>2, <2>1, <2>2
<1>5. RowsGood'
  <2> SUFFICES ASSUME NEW j \in Keys, Load(db', j) = "FOUND"
               PROVE  db'.revisions[j] = RowOf(minted'[j])
    BY DEF RowsGood
  <2>1. CASE db'.revisions[j] = db.revisions[j] /\ minted'[j] = minted[j]
    <3>1. Load(db, j) = "FOUND"
      BY <2>1 DEF Load
    <3> QED
      BY <2>1, <3>1 DEF MapInv, RowsGood
  <2> QED
    BY <1>4, <2>1
<1>6. /\ pc' = [pc EXCEPT ![c] = "done"] /\ req' = req
      /\ \E answer : reply' = [reply EXCEPT ![c] = answer]
  BY DEF TxCommit, Return
<1>7. reply' = [d \in Callers |-> reply'[d]]
  BY <1>6 DEF MapInv
<1>8. ASSUME NEW d \in Callers
      PROVE  CallMap(d)'
  <2>1. CASE d = c
    <3>1. pc'[d] = "done"
      BY <1>6, <2>1 DEF RevisionInv, RevisionTypeOK
    <3> QED
      BY <3>1, MapOver
  <2>2. CASE d # c
    <3>1. pc'[d] = pc[d] /\ req'[d] = req[d] /\ known'[d] = known[d] /\ pc[d] # "commit"
      BY <1>1, <1>6, <2>2 DEF RevisionInv, RevisionTypeOK, OneWriter
    <3>2. AsksOfNew(d)' /\ ConvergesOnGood(d)'
      BY <3>1 DEF MapInv, AsksOfNew, ConvergesOnGood
    <3>3. KnownStays(d)'
      <4> SUFFICES ASSUME pc[d] \in InTx \cup {"begin"}, req[d].Call = "Commit",
                          known[d] # "nothing"
                   PROVE  db'.digestIndex[ContentKey(d)] # Nil
        BY <3>1 DEF KnownStays, ContentKey, FormOf
      <4>1. db.digestIndex[ContentKey(d)] # Nil
        BY DEF MapInv, KnownStays
      <4>2. ContentKey(d) \in Pipelines \X Forms
        BY CommitTyped DEF RevisionInv
      <4> QED
        BY <1>4, <4>1, <4>2
    <3> QED
      BY <3>2, <3>3 DEF CallMap
  <2> QED
    BY <2>1, <2>2
<1> QED
  BY <1>5, <1>7, <1>8 DEF MapInv, CallMap

LEMMA FinishMap ==
  ASSUME RevisionInv, MapInv, NEW c \in Callers, Finish(c)
  PROVE  MapInv'
<1>1. /\ UNCHANGED <<db, tx, minted>> /\ pc' = [pc EXCEPT ![c] = "idle"]
      /\ req' = [req EXCEPT ![c] = Nil] /\ reply' = [reply EXCEPT ![c] = Nil]
      /\ known' = [known EXCEPT ![c] = "nothing"]
  BY DEF Finish
<1>2. /\ pc'[c] = "idle"
      /\ \A d \in Callers \ {c} : /\ pc'[d] = pc[d] /\ req'[d] = req[d] /\ tx'[d] = tx[d]
                                 /\ known'[d] = known[d]
  BY <1>1 DEF RevisionInv, RevisionTypeOK
<1>3. reply' = [d \in Callers |-> reply'[d]]
  BY <1>1 DEF MapInv
<1> QED
  BY <1>1, <1>2, <1>3, MapOver, MapStep

LEMMA HandleMap ==
  ASSUME RevisionInv, MapInv, NEW h \in Handles, CreateTable(h) \/ Open(h) \/ Crash(h)
  PROVE  MapInv'
<1>1. ASSUME NEW d \in Callers
      PROVE  CallMap(d)'
  <2>1. \/ pc'[d] = "idle"
        \/ /\ pc'[d] = pc[d] /\ req'[d] = req[d] /\ tx'[d] = tx[d] /\ known'[d] = known[d]
           /\ db' = db
    BY DEF CreateTable, Open, Crash, callVars
  <2>2. CallMap(d)
    BY DEF MapInv, CallMap
  <2> QED
    BY <2>1, <2>2, MapUndisturbed, MapOver
<1>2. db' = db /\ minted' = minted /\ reply' = [d \in Callers |-> reply'[d]]
  BY DEF CreateTable, Open, Crash, callVars, MapInv
<1>3. RowsGood'
  BY <1>2, RowsStand DEF MapInv
<1> QED
  BY <1>1, <1>2, <1>3 DEF MapInv, CallMap

LEMMA DamageRowMap ==
  ASSUME RevisionInv, MapInv, NEW k \in Keys, NEW d \in Damage, DamageRow(k, d)
  PROVE  MapInv'
<1>1. /\ Load(db, k)' = "FOUND" => db'.revisions[k] = RowOf(minted[k])
      /\ \A j \in Keys \ {k} : db'.revisions[j] = db.revisions[j]
      /\ db'.digestIndex = db.digestIndex /\ \A h \in Handles : conn[h] = Nil
      /\ UNCHANGED <<pc, req, reply, tx, minted, known>>
  BY DamagedRow
<1>2. RowsGood'
  <2>1. \A j \in Keys \ {k} : Load(db', j) = Load(db, j)
    BY <1>1 DEF Load
  <2> QED
    BY <1>1, <2>1 DEF MapInv, RowsGood
<1>3. ASSUME NEW c \in Callers
      PROVE  CallMap(c)'
  <2>1. pc[c] # "commit"
    BY <1>1, RevisionConstants DEF RevisionInv, CallerInv, InTx
  <2> QED
    BY <1>1, <2>1 DEF MapInv, CallMap, KnownStays, AsksOfNew, ConvergesOnGood, ContentKey, FormOf
<1>4. reply' = [c \in Callers |-> reply'[c]]
  BY <1>1 DEF MapInv
<1> QED
  BY <1>2, <1>3, <1>4 DEF MapInv, CallMap

LEMMA MapKept == RevisionInv /\ MapInv /\ [Next]_vars => MapInv'
<1> SUFFICES ASSUME RevisionInv, MapInv, [Next]_vars
             PROVE  MapInv'
  OBVIOUS
<1>1. ASSUME NEW k \in Keys, NEW d \in Damage, DamageRow(k, d)
      PROVE  MapInv'
  BY <1>1, DamageRowMap
<1>2. ASSUME NEW h \in Handles, CreateTable(h) \/ Open(h) \/ Crash(h)
      PROVE  MapInv'
  BY <1>2, HandleMap
<1>3. ASSUME NEW c \in Callers, NEW r \in Requests, Start(c, r)
      PROVE  MapInv'
  BY <1>3, StartMap
<1>4. ASSUME NEW c \in Callers, Begin(c) \/ Finish(c)
      PROVE  MapInv'
  BY <1>4, PrepareMap, FinishMap
<1>5. ASSUME NEW c \in Callers, Advance(c)
      PROVE  MapInv'
  <2>1. ASSUME NEW answer, Return(c, answer), UNCHANGED <<db, minted, known>>
        PROVE  MapInv'
    BY <2>1, ReturnMap
  <2>2. CASE GetRevision(c) \/ ReplayOrConflict(c) \/ Fail(c)
    <3>1. (\E answer : Return(c, answer)) /\ UNCHANGED <<db, minted, known>>
      BY <2>2 DEF GetRevision, ReplayOrConflict, Fail, NoWrite
    <3> QED
      BY <2>1, <3>1
  <2>3. CASE ~(GetRevision(c) \/ ReplayOrConflict(c) \/ Fail(c))
    BY <1>5, <2>3, LookupMap, PrepareMap, RecordConvergedMap, MintMap, TxCommitMap DEF Advance
  <2> QED
    BY <2>2, <2>3
<1>6. CASE UNCHANGED vars
  <2>1. UNCHANGED <<db, pc, req, reply, tx, minted, known>>
    BY <1>6 DEF vars, callVars
  <2>2. \A d \in Callers : CallMap(d)'
    BY <2>1, MapUndisturbed DEF MapInv, CallMap
  <2> QED
    BY <2>1, <2>2, RowsStand DEF MapInv, CallMap
<1> QED
  BY <1>1, <1>2, <1>3, <1>4, <1>5, <1>6 DEF Next

LEMMA InitMaps == Init => Promise!PromiseInit
<1> SUFFICES ASSUME Init
             PROVE  Promise!PromiseInit
  OBVIOUS
<1>1. db = Empty /\ \A c \in Callers : pc[c] = "idle"
  BY DEF Init
<1>2. db.digestIndex = [x \in Promise!Contents |-> Nil]
  BY <1>1 DEF Empty, Promise!Contents
<1>3. Bindings = [o \in OperationIDs |-> Nil]
  BY <1>1 DEF Bindings, Empty
<1>4. Broken = {}
  BY <1>1 DEF Broken, Load, Empty
<1>5. Calls = [c \in Callers |-> Promise!NoCall]
  BY <1>1 DEF Calls, CallOf, IsCall, Promise!NoCall
<1> QED
  BY <1>2, <1>3, <1>4, <1>5 DEF Promise!PromiseInit

(* Commit and GetRevision implement the atomic ledger: for every number of
   processes, goroutines, pipelines, operations, bodies and damaged cells,
   and through crashes, failed statements and a catalog that drifts, every
   call takes effect in one step of RevisionPromise, or not at all.        *)
THEOREM StoreImplementsLedger == Spec => ImplementsLedger
<1>1. Init => RevisionInv /\ MapInv /\ Promise!PromiseInit
  BY InitInv, MapInit, InitMaps
<1>2. RevisionInv /\ MapInv /\ [Next]_vars => RevisionInv' /\ MapInv'
  BY RevisionStep, MapKept
<1>3. RevisionInv /\ MapInv /\ [Next]_vars =>
        [Promise!PromiseNext]_(Promise!promiseVars)
  BY StepMaps DEF Mapped
<1> QED
  BY <1>1, <1>2, <1>3, PTL DEF Spec, ImplementsLedger, Promise!PromiseSpec

(***************************************************************************)
(* What is returned.                                                       *)
(***************************************************************************)
PipelineOf(c) == IF req[c].Call = "Commit" THEN req[c].PipelineID ELSE req[c].Key[1]

Returned(c) ==
  pc[c] = "done" /\ reply[c].RevisionID # Nil =>
    LET k == <<PipelineOf(c), reply[c].RevisionID>> IN
    /\ k \in Keys /\ minted[k] # Nil /\ reply[c].Row = RowOf(minted[k])
    /\ req[c].Call = "Commit" => minted[k] = FormOf(c)

ReturnInv == \A c \in Callers : Returned(c)

MintedStays == \A k \in Keys : minted[k] # Nil => minted'[k] = minted[k]

LEMMA ReturnedStands ==
  ASSUME NEW d \in Callers, Returned(d), MintedStays, pc'[d] = pc[d], req'[d] = req[d],
         reply'[d] = reply[d]
  PROVE  Returned(d)'
  BY DEF Returned, MintedStays, PipelineOf, FormOf

LEMMA NothingReturned ==
  ASSUME NEW d \in Callers, pc'[d] # "done" \/ reply'[d].RevisionID = Nil
  PROVE  Returned(d)'
  BY DEF Returned

(* One call moves, the others rest. *)
LEMMA ReturnedMoves ==
  ASSUME ReturnInv, NEW c \in Callers, Returned(c)', MintedStays,
         \A d \in Callers \ {c} : pc'[d] = pc[d] /\ req'[d] = req[d] /\ reply'[d] = reply[d]
  PROVE  ReturnInv'
<1>1. ASSUME NEW d \in Callers \ {c}
      PROVE  Returned(d)'
  BY ReturnedStands DEF ReturnInv
<1> QED
  BY <1>1 DEF ReturnInv

(* A call returns a revision only with the row that was minted for it. *)
GoodAnswer(c, answer) ==
  answer.RevisionID # Nil =>
    LET k == <<PipelineOf(c), answer.RevisionID>> IN
    /\ k \in Keys /\ minted'[k] # Nil /\ answer.Row = RowOf(minted'[k])
    /\ req[c].Call = "Commit" => minted'[k] = FormOf(c)

LEMMA AnswerReturned ==
  ASSUME RevisionInv, MapInv, ReturnInv, MintedStays, NEW c \in Callers, NEW answer,
         Return(c, answer), GoodAnswer(c, answer)
  PROVE  ReturnInv'
<1>1. /\ pc' = [pc EXCEPT ![c] = "done"] /\ reply' = [reply EXCEPT ![c] = answer]
      /\ req' = req
  BY DEF Return
<1>2. reply'[c] = answer
      /\ \A d \in Callers \ {c} : pc'[d] = pc[d] /\ req'[d] = req[d] /\ reply'[d] = reply[d]
  BY <1>1 DEF RevisionInv, RevisionTypeOK, MapInv
<1>3. Returned(c)'
  BY <1>1, <1>2 DEF Returned, GoodAnswer, PipelineOf, FormOf
<1> QED
  BY <1>2, <1>3, ReturnedMoves

LEMMA RefusalReturned ==
  ASSUME RevisionInv, MapInv, ReturnInv, NEW c \in Callers, NEW outcome,
         Return(c, Answer(outcome)), minted' = minted
  PROVE  ReturnInv'
<1> DEFINE answer == Answer(outcome)
<1>1. MintedStays /\ GoodAnswer(c, answer) /\ Return(c, answer)
  BY DEF MintedStays, GoodAnswer, Answer
<1> HIDE DEF answer
<1> QED
  BY <1>1, AnswerReturned

LEMMA FetchReturned ==
  ASSUME RevisionInv, MapInv, ReturnInv, NEW c \in Callers, NEW rev \in RevisionIDs,
         PipelineOf(c) \in Pipelines, Return(c, Fetched(db, <<PipelineOf(c), rev>>)),
         minted' = minted,
         req[c].Call = "Commit" => minted[<<PipelineOf(c), rev>>] = FormOf(c)
  PROVE  ReturnInv'
<1> DEFINE k == <<PipelineOf(c), rev>>
           answer == Fetched(db, k)
<1>1. k \in Keys
  BY DEF Keys
<1>2. answer.RevisionID # Nil =>
        Load(db, k) = "FOUND" /\ answer.RevisionID = rev /\ answer.Row = db.revisions[k]
  BY DEF Fetched, Answer
<1>3. Load(db, k) = "FOUND" => minted[k] # Nil /\ db.revisions[k] = RowOf(minted[k])
  BY <1>1 DEF MapInv, RowsGood, RevisionInv, TablesAgree, Load
<1>4. MintedStays /\ Return(c, answer)
  BY DEF MintedStays
<1> HIDE DEF answer
<1>5. GoodAnswer(c, answer)
  BY <1>1, <1>2, <1>3 DEF GoodAnswer
<1> QED
  BY <1>4, <1>5, AnswerReturned

LEMMA CommitReturned ==
  ASSUME RevisionInv, MapInv, ReturnInv, NEW c \in Callers, TxCommit(c)
  PROVE  ReturnInv'
<1>1. pc[c] = "commit" /\ req[c].Call = "Commit"
  BY CommitEffect
<1>2. PICK rev \in RevisionIDs :
        \/ /\ StagedConverged(c, rev) /\ minted' = minted
           /\ Return(c, [Outcome |-> "FOUND", RevisionID |-> rev,
                         Row |-> db.revisions[<<req[c].PipelineID, rev>>]])
        \/ /\ StagedMint(c, rev)
           /\ minted' = [minted EXCEPT ![<<req[c].PipelineID, rev>>] = FormOf(c)]
           /\ Return(c, [Outcome |-> "CREATED", RevisionID |-> rev, Row |-> RowOf(FormOf(c))])
  BY CommitEffect
<1> DEFINE k == <<req[c].PipelineID, rev>>
<1>3. /\ k \in Keys /\ FormOf(c) \in Forms /\ FormOf(c) # Nil /\ req[c].PipelineID \in Pipelines
      /\ ContentKey(c) = <<req[c].PipelineID, FormOf(c)>> /\ PipelineOf(c) = req[c].PipelineID
  BY <1>1, CommitTyped DEF RevisionInv, InTx, PipelineOf
<1>4. CASE StagedConverged(c, rev) /\ minted' = minted
           /\ Return(c, [Outcome |-> "FOUND", RevisionID |-> rev, Row |-> db.revisions[k]])
  <2>1. minted[k] = FormOf(c)
    BY <1>3, <1>4 DEF StagedConverged, RevisionInv, TablesAgree
  <2>2. Load(db, k) = "FOUND"
    BY <1>1, <1>4 DEF MapInv, ConvergesOnGood
  <2>3. Return(c, Fetched(db, <<PipelineOf(c), rev>>))
    BY <1>3, <1>4, <2>2 DEF Fetched
  <2> QED
    BY <1>3, <1>4, <2>1, <2>3, FetchReturned
<1>5. CASE StagedMint(c, rev) /\ minted' = [minted EXCEPT ![k] = FormOf(c)]
           /\ Return(c, [Outcome |-> "CREATED", RevisionID |-> rev, Row |-> RowOf(FormOf(c))])
  <2> DEFINE answer == [Outcome |-> "CREATED", RevisionID |-> rev, Row |-> RowOf(FormOf(c))]
  <2>1. minted'[k] = FormOf(c) /\ \A j \in Keys \ {k} : minted'[j] = minted[j]
    BY <1>3, <1>5 DEF RevisionInv, RevisionTypeOK
  <2>2. minted[k] = Nil
    BY <1>3, <1>5 DEF StagedMint, RevisionInv, TablesAgree
  <2>3. MintedStays
    BY <2>1, <2>2 DEF MintedStays
  <2>4. Return(c, answer) /\ answer.RevisionID = rev /\ answer.Row = RowOf(FormOf(c))
    BY <1>5
  <2> HIDE DEF answer
  <2>5. GoodAnswer(c, answer)
    BY <1>3, <2>1, <2>4 DEF GoodAnswer
  <2> QED
    BY <2>3, <2>4, <2>5, AnswerReturned
<1> QED
  BY <1>2, <1>4, <1>5

LEMMA GetRevisionReturned ==
  ASSUME RevisionInv, MapInv, ReturnInv, NEW c \in Callers, GetRevision(c)
  PROVE  ReturnInv'
<1>1. /\ pc[c] \in InTx /\ req[c].Call = "GetRevision" /\ minted' = minted
      /\ Return(c, Fetched(db, req[c].Key))
  BY DEF GetRevision, NoWrite, InTx
<1>2. req[c].Key \in Keys
  BY <1>1 DEF RevisionInv, CallerInv, Requests
<1>3. PICK p \in Pipelines, rev \in RevisionIDs : req[c].Key = <<p, rev>>
  BY <1>2 DEF Keys
<1>4. PipelineOf(c) = p
  BY <1>1, <1>3 DEF PipelineOf
<1> QED
  BY <1>1, <1>3, <1>4, FetchReturned

LEMMA ReplayReturned ==
  ASSUME RevisionInv, MapInv, ReturnInv, NEW c \in Callers, ReplayOrConflict(c)
  PROVE  ReturnInv'
<1> DEFINE op == db.operations[req[c].OperationID]
<1>1. /\ pc[c] \in InTx /\ req[c].Call = "Commit" /\ op # Nil /\ minted' = minted
      /\ IF op.Fingerprint = FingerprintOf(c)
           THEN Return(c, Fetched(db, <<req[c].PipelineID, op.RevisionID>>))
           ELSE Return(c, Answer("OPERATION_CONFLICT"))
  BY DEF ReplayOrConflict, InTx
<1>2. /\ req[c].OperationID \in OperationIDs /\ req[c].PipelineID \in Pipelines
      /\ PipelineOf(c) = req[c].PipelineID
  BY <1>1, CommitTyped DEF RevisionInv, PipelineOf
<1>3. CASE op.Fingerprint = FingerprintOf(c)
  <2>1. PICK p \in Pipelines, f \in Forms :
          op.Fingerprint = RequestFingerprint(p, f) /\ minted[<<p, op.RevisionID>>] = f
    BY <1>1, <1>2 DEF RevisionInv, TablesAgree
  <2>2. p = req[c].PipelineID /\ f = FormOf(c)
    BY <1>3, <2>1 DEF FingerprintOf, RequestFingerprint, DigestCanonical
  <2>3. op.RevisionID \in RevisionIDs
    BY <1>1, <1>2 DEF RevisionInv, RevisionTypeOK, Tables, Operation
  <2> QED
    BY <1>1, <1>2, <1>3, <2>1, <2>2, <2>3, FetchReturned
<1>4. CASE op.Fingerprint # FingerprintOf(c)
  BY <1>1, <1>4, RefusalReturned
<1> QED
  BY <1>3, <1>4

(* A step that returns nothing. *)
LEMMA InsideReturned ==
  ASSUME RevisionInv, MapInv, ReturnInv, NEW c \in Callers, NEW step \in InTx \cup {"begin", "idle"},
         pc' = [pc EXCEPT ![c] = step], minted' = minted,
         req' = req \/ (\E r : req' = [req EXCEPT ![c] = r]),
         reply' = reply \/ (\E a : reply' = [reply EXCEPT ![c] = a])
  PROVE  ReturnInv'
<1>1. /\ pc'[c] # "done" /\ MintedStays
      /\ \A d \in Callers \ {c} : pc'[d] = pc[d] /\ req'[d] = req[d] /\ reply'[d] = reply[d]
  BY DEF RevisionInv, RevisionTypeOK, MapInv, InTx, MintedStays
<1> QED
  BY <1>1, NothingReturned, ReturnedMoves

LEMMA StartReturned ==
  ASSUME RevisionInv, MapInv, ReturnInv, NEW c \in Callers, NEW r \in Requests, Start(c, r)
  PROVE  ReturnInv'
<1>1. /\ minted' = minted /\ req' = [req EXCEPT ![c] = r]
      /\ \/ pc' = [pc EXCEPT ![c] = "begin"] /\ reply' = reply
         \/ /\ pc' = [pc EXCEPT ![c] = "done"]
            /\ reply' = [reply EXCEPT ![c] = Answer("UNPARSABLE")]
  BY DEF Start
<1>2. CASE pc' = [pc EXCEPT ![c] = "begin"] /\ reply' = reply
  BY <1>1, <1>2, InsideReturned
<1>3. CASE pc' = [pc EXCEPT ![c] = "done"] /\ reply' = [reply EXCEPT ![c] = Answer("UNPARSABLE")]
  <2>1. /\ reply'[c].RevisionID = Nil /\ MintedStays
        /\ \A d \in Callers \ {c} : pc'[d] = pc[d] /\ req'[d] = req[d] /\ reply'[d] = reply[d]
    BY <1>1, <1>3 DEF RevisionInv, RevisionTypeOK, MapInv, MintedStays, Answer
  <2> QED
    BY <2>1, NothingReturned, ReturnedMoves
<1> QED
  BY <1>1, <1>2, <1>3

LEMMA CallReturned ==
  ASSUME RevisionInv, MapInv, ReturnInv, NEW c \in Callers, Begin(c) \/ Finish(c) \/ Advance(c)
  PROVE  ReturnInv'
<1>1. CASE Begin(c) \/ Lookup(c) \/ (\E rev \in RevisionIDs : Mint(c, rev))
  <2>1. /\ \E step \in InTx : pc' = [pc EXCEPT ![c] = step]
        /\ minted' = minted /\ req' = req /\ reply' = reply
    BY <1>1 DEF Begin, Lookup, Mint, Goto, NoWrite, InTx
  <2> QED
    BY <2>1, InsideReturned
<1>2. CASE Finish(c)
  BY <1>2, InsideReturned DEF Finish
<1>3. CASE Prepare(c)
  <2>1. CASE Return(c, Answer("REFUSED"))
    BY <1>3, <2>1, RefusalReturned DEF Prepare, NoWrite
  <2>2. CASE Goto(c, "mint")
    BY <1>3, <2>2, InsideReturned DEF Prepare, Goto, NoWrite, InTx
  <2> QED
    BY <1>3, <2>1, <2>2 DEF Prepare
<1>4. CASE RecordConverged(c)
  <2>1. CASE Goto(c, "commit")
    BY <1>4, <2>1, InsideReturned DEF RecordConverged, Goto, NoWrite, InTx
  <2>2. ASSUME NEW tables, NEW k, Fetched(tables, k).Outcome # "FOUND",
               Return(c, Fetched(tables, k))
        PROVE  ReturnInv'
    <3>1. Fetched(tables, k) = Answer(Load(tables, k))
      BY <2>2 DEF Fetched
    <3> QED
      BY <1>4, <2>2, <3>1, RefusalReturned DEF RecordConverged, NoWrite
  <2> QED
    BY <1>4, <2>1, <2>2 DEF RecordConverged
<1>5. CASE Fail(c)
  BY <1>5, RefusalReturned DEF Fail, NoWrite
<1> QED
  BY <1>1, <1>2, <1>3, <1>4, <1>5, GetRevisionReturned, ReplayReturned, CommitReturned DEF Advance

LEMMA ReturnStep == RevisionInv /\ MapInv /\ ReturnInv /\ [Next]_vars => ReturnInv'
<1> SUFFICES ASSUME RevisionInv, MapInv, ReturnInv, [Next]_vars
             PROVE  ReturnInv'
  OBVIOUS
<1>1. ASSUME minted' = minted,
             \A d \in Callers :
               \/ pc'[d] = "idle"
               \/ /\ pc'[d] = pc[d] /\ req'[d] = req[d] /\ reply'[d] = reply[d]
      PROVE  ReturnInv'
  <2>1. MintedStays
    BY <1>1 DEF MintedStays
  <2>2. \A d \in Callers : Returned(d)'
    BY <1>1, <2>1, ReturnedStands, NothingReturned DEF ReturnInv
  <2> QED
    BY <2>2 DEF ReturnInv
<1>2. ASSUME NEW h \in Handles, CreateTable(h) \/ Open(h) \/ Crash(h)
      PROVE  ReturnInv'
  <2>1. CASE CreateTable(h) \/ Open(h)
    BY <1>1, <2>1 DEF CreateTable, Open, callVars
  <2>2. CASE Crash(h)
    <3>1. /\ minted' = minted
          /\ \A d \in Callers :
               \/ pc'[d] = "idle"
               \/ /\ pc'[d] = pc[d] /\ req'[d] = req[d] /\ reply'[d] = reply[d]
      BY <2>2 DEF Crash
    <3> QED
      BY <1>1, <3>1
  <2> QED
    BY <1>2, <2>1, <2>2
<1>3. ASSUME NEW k \in Keys, NEW d \in Damage, DamageRow(k, d)
      PROVE  ReturnInv'
  BY <1>1, <1>3 DEF DamageRow, callVars
<1>4. CASE UNCHANGED vars
  BY <1>1, <1>4 DEF vars, callVars
<1>5. ASSUME NEW c \in Callers, (\E r \in Requests : Start(c, r)) \/ Begin(c) \/ Advance(c) \/ Finish(c)
      PROVE  ReturnInv'
  BY <1>5, StartReturned, CallReturned
<1> QED
  BY <1>2, <1>3, <1>4, <1>5 DEF Next

(* Whatever a call returns is what was minted, and for a Commit the content of
   its own request: for every kind of damage to a cell, no row that went bad
   is returned, and no call is answered with another's content.            *)
THEOREM RevisionReturnsMinted == Spec => []ReturnsWhatWasMinted
<1>1. Init => RevisionInv /\ MapInv /\ ReturnInv
  <2>1. Init => ReturnInv
    BY DEF Init, ReturnInv, Returned
  <2> QED
    BY <2>1, InitInv, MapInit
<1>2. RevisionInv /\ MapInv /\ ReturnInv /\ [Next]_vars => RevisionInv' /\ MapInv' /\ ReturnInv'
  BY RevisionStep, MapKept, ReturnStep
<1>3. ReturnInv => ReturnsWhatWasMinted
  BY DEF ReturnInv, Returned, ReturnsWhatWasMinted, PipelineOf
<1> QED
  BY <1>1, <1>2, <1>3, PTL DEF Spec
=============================================================================
