------------------------- MODULE IntentAnswersProofs -------------------------
(***************************************************************************)
(* What the answers of the Service say, for as long as the caller holds    *)
(* them: the intent a call returned stays the one its request names, at    *)
(* most one call created it, and the membership a stop returned accounts   *)
(* for every intent of the epochs it closed.  The invariant adds to        *)
(* ServiceInv what an answer claims; Evolves is what any step may do to    *)
(* the state it claims it of.  Then the policy records calls return, which *)
(* are folds of the log (RecordsHalf); and, last, that every step of the   *)
(* service is a step of IntentPromise or none.                             *)
(***************************************************************************)
EXTENDS IntentServiceProofs, IntentRefinement

AboutIntent(r) == r.Call \in {"AdmitAutomatic", "CreateExplicit"}

(* The ID that the index au or the ledger o has for a request. *)
NamedBy(r, au, o) == IF r.Call = "AdmitAutomatic" THEN au[Key(r)] ELSE o[r.OperationID]

IntentStands(r, a, au, o, ins) ==
  LET id == NamedBy(r, au, o) IN
  /\ id \in IDs /\ ins[id] # Nil
  /\ a.Intent \in IntentRecord /\ a.Intent.ID = id
  /\ Frozen(a.Intent) = Frozen(ins[id])
  /\ a.Divergence = {} /\ r.Call = "AdmitAutomatic" =>
       a.Intent.PipelineRevision = r.PipelineRevision

MembersStand(p, a, ins, logs, rel) ==
  LET rec == a.Policy
      listed == a.Members.Held \cup a.Members.RunIDAttached
  IN  /\ p \in Policies /\ rec.Seq \in 1..Len(logs[p])
      /\ ~IsOpening(logs[p][rec.Seq]) /\ logs[p][rec.Seq].Epoch = rec.Epoch
      /\ \A id \in listed : id \in IDs /\ ins[id] # Nil
      /\ \A id \in IDs :
           ins[id] # Nil /\ ins[id].Origin = "AUTOMATIC" /\ ins[id].PolicyID = p =>
             IF ins[id].AdmissionEpoch <= rec.Epoch
               THEN id \in listed \/ rel[id] # Nil
               ELSE id \notin listed

AnswerStands(c) ==
  pc[c] = "done" =>
    /\ AboutIntent(req[c]) /\ reply[c].Intent # Nil =>
         IntentStands(req[c], reply[c], auto, ops, intents)
    /\ reply[c].Members # Nil =>
         MembersStand(req[c].PolicyID, reply[c], intents, policyLogs, releasedAt)

Created(c) ==
  /\ pc[c] = "done" /\ AboutIntent(req[c]) /\ reply[c].Intent # Nil
  /\ reply[c].Outcome \in {"ADMITTED", "CREATED"}

OneCreator ==
  \A c, d \in Callers : Created(c) /\ Created(d) /\ SameDomain(req[c], req[d]) => c = d

StoredUnderID == \A id \in IDs : Exists(id) => intents[id].ID = id

AnswersHalf == StoredUnderID /\ (\A c \in Callers : AnswerStands(c)) /\ OneCreator

(* What any step of the service may do to the state that answers are about. *)
Evolves ==
  /\ FrozenStep /\ LogsGrow
  /\ \A k \in Policies \X Subjects : auto[k] # Nil => auto'[k] = auto[k]
  /\ \A o \in OperationIDs : ops[o] # Nil => ops'[o] = ops[o]
  /\ \A id \in IDs : releasedAt[id] # Nil => releasedAt'[id] # Nil
  /\ \A id \in IDs : IsAutomatic(id)' /\ ~Exists(id) =>
       LET p == intents'[id].PolicyID IN
       /\ p \in Policies /\ policies[p].Seq # 0 /\ policies[p].State = "ACTIVE"
       /\ intents'[id].AdmissionEpoch = policies[p].Epoch

(***************************************************************************)
(* An answer stands however the state evolves.                             *)
(***************************************************************************)
LEMMA IntentStillStands ==
  ASSUME StoreTypeOK, Evolves, NEW r \in Requests, AboutIntent(r), NEW a,
         IntentStands(r, a, auto, ops, intents)
  PROVE  IntentStands(r, a, auto', ops', intents')
<1> DEFINE id == NamedBy(r, auto, ops)
<1>1. /\ id \in IDs /\ intents[id] # Nil /\ id # Nil
      /\ a.Intent \in IntentRecord /\ a.Intent.ID = id
      /\ Frozen(a.Intent) = Frozen(intents[id])
      /\ a.Divergence = {} /\ r.Call = "AdmitAutomatic" =>
           a.Intent.PipelineRevision = r.PipelineRevision
  BY NilIsFresh DEF IntentStands
<1>2. NamedBy(r, auto', ops') = id
  <2>1. CASE r.Call = "AdmitAutomatic"
    <3>1. Key(r) \in Policies \X Subjects
      BY <2>1, RequestTyped DEF OfPolicy, Key
    <3> QED
      BY <1>1, <2>1, <3>1 DEF NamedBy, Evolves
  <2>2. CASE r.Call = "CreateExplicit"
    <3>1. r.OperationID \in OperationIDs
      BY <2>2, RequestTyped
    <3> QED
      BY <1>1, <2>2, <3>1 DEF NamedBy, Evolves
  <2> QED
    BY <2>1, <2>2 DEF AboutIntent
<1> HIDE DEF id
<1>3. intents'[id] # Nil /\ Frozen(intents'[id]) = Frozen(intents[id])
  BY <1>1 DEF Evolves, FrozenStep
<1> QED
  BY <1>1, <1>2, <1>3 DEF IntentStands

(* An epoch that a stop has closed gets no intent any more. *)
LEMMA NoneAfterStop ==
  ASSUME StoreTypeOK, PoliciesRecorded, NEW p \in Policies,
         policies[p].Seq # 0, policies[p].State = "ACTIVE",
         NEW i \in 1..Len(policyLogs[p]), ~IsOpening(policyLogs[p][i])
  PROVE  ~(policies[p].Epoch <= policyLogs[p][i].Epoch)
<1> DEFINE log == policyLogs[p]
           n == Len(log)
<1>1. /\ n \in 1..n /\ IsOpening(log[n]) /\ log # <<>>
      /\ log \in Seq(PolicyTransition) /\ n \in Nat
  BY RecordActive, LenTyped DEF LastOf
<1>2. i < n
  BY <1>1
<1>3. log[i].Epoch < log[n].Epoch
  BY <1>1, <1>2 DEF PoliciesRecorded, EpochsGrow
<1>4. log[n].Epoch = policies[p].Epoch
  BY <1>1 DEF PoliciesRecorded, RecordOf, LastOf
<1>5. log[i] \in PolicyTransition /\ log[n] \in PolicyTransition
  BY <1>1
<1>6. log[i].Epoch \in Nat /\ log[n].Epoch \in Nat
  BY <1>5 DEF PolicyTransition
<1> QED
  BY <1>3, <1>4, <1>6

LEMMA MembersStillStand ==
  ASSUME StoreTypeOK, StoreTypeOK', PoliciesRecorded, Evolves, NEW p, NEW a,
         MembersStand(p, a, intents, policyLogs, releasedAt)
  PROVE  MembersStand(p, a, intents', policyLogs', releasedAt')
<1> DEFINE rec == a.Policy
           listed == a.Members.Held \cup a.Members.RunIDAttached
           log == policyLogs[p]
<1>1. /\ p \in Policies /\ rec.Seq \in 1..Len(log)
      /\ ~IsOpening(log[rec.Seq]) /\ log[rec.Seq].Epoch = rec.Epoch
      /\ \A id \in listed : id \in IDs /\ intents[id] # Nil
      /\ \A id \in IDs :
           intents[id] # Nil /\ intents[id].Origin = "AUTOMATIC" /\ intents[id].PolicyID = p =>
             IF intents[id].AdmissionEpoch <= rec.Epoch
               THEN id \in listed \/ releasedAt[id] # Nil
               ELSE id \notin listed
  BY DEF MembersStand
<1>2. rec.Seq \in 1..Len(policyLogs'[p]) /\ policyLogs'[p][rec.Seq] = log[rec.Seq]
  <2>1. Len(log) \in Nat /\ Len(policyLogs'[p]) \in Nat /\ Len(log) <= Len(policyLogs'[p])
    BY <1>1 DEF Evolves, LogsGrow, StoreTypeOK
  <2>2. \A i \in 1..Len(log) : policyLogs'[p][i] = log[i]
    BY <1>1 DEF Evolves, LogsGrow
  <2> HIDE DEF log, rec
  <2> QED
    BY <1>1, <2>1, <2>2
<1>3. \A id \in listed : id \in IDs /\ intents'[id] # Nil
  BY <1>1 DEF Evolves, FrozenStep
<1>4. ASSUME NEW id \in IDs, intents'[id] # Nil, intents'[id].Origin = "AUTOMATIC",
             intents'[id].PolicyID = p
      PROVE  IF intents'[id].AdmissionEpoch <= rec.Epoch
               THEN id \in listed \/ releasedAt'[id] # Nil
               ELSE id \notin listed
  <2>1. id # Nil
    BY NilIsFresh
  <2>2. CASE Exists(id)
    <3>1. /\ intents'[id].Origin = intents[id].Origin
          /\ intents'[id].PolicyID = intents[id].PolicyID
          /\ intents'[id].AdmissionEpoch = intents[id].AdmissionEpoch
          /\ intents[id] # Nil
      BY <2>2, FrozenKeepsFields DEF Evolves, Exists
    <3>2. releasedAt[id] # Nil => releasedAt'[id] # Nil
      BY DEF Evolves
    <3> HIDE DEF listed, rec
    <3> QED
      BY <1>1, <1>4, <3>1, <3>2
  <2>3. CASE ~Exists(id)
    <3>1. IsAutomatic(id)'
      BY <1>4, <2>1 DEF IsAutomatic, Exists
    <3>2. /\ policies[p].Seq # 0 /\ policies[p].State = "ACTIVE"
          /\ intents'[id].AdmissionEpoch = policies[p].Epoch
      BY <1>4, <2>3, <3>1 DEF Evolves
    <3>3. ~(policies[p].Epoch <= rec.Epoch)
      BY <1>1, <3>2, NoneAfterStop
    <3>4. id \notin listed
      BY <1>1, <2>1, <2>3 DEF Exists
    <3> QED
      BY <3>2, <3>3, <3>4
  <2> QED
    BY <2>2, <2>3
<1> HIDE DEF listed, rec, log
<1> QED
  BY <1>1, <1>2, <1>3, <1>4 DEF MembersStand, listed, rec, log

LEMMA RestStands ==
  ASSUME ServiceInv, StoreTypeOK', Evolves, NEW d \in Callers, AnswerStands(d), Rests(d)
  PROVE  AnswerStands(d)'
<1> SUFFICES ASSUME pc[d] = "done"
             PROVE  AnswerStands(d)'
  BY DEF AnswerStands, Rests
<1>1. req[d] \in Requests /\ StoreTypeOK /\ PoliciesRecorded
  BY CallKnown DEF ServiceInv, StoreHalf
<1>2. pc'[d] = pc[d] /\ req'[d] = req[d] /\ reply'[d] = reply[d]
  BY DEF Rests
<1>3. AboutIntent(req[d]) /\ reply[d].Intent # Nil =>
        IntentStands(req[d], reply[d], auto', ops', intents')
  BY <1>1, IntentStillStands DEF AnswerStands
<1>4. reply[d].Members # Nil =>
        MembersStand(req[d].PolicyID, reply[d], intents', policyLogs', releasedAt')
  BY <1>1, MembersStillStand DEF AnswerStands
<1> QED
  BY <1>2, <1>3, <1>4 DEF AnswerStands

(***************************************************************************)
(* The ways a call goes on: not to an answer yet, or with an answer.       *)
(***************************************************************************)
LEMMA UnansweredStands ==
  ASSUME ServiceInv, StoreTypeOK', Evolves, AnswersHalf, StoredUnderID',
         NEW c \in Callers, OthersRest(c), pc'[c] # "done"
  PROVE  AnswersHalf'
<1>1. ASSUME NEW d \in Callers PROVE AnswerStands(d)'
  <2>1. CASE d = c
    BY <2>1 DEF AnswerStands
  <2>2. CASE d # c
    BY <2>2, RestStands DEF AnswersHalf, OthersRest
  <2> QED
    BY <2>1, <2>2
<1>2. OneCreator'
  BY DEF AnswersHalf, OneCreator, Created, OthersRest, Rests
<1> QED
  BY <1>1, <1>2 DEF AnswersHalf

LEMMA AnsweredStands ==
  ASSUME ServiceInv, StoreTypeOK', Evolves, AnswersHalf, StoredUnderID',
         NEW c \in Callers, NEW a, Return(c, a),
         AboutIntent(req[c]) /\ a.Intent # Nil => IntentStands(req[c], a, auto', ops', intents'),
         a.Members # Nil =>
           MembersStand(req[c].PolicyID, a, intents', policyLogs', releasedAt'),
         AboutIntent(req[c]) /\ a.Intent # Nil /\ a.Outcome \in {"ADMITTED", "CREATED"} =>
           \A d \in Callers : Created(d) => ~SameDomain(req[c], req[d])
  PROVE  AnswersHalf'
<1>1. OthersRest(c) /\ pc'[c] = "done" /\ reply'[c] = a /\ req'[c] = req[c]
  BY ReturnDoes DEF ServiceInv
<1>2. ASSUME NEW d \in Callers PROVE AnswerStands(d)'
  <2>1. CASE d = c
    BY <1>1, <2>1 DEF AnswerStands
  <2>2. CASE d # c
    BY <1>1, <2>2, RestStands DEF AnswersHalf, OthersRest
  <2> QED
    BY <2>1, <2>2
<1>3. ASSUME NEW d \in Callers, NEW e \in Callers, Created(d)', Created(e)',
             SameDomain(req'[d], req'[e])
      PROVE  d = e
  <2>1. CASE d # c /\ e # c
    BY <1>1, <1>3, <2>1 DEF AnswersHalf, OneCreator, Created, OthersRest, Rests
  <2>2. CASE d = c /\ e # c
    <3>1. Created(e) /\ req'[e] = req[e]
      BY <1>1, <1>3, <2>2 DEF Created, OthersRest, Rests
    <3>2. AboutIntent(req[c]) /\ a.Intent # Nil /\ a.Outcome \in {"ADMITTED", "CREATED"}
      BY <1>1, <1>3, <2>2 DEF Created
    <3> QED
      BY <1>1, <1>3, <2>2, <3>1, <3>2
  <2>3. CASE d # c /\ e = c
    <3>1. Created(d) /\ req'[d] = req[d]
      BY <1>1, <1>3, <2>3 DEF Created, OthersRest, Rests
    <3>2. AboutIntent(req[c]) /\ a.Intent # Nil /\ a.Outcome \in {"ADMITTED", "CREATED"}
      BY <1>1, <1>3, <2>3 DEF Created
    <3>3. SameDomain(req[c], req[d])
      BY <1>1, <1>3, <2>3, <3>1 DEF SameDomain
    <3> QED
      BY <3>1, <3>2, <3>3
  <2>4. CASE d = c /\ e = c
    BY <2>4
  <2> QED
    BY <2>1, <2>2, <2>3, <2>4
<1>4. OneCreator'
  BY <1>3 DEF OneCreator
<1> QED
  BY <1>2, <1>4 DEF AnswersHalf

(* An answer that names no intent and no members. *)
LEMMA BareAnswerStands ==
  ASSUME ServiceInv, StoreTypeOK', Evolves, AnswersHalf, StoredUnderID',
         NEW c \in Callers, NEW a, Return(c, a),
         AboutIntent(req[c]) => a.Intent = Nil, a.Members = Nil
  PROVE  AnswersHalf'
  BY AnsweredStands

LEMMA BareAnswer ==
  ASSUME NEW outcome
  PROVE  /\ Answer(outcome).Intent = Nil /\ Answer(outcome).Members = Nil
         /\ Answer(outcome).Outcome = outcome /\ Answer(outcome).Divergence = {}
  BY DEF Answer

LEMMA RetryStands ==
  ASSUME ServiceInv, StoreTypeOK', Evolves, AnswersHalf, StoredUnderID',
         NEW c \in Callers, Retry(c)
  PROVE  AnswersHalf'
<1>1. CASE tries[c] + 1 < MaxPolicyRetries
  <2>1. /\ pc' = [pc EXCEPT ![c] = "policy"] /\ tries' = [tries EXCEPT ![c] = @ + 1]
        /\ UNCHANGED <<req, seen, reply, startedAt>>
    BY <1>1 DEF Retry
  <2>2. OthersRest(c) /\ pc'[c] # "done"
    BY <2>1 DEF ServiceInv, CallTypeOK, OthersRest, Rests
  <2> QED
    BY <2>2, UnansweredStands
<1>2. CASE ~(tries[c] + 1 < MaxPolicyRetries)
  <2>1. Return(c, Answer("POLICY_STALE"))
    BY <1>2 DEF Retry
  <2> QED
    BY <2>1, BareAnswer, BareAnswerStands
<1> QED
  BY <1>1, <1>2

(***************************************************************************)
(* Steps that write nothing.                                               *)
(***************************************************************************)
LEMMA ReadsEvolve ==
  ASSUME ServiceInv, StoredUnderID, Reads
  PROVE  /\ Evolves /\ StoredUnderID' /\ StoreTypeOK'
         /\ UNCHANGED <<auto, ops, intents, policyLogs, policies, releasedAt>>
<1>1. /\ UNCHANGED <<intents, auto, ops, runs, policyLogs, policies, committed,
                     facts, admittedAt, attachedAt, releasedAt>>
      /\ StoreTypeOK
  BY DEF Reads, storeVars, historyVars, ServiceInv, StoreHalf
<1>2. LogsGrow
  BY <1>1, LogsKept DEF policyVars
<1>3. FrozenStep
  BY <1>1 DEF FrozenStep
<1>4. ASSUME NEW id \in IDs PROVE Exists(id)' = Exists(id) /\ IsAutomatic(id)' = IsAutomatic(id)
  BY <1>1 DEF Exists, IsAutomatic
<1>5. Evolves
  BY <1>1, <1>2, <1>3, <1>4 DEF Evolves, IsAutomatic
<1>6. StoredUnderID' /\ StoreTypeOK'
  BY <1>1, <1>4 DEF StoredUnderID, StoreTypeOK
<1> QED
  BY <1>1, <1>5, <1>6

(* A replay answers with the intent the index has for the request. *)
LEMMA ReplayStands ==
  ASSUME ServiceInv, AnswersHalf, Reads, NEW c \in Callers, pc[c] # "idle",
         req[c].Call = "AdmitAutomatic", auto[Key(req[c])] # Nil,
         Return(c, AutomaticReplay(intents[auto[Key(req[c])]], req[c]))
  PROVE  AnswersHalf'
<1> DEFINE r == req[c]
           id == auto[Key(r)]
           a == AutomaticReplay(intents[id], r)
<1>1. /\ Evolves /\ StoredUnderID' /\ StoreTypeOK'
      /\ auto' = auto /\ ops' = ops /\ intents' = intents
  BY ReadsEvolve DEF AnswersHalf
<1>2. /\ a.Intent = intents[id] /\ a.Members = Nil /\ a.Outcome = "REPLAYED"
      /\ a.Divergence = Divergence(intents[id], r.PolicyRevision, r.PipelineRevision)
  BY DEF AutomaticReplay, Answer
<1>3. Key(r) \in Policies \X Subjects
  BY CallKnown, RequestTyped DEF ServiceInv, OfPolicy, Key
<1>4. id \in IDs /\ IsAutomatic(id)
  BY <1>3 DEF ServiceInv, StoreHalf, StoreTypeOK, IndexesAgree, AutoIndexAgrees
<1>5. intents[id] \in IntentRecord /\ intents[id] # Nil /\ intents[id].ID = id
  BY <1>4 DEF ServiceInv, StoreHalf, StoreTypeOK, AnswersHalf, StoredUnderID, IsAutomatic, Exists
<1>6. Divergence(intents[id], r.PolicyRevision, r.PipelineRevision) = {} =>
        intents[id].PipelineRevision = r.PipelineRevision
  BY DEF Divergence
<1>7. NamedBy(r, auto', ops') = id
  BY <1>1 DEF NamedBy
<1>8. Return(c, a)
  OBVIOUS
<1>9. IntentStands(r, a, auto', ops', intents')
  <2> HIDE DEF a, id
  <2> QED
    BY <1>1, <1>2, <1>4, <1>5, <1>6, <1>7 DEF IntentStands
<1> HIDE DEF a, id
<1> QED
  BY <1>1, <1>2, <1>8, <1>9, AnsweredStands

LEMMA ExplicitReplayStands ==
  ASSUME ServiceInv, AnswersHalf, Reads, NEW c \in Callers, pc[c] # "idle",
         req[c].Call = "CreateExplicit", ops[req[c].OperationID] # Nil,
         Return(c, ExplicitReplay(intents[ops[req[c].OperationID]], DraftOf(req[c])))
  PROVE  AnswersHalf'
<1> DEFINE r == req[c]
           id == ops[r.OperationID]
           a == ExplicitReplay(intents[id], DraftOf(r))
<1>1. /\ Evolves /\ StoredUnderID' /\ StoreTypeOK'
      /\ auto' = auto /\ ops' = ops /\ intents' = intents
  BY ReadsEvolve DEF AnswersHalf
<1>2. /\ a.Intent # Nil => a.Intent = intents[id]
      /\ a.Members = Nil /\ a.Outcome \in {"CONVERGED", "OPERATION_CONFLICT"}
  BY DEF ExplicitReplay, Answer
<1>3. id \in IDs /\ Exists(id)
  BY CallKnown, RequestTyped DEF ServiceInv, StoreHalf, StoreTypeOK, IndexesAgree, LedgerAgrees
<1>4. intents[id] \in IntentRecord /\ intents[id] # Nil /\ intents[id].ID = id
  BY <1>3 DEF ServiceInv, StoreHalf, StoreTypeOK, AnswersHalf, StoredUnderID, Exists
<1>5. NamedBy(r, auto', ops') = id
  BY <1>1 DEF NamedBy
<1>6. Return(c, a)
  OBVIOUS
<1>7. a.Intent # Nil => IntentStands(r, a, auto', ops', intents')
  <2> HIDE DEF a, id
  <2> QED
    BY <1>1, <1>2, <1>3, <1>4, <1>5 DEF IntentStands
<1> HIDE DEF a, id
<1> QED
  BY <1>1, <1>2, <1>6, <1>7, AnsweredStands

(***************************************************************************)
(* Steps that make no intent.                                              *)
(***************************************************************************)
LEMMA StoredKept ==
  ASSUME StoreTypeOK, StoreTypeOK', FrozenStep, StoredUnderID,
         \A id \in IDs : Exists(id)' => Exists(id)
  PROVE  StoredUnderID'
<1>1. ASSUME NEW in \in IntentRecord PROVE Frozen(in).ID = in.ID
  BY DEF Frozen, IntentRecord
<1>2. ASSUME NEW id \in IDs, Exists(id)'
      PROVE  intents'[id].ID = id
  <2>1. /\ Exists(id) /\ intents[id] # Nil /\ intents'[id] # Nil
        /\ Frozen(intents'[id]) = Frozen(intents[id])
    BY <1>2 DEF FrozenStep, Exists
  <2>2. intents[id] \in IntentRecord /\ intents'[id] \in IntentRecord
    BY <2>1 DEF StoreTypeOK
  <2> QED
    BY <1>1, <2>1, <2>2 DEF StoredUnderID
<1> QED
  BY <1>2 DEF StoredUnderID

LEMMA QuietEvolves ==
  ASSUME StoreTypeOK, StoreTypeOK', FrozenStep, LogsGrow, StoredUnderID,
         UNCHANGED <<auto, ops>>, \A id \in IDs : Exists(id)' => Exists(id),
         \A id \in IDs : releasedAt[id] # Nil => releasedAt'[id] # Nil
  PROVE  Evolves /\ StoredUnderID'
<1>1. \A id \in IDs : IsAutomatic(id)' => Exists(id)
  BY DEF IsAutomatic
<1> QED
  BY <1>1, StoredKept DEF Evolves

LEMMA AppendEvolves ==
  ASSUME ServiceInv, StoredUnderID, StoreTypeOK', NEW p \in Policies, NEW t \in PolicyTransition,
         NEW n \in Nat, NEW hold \in BOOLEAN, AppendPolicyTransition(p, n, t, hold),
         UNCHANGED historyVars
  PROVE  Evolves /\ StoredUnderID'
<1>1. StoreTypeOK /\ IndexesAgree
  BY DEF ServiceInv, StoreHalf
<1>2. SameButBlockers /\ LogsGrow
  BY <1>1, AppendOnlyBlockers, AppendGrowsLogs
<1>3. FrozenStep /\ UNCHANGED <<auto, ops>> /\ \A id \in IDs : Exists(id)' => Exists(id)
  BY <1>2, BlockersKeepFrozen DEF SameButBlockers, Exists
<1>4. releasedAt' = releasedAt
  BY DEF historyVars
<1> QED
  BY <1>1, <1>2, <1>3, <1>4, QuietEvolves

LEMMA UpdateEvolves ==
  ASSUME ServiceInv, StoredUnderID, NEW id \in IDs, NEW o \in BlockerOwners,
         NEW b \in BlockerStates, UpdateBlocker(id, o, b),
         releasedAt' = releasedAt \/ releasedAt' = [releasedAt EXCEPT ![id] = LogLength(id)]
  PROVE  Evolves /\ StoredUnderID' /\ StoreTypeOK'
<1>1. StoreTypeOK /\ IndexesAgree /\ AutomaticHasPolicy
      /\ releasedAt \in [IDs -> Nat \cup {Nil}]
  BY DEF ServiceInv, StoreHalf, HistoryTypeOK
<1>2. StoreTypeOK' /\ SameButBlockers
  BY <1>1, UpdateBlockerTyped, UpdateBlockerOnly
<1>3. LogsGrow
  BY <1>1, LogsKept DEF UpdateBlocker
<1>4. FrozenStep /\ UNCHANGED <<auto, ops>> /\ \A x \in IDs : Exists(x)' => Exists(x)
  BY <1>2, BlockersKeepFrozen DEF SameButBlockers, Exists
<1>5. LogLength(id) \in Nat
  <2>1. IsAutomatic(id) => Len(policyLogs[intents[id].PolicyID]) \in Nat
    BY <1>1, LenTyped DEF AutomaticHasPolicy
  <2> QED
    BY <2>1 DEF LogLength
<1>6. \A x \in IDs : releasedAt[x] # Nil => releasedAt'[x] # Nil
  BY <1>1, <1>5, NilIsNoHistory
<1> QED
  BY <1>1, <1>2, <1>3, <1>4, <1>6, QuietEvolves

LEMMA AttachEvolves ==
  ASSUME ServiceInv, StoredUnderID, NEW id \in IDs, NEW run \in RunIDs,
         ServiceAttachRunID(id, run)
  PROVE  Evolves /\ StoredUnderID' /\ StoreTypeOK'
<1>1. StoreTypeOK /\ AttachRunID(id, run) /\ releasedAt' = releasedAt
  BY DEF ServiceInv, StoreHalf, ServiceAttachRunID
<1>2. StoreTypeOK' /\ FrozenStep
  BY <1>1, AttachRunIDTyped, AttachKeepsFrozen
<1>3. LogsGrow /\ UNCHANGED <<auto, ops>>
  BY <1>1, LogsKept DEF AttachRunID
<1>4. \A x \in IDs : Exists(x)' => Exists(x)
  BY <1>1 DEF AttachRunID, StoreTypeOK, Exists
<1> QED
  BY <1>1, <1>2, <1>3, <1>4, QuietEvolves DEF ServiceAttachRunID

LEMMA CommitEvolves ==
  ASSUME ServiceInv, StoredUnderID, NEW rev \in PipelineRevisions, CommitRevision(rev)
  PROVE  Evolves /\ StoredUnderID' /\ StoreTypeOK'
<1>1. /\ UNCHANGED <<intents, auto, ops, runs, policyLogs, policies, releasedAt>>
      /\ StoreTypeOK
  BY DEF CommitRevision, storeVars, historyVars, ServiceInv, StoreHalf
<1>2. StoreTypeOK' /\ FrozenStep /\ \A x \in IDs : Exists(x)' => Exists(x)
  BY <1>1 DEF StoreTypeOK, FrozenStep, Exists
<1>3. LogsGrow
  BY <1>1, LogsKept DEF policyVars
<1> QED
  BY <1>1, <1>2, <1>3, QuietEvolves

LEMMA EnvironmentStands ==
  ASSUME ServiceInv, StoreTypeOK', Evolves, AnswersHalf, StoredUnderID', UNCHANGED callVars
  PROVE  AnswersHalf'
<1>1. ASSUME NEW d \in Callers PROVE AnswerStands(d)'
  BY RestStands DEF AnswersHalf, Rests, callVars
<1>2. OneCreator'
  BY DEF AnswersHalf, OneCreator, Created, callVars
<1> QED
  BY <1>1, <1>2 DEF AnswersHalf

(***************************************************************************)
(* The creates.                                                            *)
(***************************************************************************)
LEMMA AdmitCreateStands ==
  ASSUME ServiceInv, AnswersHalf, StoreTypeOK', NEW c \in Callers, NEW id \in IDs,
         AdmitCreate(c, id)
  PROVE  AnswersHalf'
<1> DEFINE r == req[c]
           p == r.PolicyID
           draft == AdmitDraft(r, seen[c].Epoch)
           new == [draft EXCEPT !.ID = id]
           a == [Answer("ADMITTED") EXCEPT !.Intent = new, !.Policy = seen[c]]
<1>1. /\ pc[c] = "create" /\ r.Call = "AdmitAutomatic"
      /\ CreateAutomaticAdmitted(draft, seen[c].Epoch, id)
      /\ Return(c, a) /\ releasedAt' = releasedAt
  BY DEF AdmitCreate, At
<1>2. /\ a.Intent = new /\ a.Members = Nil /\ a.Divergence = {}
  BY DEF Answer
<1>3. /\ p \in Policies /\ r.Subject \in Subjects /\ Key(r) \in Policies \X Subjects
  BY <1>1, CallKnown, RequestTyped DEF ServiceInv, OfPolicy, Key
<1>4. /\ draft.PolicyID = p /\ AutoKey(draft) = Key(r)
      /\ new.Origin = "AUTOMATIC" /\ new.PolicyID = p /\ new.ID = id
      /\ new.PipelineRevision = r.PipelineRevision /\ new.AdmissionEpoch = seen[c].Epoch
  BY DEF AdmitDraft, AutomaticDraft, AutoKey, Key
<1> HIDE DEF a, draft
<1>5. /\ PolicyIsCurrent(p, seen[c].Epoch) /\ auto[Key(r)] = Nil /\ ~Exists(id)
      /\ auto' = [auto EXCEPT ![Key(r)] = id] /\ intents' = [intents EXCEPT ![id] = new]
      /\ ops' = ops /\ UNCHANGED policyVars
  BY <1>1, <1>4 DEF CreateAutomaticAdmitted, CreateAutomatic
<1> HIDE DEF new
<1>6. StoreTypeOK /\ id # Nil /\ StoredUnderID
  BY NilIsFresh DEF ServiceInv, StoreHalf, AnswersHalf
<1>7. intents'[id] = new /\ \A other \in IDs \ {id} : intents'[other] = intents[other]
  BY <1>5, <1>6, FreshOnly
<1>8. new # Nil /\ new \in IntentRecord
  <2>1. /\ r.PolicyRevision \in PolicyRevisions /\ r.PipelineRevision \in PipelineRevisions
        /\ seen[c].Epoch \in Nat
    BY <1>1, CallKnown, RequestTyped DEF ServiceInv, CallTypeOK, PolicyRecord
  <2>2. draft \in IntentRecord
    BY <1>3, <2>1 DEF draft, AdmitDraft, AutomaticDraft, IntentRecord, Origins, Blockers,
       NoBlockers, BlockerStates
  <2>3. new \in IntentRecord
    BY <2>2 DEF new, IntentRecord
  <2> QED
    BY <2>3, NilIsFresh
<1>9. Evolves
  <2>1. FrozenStep /\ LogsGrow
    BY <1>5, <1>6, FreshKeepsFrozen, LogsKept
  <2>2. \A k \in Policies \X Subjects : auto[k] # Nil => auto'[k] = auto[k]
    BY <1>5, <1>6 DEF StoreTypeOK
  <2>3. \A x \in IDs : IsAutomatic(x)' /\ ~Exists(x) => x = id
    BY <1>7 DEF IsAutomatic, Exists
  <2>4. policies[p].Seq # 0 /\ policies[p].State = "ACTIVE" /\ policies[p].Epoch = seen[c].Epoch
    BY <1>5 DEF PolicyIsCurrent, PolicyFound
  <2> QED
    BY <1>1, <1>3, <1>4, <1>5, <1>7, <2>1, <2>2, <2>3, <2>4 DEF Evolves
<1>10. StoredUnderID'
  BY <1>4, <1>6, <1>7 DEF StoredUnderID, Exists
<1>11. auto'[Key(r)] = id
  BY <1>3, <1>5, <1>6 DEF StoreTypeOK
<1>12. IntentStands(r, a, auto', ops', intents')
  BY <1>1, <1>2, <1>4, <1>7, <1>8, <1>11 DEF IntentStands, NamedBy
<1>13. \A d \in Callers : Created(d) => ~SameDomain(r, req[d])
  <2> SUFFICES ASSUME NEW d \in Callers, Created(d), SameDomain(r, req[d])
               PROVE  FALSE
    OBVIOUS
  <2>1. req[d].Call = "AdmitAutomatic" /\ Key(req[d]) = Key(r)
    BY <1>1 DEF SameDomain
  <2>2. NamedBy(req[d], auto, ops) \in IDs
    BY DEF Created, AnswersHalf, AnswerStands, IntentStands
  <2> QED
    BY <1>5, <2>1, <2>2, NilIsFresh DEF NamedBy
<1> QED
  BY <1>1, <1>2, <1>9, <1>10, <1>12, <1>13, AnsweredStands

LEMMA ExplicitCreateStands ==
  ASSUME ServiceInv, AnswersHalf, StoreTypeOK', NEW c \in Callers, NEW id \in IDs,
         ExplicitCreate(c, id)
  PROVE  AnswersHalf'
<1> DEFINE r == req[c]
           draft == DraftOf(r)
           new == [draft EXCEPT !.ID = id]
           a == [Answer("CREATED") EXCEPT !.Intent = new]
<1>1. /\ pc[c] = "create" /\ r.Call = "CreateExplicit"
      /\ CreateExplicit(draft, id) /\ Return(c, a) /\ UNCHANGED historyVars
  BY DEF ExplicitCreate, At
<1>2. /\ a.Intent = new /\ a.Members = Nil /\ a.Divergence = {}
  BY DEF Answer
<1>3. r.OperationID \in OperationIDs
  BY <1>1, CallKnown, RequestTyped DEF ServiceInv
<1>4. draft.OperationID = r.OperationID /\ new.Origin = "EXPLICIT" /\ new.ID = id
  BY DEF DraftOf, ExplicitDraft
<1> HIDE DEF a, draft
<1>5. /\ ops[r.OperationID] = Nil /\ ~Exists(id)
      /\ ops' = [ops EXCEPT ![r.OperationID] = id] /\ intents' = [intents EXCEPT ![id] = new]
      /\ auto' = auto /\ UNCHANGED policyVars
  BY <1>1, <1>4 DEF CreateExplicit
<1> HIDE DEF new
<1>6. StoreTypeOK /\ id # Nil /\ StoredUnderID
  BY NilIsFresh DEF ServiceInv, StoreHalf, AnswersHalf
<1>7. intents'[id] = new /\ \A other \in IDs \ {id} : intents'[other] = intents[other]
  BY <1>5, <1>6, FreshOnly
<1>8. new # Nil /\ new \in IntentRecord
  <2>1. r.Subject \in Subjects /\ r.PipelineRevision \in PipelineRevisions
    BY <1>1, CallKnown, RequestTyped DEF ServiceInv
  <2>2. draft \in IntentRecord
    BY <1>3, <2>1 DEF draft, DraftOf, ExplicitDraft, IntentRecord, Origins, Blockers, NoBlockers,
       BlockerStates
  <2>3. new \in IntentRecord
    BY <2>2 DEF new, IntentRecord
  <2> QED
    BY <2>3, NilIsFresh
<1>9. Evolves
  <2>1. FrozenStep /\ LogsGrow
    BY <1>5, <1>6, FreshKeepsFrozen, LogsKept
  <2>2. \A o \in OperationIDs : ops[o] # Nil => ops'[o] = ops[o]
    BY <1>5, <1>6 DEF StoreTypeOK
  <2>3. \A x \in IDs : IsAutomatic(x)' => Exists(x)
    BY <1>4, <1>7 DEF IsAutomatic, Exists
  <2> QED
    BY <1>1, <1>5, <2>1, <2>2, <2>3 DEF Evolves, historyVars
<1>10. StoredUnderID'
  BY <1>4, <1>6, <1>7 DEF StoredUnderID, Exists
<1>11. ops'[r.OperationID] = id
  BY <1>3, <1>5, <1>6 DEF StoreTypeOK
<1>12. IntentStands(r, a, auto', ops', intents')
  BY <1>1, <1>2, <1>4, <1>7, <1>8, <1>11 DEF IntentStands, NamedBy
<1>13. \A d \in Callers : Created(d) => ~SameDomain(r, req[d])
  <2> SUFFICES ASSUME NEW d \in Callers, Created(d), SameDomain(r, req[d])
               PROVE  FALSE
    OBVIOUS
  <2>1. req[d].Call = "CreateExplicit" /\ req[d].OperationID = r.OperationID
    BY <1>1 DEF SameDomain
  <2>2. NamedBy(req[d], auto, ops) \in IDs
    BY DEF Created, AnswersHalf, AnswerStands, IntentStands
  <2> QED
    BY <1>5, <2>1, <2>2, NilIsFresh DEF NamedBy
<1> QED
  BY <1>1, <1>2, <1>9, <1>10, <1>12, <1>13, AnsweredStands

(***************************************************************************)
(* The stops.  The membership of a policy that is not ACTIVE accounts for  *)
(* every intent it has.                                                    *)
(***************************************************************************)
MembershipFits ==
  \A p \in Policies : StoreHalf /\ policies[p].Seq # 0 /\ policies[p].State # "ACTIVE" =>
    \A a : a.Policy = policies[p] /\ a.Members = Membership(intents, p) =>
      MembersStand(p, a, intents, policyLogs, releasedAt)

LEMMA MembershipStands == MembershipFits
<1> SUFFICES ASSUME NEW p \in Policies, StoreHalf, policies[p].Seq # 0,
                    policies[p].State # "ACTIVE", NEW a,
                    a.Policy = policies[p], a.Members = Membership(intents, p)
             PROVE  MembersStand(p, a, intents, policyLogs, releasedAt)
  BY DEF MembershipFits
<1> DEFINE log == policyLogs[p]
           rec == policies[p]
           n == Len(log)
           held == {id \in Members(p) : intents[id].Blockers["POLICY_DISABLE"] # "CLEAR"}
           listed == a.Members.Held \cup a.Members.RunIDAttached
<1>1. /\ StoreTypeOK /\ IndexesAgree /\ PoliciesRecorded /\ RecordOf(log, rec)
  BY DEF StoreHalf, PoliciesRecorded
<1>2. n \in 1..n /\ log # <<>> /\ rec.Seq = n /\ n \in Nat
  BY <1>1, RecordActive, LenTyped DEF RecordOf
<1>3. ~IsOpening(log[n]) /\ log[n].Epoch = rec.Epoch
  BY <1>1, <1>2 DEF RecordOf, LastOf
<1>4. listed = held \cup {id \in Members(p) \ held : intents[id].RunID # Nil}
  BY DEF Membership
<1>5. \A id \in listed : id \in IDs /\ intents[id] # Nil
  BY <1>1, <1>4, MembersExist DEF Members
<1>6. ASSUME NEW id \in IDs, intents[id] # Nil, intents[id].Origin = "AUTOMATIC",
             intents[id].PolicyID = p
      PROVE  intents[id].AdmissionEpoch <= rec.Epoch /\ (id \in listed \/ releasedAt[id] # Nil)
  <2>1. IsAutomatic(id) /\ intents[id] \in IntentRecord
    BY <1>1, <1>6, NilIsFresh DEF IsAutomatic, Exists, StoreTypeOK
  <2>2. AdmittedWhile(id) /\ HeldNow(id)
    BY <2>1, AdmittedIsEach, HeldIsEach DEF StoreHalf
  <2>3. intents[id].AdmissionEpoch <= rec.Epoch
    BY <1>1, <1>6, <2>2 DEF AdmittedWhile, RecordOf
  <2>4. id \in Members(p)
    <3>1. intents[id].Subject \in Subjects
      BY <2>1 DEF IntentRecord
    <3>2. auto[<<p, intents[id].Subject>>] = id
      BY <1>1, <1>6, <2>1, <3>1 DEF IndexesAgree, AutoIndexAgrees, AutoKey
    <3> QED
      BY <3>1, <3>2 DEF Members
  <2>5. \/ intents[id].Blockers["POLICY_DISABLE"] # "CLEAR"
        \/ intents[id].RunID # Nil \/ releasedAt[id] # Nil
    BY <1>6, <2>2 DEF HeldNow
  <2> HIDE DEF listed
  <2> QED
    BY <1>4, <2>3, <2>4, <2>5
<1> HIDE DEF listed, log, rec, n
<1>7. rec = a.Policy /\ log = policyLogs[p]
  BY DEF rec, log
<1> QED
  BY <1>2, <1>3, <1>5, <1>6, <1>7 DEF MembersStand, listed, n

LEMMA MembershipStandsNext == MembershipFits'
  BY MembershipStands, PTL

LEMMA StopReadStands ==
  ASSUME ServiceInv, AnswersHalf, NEW c \in Callers, StopRead(c)
  PROVE  AnswersHalf'
<1> DEFINE p == req[c].PolicyID
           rec == policies[p]
           a == [Answer("UNCHANGED") EXCEPT !.Policy = rec, !.Members = Membership(intents, p)]
<1>1. /\ pc[c] = "policy" /\ req[c].Call \in {"DisablePolicy", "RetirePolicy"} /\ Reads
  BY DEF StopRead, StopCalls
<1>2. /\ Evolves /\ StoredUnderID' /\ StoreTypeOK'
      /\ UNCHANGED <<auto, ops, intents, policyLogs, policies, releasedAt>>
  BY <1>1, ReadsEvolve DEF AnswersHalf
<1>3. p \in Policies /\ ~AboutIntent(req[c])
  BY <1>1, CallKnown, RequestTyped DEF ServiceInv, OfPolicy, PolicyCalls, AboutIntent
<1>4. CASE rec.Seq # 0 /\ rec.State = Target(req[c].Call)
  <2>1. Return(c, a)
    BY <1>4 DEF StopRead, PolicyFound
  <2>2. rec.State # "ACTIVE"
    BY <1>4 DEF Target
  <2>3. a.Policy = rec /\ a.Members = Membership(intents, p)
    BY DEF Answer
  <2>4. MembersStand(p, a, intents, policyLogs, releasedAt)
    <3> HIDE DEF a
    <3> QED
      BY <1>3, <1>4, <2>2, <2>3, MembershipStands DEF MembershipFits, ServiceInv
  <2> HIDE DEF a
  <2> QED
    BY <1>2, <1>3, <2>1, <2>4, AnsweredStands
<1>5. CASE ~(rec.Seq # 0 /\ rec.State = Target(req[c].Call))
  <2>1. \/ Return(c, Answer("NOT_FOUND")) \/ Return(c, Answer("POLICY_RETIRED"))
        \/ GotoWith(c, rec, "append")
    BY <1>5 DEF StopRead, PolicyFound
  <2>2. CASE GotoWith(c, rec, "append")
    <3>1. rec \in PolicyRecord
      BY <1>3, LenTyped DEF ServiceInv, StoreHalf
    <3>2. OthersRest(c) /\ pc'[c] = "append"
      BY <2>2, <3>1, GotoWithDoes DEF ServiceInv, Places
    <3> QED
      BY <1>2, <3>2, UnansweredStands
  <2>3. CASE \/ Return(c, Answer("NOT_FOUND")) \/ Return(c, Answer("POLICY_RETIRED"))
    BY <1>2, <2>3, BareAnswer, BareAnswerStands
  <2> QED
    BY <2>1, <2>2, <2>3
<1> QED
  BY <1>4, <1>5

(* The membership taken after the write of a stop is the new record's. *)
LEMMA StoppedMembersStand ==
  ASSUME StoreTypeOK, StoreHalf', NEW p \in Policies, NEW n \in Nat, NEW t \in PolicyTransition,
         t.Kind \in {"DISABLE", "RETIRE"}, AppendPolicyTransition(p, n, t, TRUE),
         NEW a, a.Policy = policies'[p], a.Members = Membership(intents', p)
  PROVE  MembersStand(p, a, intents', policyLogs', releasedAt')
<1> DEFINE entry == [t EXCEPT !.Seq = n + 1]
<1>1. policies'[p] = Apply(policies[p], entry)
  BY DEF AppendPolicyTransition, StoreTypeOK
<1>2. entry.Seq = n + 1 /\ entry.Kind = t.Kind
  BY DEF PolicyTransition
<1> HIDE DEF entry
<1>3. policies'[p].Seq = entry.Seq
  BY <1>1 DEF Apply
<1>4. policies'[p].State # "ACTIVE"
  <2>1. CASE t.Kind = "DISABLE"
    BY <1>1, <1>2, <2>1 DEF Apply, OpeningKinds
  <2>2. CASE t.Kind = "RETIRE"
    BY <1>1, <1>2, <2>2 DEF Apply, OpeningKinds
  <2> QED
    BY <2>1, <2>2
<1>5. policies'[p].Seq # 0
  BY <1>2, <1>3
<1>6. a.Members = Membership(intents, p)'
  <2>1. auto' = auto
    BY DEF AppendPolicyTransition, indexVars
  <2>2. Members(p)' = Members(p)
    BY <2>1 DEF Members
  <2> QED
    BY <2>2 DEF Membership
<1> QED
  BY <1>4, <1>5, <1>6, MembershipStandsNext DEF MembershipFits

LEMMA StopAppendStands ==
  ASSUME ServiceInv, AnswersHalf, NEW c \in Callers, StopAppend(c)
  PROVE  AnswersHalf'
<1> DEFINE p == req[c].PolicyID
           n == seen[c].Seq
           t == Closing(req[c], seen[c])
           a == [Answer("TRANSITION") EXCEPT
                   !.Policy = policies'[p], !.Members = Membership(intents', p)]
<1>1. /\ pc[c] = "append" /\ req[c].Call \in {"DisablePolicy", "RetirePolicy"}
      /\ AppendPolicyTransition(p, n, t, TRUE) /\ Return(c, a)
      /\ UNCHANGED historyVars
  BY DEF StopAppend, StopCalls
<1>2. StoreHalf' /\ StoreTypeOK'
  BY StopAppendKeepsStore DEF StoreHalf
<1>3. p \in Policies /\ ~AboutIntent(req[c]) /\ seen[c] \in PolicyRecord
  BY <1>1, CallKnown, RequestTyped DEF ServiceInv, CallTypeOK, OfPolicy, PolicyCalls, AboutIntent
<1>4. t \in PolicyTransition /\ t.Kind \in {"DISABLE", "RETIRE"} /\ n \in Nat
  BY <1>1, <1>3 DEF Closing, PolicyTransition, PolicyRecord, OpeningKinds, StopKinds
<1>5. a.Policy = policies'[p] /\ a.Members = Membership(intents', p)
  BY DEF Answer
<1> HIDE DEF a, t, n
<1>6. Evolves /\ StoredUnderID'
  BY <1>1, <1>2, <1>3, <1>4, AppendEvolves DEF AnswersHalf
<1>7. MembersStand(p, a, intents', policyLogs', releasedAt')
  <2>1. StoreTypeOK
    BY DEF ServiceInv, StoreHalf
  <2> HIDE DEF p
  <2> QED
    BY <1>1, <1>2, <1>3, <1>4, <1>5, <2>1, StoppedMembersStand
<1> QED
  BY <1>1, <1>2, <1>3, <1>6, <1>7, AnsweredStands

(***************************************************************************)
(* The steps that write nothing, by what they do to the call.              *)
(***************************************************************************)
LEMMA GotoStands ==
  ASSUME ServiceInv, AnswersHalf, Reads, NEW c \in Callers, NEW next \in Places,
         next # "done", Goto(c, next)
  PROVE  AnswersHalf'
<1>1. OthersRest(c) /\ pc'[c] = next
  BY GotoDoes DEF ServiceInv
<1> QED
  BY <1>1, ReadsEvolve, UnansweredStands DEF AnswersHalf

LEMMA GotoWithStands ==
  ASSUME ServiceInv, AnswersHalf, Reads, NEW c \in Callers, NEW rec \in PolicyRecord,
         NEW next \in Places, next # "done", GotoWith(c, rec, next)
  PROVE  AnswersHalf'
<1>1. OthersRest(c) /\ pc'[c] = next
  BY GotoWithDoes DEF ServiceInv
<1> QED
  BY <1>1, ReadsEvolve, UnansweredStands DEF AnswersHalf

(* An answer that names no intent of the two creating calls, nor members. *)
LEMMA ReturnStands ==
  ASSUME ServiceInv, AnswersHalf, Reads, NEW c \in Callers, NEW a, Return(c, a),
         AboutIntent(req[c]) => a.Intent = Nil, a.Members = Nil
  PROVE  AnswersHalf'
  BY ReadsEvolve, BareAnswerStands DEF AnswersHalf

LEMMA PlainStands ==
  ASSUME ServiceInv, AnswersHalf, Reads, NEW c \in Callers, NEW outcome,
         Return(c, Answer(outcome))
  PROVE  AnswersHalf'
  BY BareAnswer, ReturnStands

LEMMA StartStands ==
  ASSUME ServiceInv, AnswersHalf, NEW c \in Callers, NEW r \in Requests, Start(c, r)
  PROVE  AnswersHalf'
<1>1. Entry(r.Call) # "done"
  <2>1. r.Call \in {"EnablePolicy", "DisablePolicy", "RetirePolicy", "AdmitAutomatic",
                    "CreateExplicit", "RecordDisabledAcceptance"}
    BY RequestTyped DEF PolicyCalls
  <2> QED
    BY <2>1 DEF Entry
<1>2. /\ pc' = [pc EXCEPT ![c] = Entry(r.Call)] /\ req' = [req EXCEPT ![c] = r]
      /\ startedAt' = [startedAt EXCEPT
           ![c] = IF "PolicyID" \in DOMAIN r THEN Len(policyLogs[r.PolicyID]) ELSE 0]
      /\ UNCHANGED <<seen, tries, reply>> /\ Reads
  BY DEF Start
<1>3. OthersRest(c) /\ pc'[c] = Entry(r.Call)
  BY <1>2 DEF ServiceInv, CallTypeOK, OthersRest, Rests
<1> QED
  BY <1>1, <1>2, <1>3, ReadsEvolve, UnansweredStands DEF AnswersHalf

LEMMA FinishStands ==
  ASSUME ServiceInv, AnswersHalf, NEW c \in Callers, Finish(c)
  PROVE  AnswersHalf'
<1>1. /\ pc' = [pc EXCEPT ![c] = "idle"] /\ req' = [req EXCEPT ![c] = Nil]
      /\ reply' = [reply EXCEPT ![c] = Nil] /\ startedAt' = [startedAt EXCEPT ![c] = 0]
      /\ UNCHANGED <<seen, tries>> /\ Reads
  BY DEF Finish
<1>2. OthersRest(c) /\ pc'[c] = "idle"
  BY <1>1 DEF ServiceInv, CallTypeOK, OthersRest, Rests
<1> QED
  BY <1>1, <1>2, ReadsEvolve, UnansweredStands DEF AnswersHalf

LEMMA AdmitReadsStand ==
  ASSUME ServiceInv, AnswersHalf, NEW c \in Callers,
         \/ AdmitLookup(c) \/ AdmitReplay(c) \/ AdmitStale(c) \/ RequireCommitted(c)
         \/ \E id \in IDs : DuplicateID(c, id)
  PROVE  AnswersHalf'
<1>1. CASE AdmitLookup(c)
  <2>1. pc[c] # "idle" /\ req[c].Call = "AdmitAutomatic" /\ Reads
    BY <1>1 DEF AdmitLookup, At
  <2>2. CASE auto[Key(req[c])] # Nil
    BY <1>1, <2>1, <2>2, ReplayStands DEF AdmitLookup
  <2>3. CASE auto[Key(req[c])] = Nil
    <3>1. Goto(c, "policy") /\ "policy" \in Places
      BY <1>1, <2>3 DEF AdmitLookup, Places
    <3> QED
      BY <2>1, <3>1, GotoStands
  <2> QED
    BY <2>2, <2>3
<1>2. CASE AdmitReplay(c)
  BY <1>2, ReplayStands DEF AdmitReplay, At
<1>3. CASE AdmitStale(c)
  BY <1>3, ReadsEvolve, RetryStands DEF AdmitStale, AnswersHalf
<1>4. CASE RequireCommitted(c)
  <2>1. Reads /\ (Goto(c, "create") \/ Return(c, Answer("NOT_COMMITTED"))) /\ "create" \in Places
    BY <1>4 DEF RequireCommitted, Places
  <2> QED
    BY <2>1, GotoStands, PlainStands
<1>5. CASE \E id \in IDs : DuplicateID(c, id)
  BY <1>5, PlainStands DEF DuplicateID
<1> QED
  BY <1>1, <1>2, <1>3, <1>4, <1>5

LEMMA AdmitDecideStands ==
  ASSUME ServiceInv, AnswersHalf, NEW c \in Callers, AdmitDecide(c)
  PROVE  AnswersHalf'
<1> DEFINE rec == policies[req[c].PolicyID]
           next == IF tries[c] = 0 THEN "revision" ELSE "create"
           a == [Answer("NOT_ADMITTED") EXCEPT !.Reason = Reason(rec, req[c].Facts), !.Policy = rec]
<1>1. /\ pc[c] = "policy" /\ req[c].Call = "AdmitAutomatic" /\ Reads
      /\ Return(c, a) \/ GotoWith(c, rec, next)
  BY DEF AdmitDecide, At
<1>2. a.Intent = Nil /\ a.Members = Nil
  BY DEF Answer
<1>3. rec \in PolicyRecord /\ next \in Places /\ next # "done"
  BY <1>1, CallKnown, RequestTyped, LenTyped DEF ServiceInv, StoreHalf, OfPolicy, Places
<1> HIDE DEF a, rec, next
<1> QED
  BY <1>1, <1>2, <1>3, ReturnStands, GotoWithStands

LEMMA ExplicitReadsStand ==
  ASSUME ServiceInv, AnswersHalf, NEW c \in Callers, ExplicitLookup(c) \/ ExplicitLostRace(c)
  PROVE  AnswersHalf'
<1>1. CASE ExplicitLookup(c)
  <2>1. pc[c] # "idle" /\ req[c].Call = "CreateExplicit" /\ Reads
    BY <1>1 DEF ExplicitLookup, At
  <2>2. CASE ops[req[c].OperationID] # Nil
    BY <1>1, <2>1, <2>2, ExplicitReplayStands DEF ExplicitLookup
  <2>3. CASE ops[req[c].OperationID] = Nil
    <3>1. Goto(c, "revision") /\ "revision" \in Places
      BY <1>1, <2>3 DEF ExplicitLookup, Places
    <3> QED
      BY <2>1, <3>1, GotoStands
  <2> QED
    BY <2>2, <2>3
<1>2. CASE ExplicitLostRace(c)
  BY <1>2, ExplicitReplayStands DEF ExplicitLostRace, At
<1> QED
  BY <1>1, <1>2

LEMMA EnableReadStands ==
  ASSUME ServiceInv, AnswersHalf, NEW c \in Callers, EnableRead(c)
  PROVE  AnswersHalf'
<1> DEFINE rec == policies[req[c].PolicyID]
           a == [Answer("UNCHANGED") EXCEPT !.Policy = rec]
<1>1. /\ pc[c] = "policy" /\ req[c].Call = "EnablePolicy" /\ Reads
      /\ \/ Return(c, a) \/ Return(c, Answer("POLICY_RETIRED"))
         \/ Return(c, Answer("FRONTIER_INVALID")) \/ GotoWith(c, rec, "append")
  BY DEF EnableRead, At
<1>2. a.Intent = Nil /\ a.Members = Nil
  BY DEF Answer
<1>3. rec \in PolicyRecord /\ "append" \in Places
  BY <1>1, CallKnown, RequestTyped, LenTyped DEF ServiceInv, StoreHalf, OfPolicy, PolicyCalls, Places
<1> HIDE DEF a, rec
<1> QED
  BY <1>1, <1>2, <1>3, ReturnStands, PlainStands, GotoWithStands

LEMMA EnableAppendStands ==
  ASSUME ServiceInv, AnswersHalf, StoreTypeOK', NEW c \in Callers, EnableAppend(c)
  PROVE  AnswersHalf'
<1> DEFINE p == req[c].PolicyID
           n == seen[c].Seq
           t == Opening(seen[c], req[c].Frontier)
           a == [Answer("TRANSITION") EXCEPT !.Policy = policies'[p]]
<1>1. /\ pc[c] = "append" /\ req[c].Call = "EnablePolicy"
      /\ AppendPolicyTransition(p, n, t, FALSE) /\ Return(c, a) /\ UNCHANGED historyVars
  BY DEF EnableAppend, At
<1>2. a.Intent = Nil /\ a.Members = Nil
  BY DEF Answer
<1>3. p \in Policies /\ req[c].Frontier \in Positions /\ seen[c] \in PolicyRecord
  BY <1>1, CallKnown, RequestTyped DEF ServiceInv, CallTypeOK, OfPolicy, PolicyCalls
<1>4. t \in PolicyTransition /\ n \in Nat
  BY <1>3 DEF Opening, PolicyTransition, PolicyRecord, OpeningKinds, StopKinds
<1> HIDE DEF a, t, n, p
<1>5. Evolves /\ StoredUnderID'
  BY <1>1, <1>3, <1>4, AppendEvolves DEF AnswersHalf
<1> QED
  BY <1>1, <1>2, <1>5, BareAnswerStands

LEMMA AppendStaleStands ==
  ASSUME ServiceInv, AnswersHalf, NEW c \in Callers, AppendStale(c)
  PROVE  AnswersHalf'
  BY ReadsEvolve, RetryStands DEF AppendStale, AnswersHalf

LEMMA AcceptanceGetStands ==
  ASSUME ServiceInv, AnswersHalf, NEW c \in Callers, AcceptanceGet(c)
  PROVE  AnswersHalf'
<1> DEFINE a == [Answer("UNCHANGED") EXCEPT !.Intent = intents[req[c].ID]]
<1>1. /\ req[c].Call = "RecordDisabledAcceptance" /\ Reads
      /\ \/ Return(c, a) \/ Return(c, Answer("NOT_FOUND"))
         \/ Return(c, Answer("INVALID_TRANSITION")) \/ Goto(c, "update")
  BY DEF AcceptanceGet, At
<1>2. a.Members = Nil /\ ~AboutIntent(req[c]) /\ "update" \in Places
  BY <1>1 DEF Answer, AboutIntent, Places
<1> HIDE DEF a
<1> QED
  BY <1>1, <1>2, ReturnStands, PlainStands, GotoStands

LEMMA AcceptanceBlockStands ==
  ASSUME ServiceInv, AnswersHalf, NEW c \in Callers, AcceptanceBlock(c)
  PROVE  AnswersHalf'
<1> DEFINE id == req[c].ID
           a == [Answer("UPDATED") EXCEPT !.Intent = intents'[id]]
<1>1. /\ pc[c] = "update" /\ req[c].Call = "RecordDisabledAcceptance"
      /\ UpdateBlocker(id, "POLICY_DISABLE", "BLOCKED") \/ UNCHANGED storeVars
      /\ Return(c, a) /\ UNCHANGED <<committed, historyVars>>
  BY DEF AcceptanceBlock, At
<1>2. a.Members = Nil /\ ~AboutIntent(req[c])
  BY <1>1 DEF Answer, AboutIntent
<1>3. id \in IDs
  BY <1>1, CallKnown, RequestTyped DEF ServiceInv
<1> HIDE DEF a, id
<1>4. Evolves /\ StoredUnderID' /\ StoreTypeOK'
  <2>1. CASE UpdateBlocker(id, "POLICY_DISABLE", "BLOCKED")
    <3>1. releasedAt' = releasedAt
      BY <1>1 DEF historyVars
    <3>2. "POLICY_DISABLE" \in BlockerOwners /\ "BLOCKED" \in BlockerStates
      BY PolicyDisableIsAnOwner DEF BlockerStates
    <3> QED
      BY <1>3, <2>1, <3>1, <3>2, UpdateEvolves DEF AnswersHalf
  <2>2. CASE UNCHANGED storeVars
    BY <1>1, <2>2, ReadsEvolve DEF Reads, AnswersHalf
  <2> QED
    BY <1>1, <2>1, <2>2
<1> QED
  BY <1>1, <1>2, <1>4, BareAnswerStands

(***************************************************************************)
(* The invariant.                                                          *)
(***************************************************************************)
LEMMA AnswersInit == Init => AnswersHalf
<1> SUFFICES ASSUME Init
             PROVE  AnswersHalf
  OBVIOUS
<1>1. \A id \in IDs : ~Exists(id)
  BY DEF Init, StoreInit, Exists
<1>2. \A c \in Callers : pc[c] = "idle"
  BY DEF Init
<1> QED
  BY <1>1, <1>2 DEF AnswersHalf, StoredUnderID, AnswerStands, OneCreator, Created

LEMMA AdvanceStands ==
  ASSUME ServiceInv, AnswersHalf, StoreTypeOK', NEW c \in Callers, Advance(c)
  PROVE  AnswersHalf'
<1>1. CASE \/ AdmitLookup(c) \/ AdmitReplay(c) \/ AdmitStale(c) \/ RequireCommitted(c)
           \/ \E id \in IDs : DuplicateID(c, id)
  BY <1>1, AdmitReadsStand
<1>2. CASE AdmitDecide(c) \/ ExplicitLookup(c) \/ ExplicitLostRace(c)
  BY <1>2, AdmitDecideStands, ExplicitReadsStand
<1>3. CASE EnableRead(c) \/ EnableAppend(c)
  BY <1>3, EnableReadStands, EnableAppendStands
<1>4. CASE StopRead(c) \/ StopAppend(c) \/ AppendStale(c)
  <2>1. CASE StopAppend(c)
    <3>1. ServiceInv'
      BY <2>1, StepKeeps DEF Next, Advance
    <3> QED
      BY <2>1, <3>1, StopAppendStands
  <2> QED
    BY <1>4, <2>1, StopReadStands, AppendStaleStands
<1>5. CASE AcceptanceGet(c) \/ AcceptanceBlock(c)
  BY <1>5, AcceptanceGetStands, AcceptanceBlockStands
<1>6. CASE (\E id \in IDs : AdmitCreate(c, id)) \/ (\E id \in IDs : ExplicitCreate(c, id))
  BY <1>6, AdmitCreateStands, ExplicitCreateStands
<1> QED
  BY <1>1, <1>2, <1>3, <1>4, <1>5, <1>6 DEF Advance

LEMMA AnswersStep == ServiceInv /\ AnswersHalf /\ [Next]_vars => AnswersHalf'
<1> SUFFICES ASSUME ServiceInv, AnswersHalf, [Next]_vars
             PROVE  AnswersHalf'
  OBVIOUS
<1>1. StoreTypeOK' /\ StoredUnderID
  BY StepKeeps DEF ServiceInv, StoreHalf, AnswersHalf
<1>2. ASSUME NEW c \in Callers, NEW r \in Requests, Start(c, r)
      PROVE  AnswersHalf'
  BY <1>2, StartStands
<1>3. ASSUME NEW c \in Callers, Fail(c) \/ Finish(c)
      PROVE  AnswersHalf'
  BY <1>3, PlainStands, FinishStands DEF Fail
<1>4. ASSUME NEW c \in Callers, Advance(c)
      PROVE  AnswersHalf'
  BY <1>1, <1>4, AdvanceStands
<1>5. ASSUME NEW id \in IDs, NEW run \in RunIDs, ServiceAttachRunID(id, run)
      PROVE  AnswersHalf'
  <2>1. UNCHANGED callVars
    BY <1>5 DEF ServiceAttachRunID
  <2> QED
    BY <1>1, <1>5, <2>1, AttachEvolves, EnvironmentStands
<1>6. ASSUME NEW id \in IDs, NEW u \in BlockerUpdates, ServiceUpdateBlocker(id, u.Owner, u.State)
      PROVE  AnswersHalf'
  <2>1. u.Owner \in BlockerOwners /\ u.State \in BlockerStates
    BY ServiceConstants
  <2>2. /\ UpdateBlocker(id, u.Owner, u.State) /\ UNCHANGED callVars
        /\ releasedAt' = releasedAt \/ releasedAt' = [releasedAt EXCEPT ![id] = LogLength(id)]
    BY <1>6 DEF ServiceUpdateBlocker
  <2> QED
    BY <1>1, <2>1, <2>2, UpdateEvolves, EnvironmentStands
<1>7. ASSUME NEW rev \in PipelineRevisions, CommitRevision(rev)
      PROVE  AnswersHalf'
  <2>1. UNCHANGED callVars
    BY <1>7 DEF CommitRevision
  <2> QED
    BY <1>1, <1>7, <2>1, CommitEvolves, EnvironmentStands
<1>8. CASE UNCHANGED vars
  <2>1. Reads /\ UNCHANGED callVars
    BY <1>8 DEF vars, Reads
  <2> QED
    BY <1>1, <2>1, ReadsEvolve, EnvironmentStands
<1> QED
  BY <1>2, <1>3, <1>4, <1>5, <1>6, <1>7, <1>8 DEF Next

LEMMA AnswersKept == Spec => [](ServiceInv /\ AnswersHalf)
  BY InitHolds, StepKeeps, AnswersInit, AnswersStep, PTL DEF Spec

(***************************************************************************)
(* What the answers promise.                                               *)
(***************************************************************************)

(* Two calls of AdmitAutomatic for one (policy, subject), or of
   CreateExplicit for one OperationID, are answered with one intent and its
   frozen content, however they and other callers' steps interleave, and at
   most one of them created it.                                            *)
THEOREM ConcurrentAnswersAgree == Spec => []AnswersAgree
<1>1. ServiceInv /\ AnswersHalf => AnswersAgree
  <2> SUFFICES ASSUME ServiceInv, AnswersHalf, NEW c \in Callers, NEW d \in Callers,
                      pc[c] = "done", reply[c].Intent # Nil,
                      pc[d] = "done", reply[d].Intent # Nil, SameDomain(req[c], req[d])
               PROVE  /\ Frozen(reply[c].Intent) = Frozen(intents[reply[d].Intent.ID])
                      /\ reply[c].Outcome \in {"ADMITTED", "CREATED"}
                           /\ reply[d].Outcome = reply[c].Outcome => c = d
                      /\ reply[c].Divergence = {} /\ req[c].Call = "AdmitAutomatic" =>
                           reply[d].Intent.PipelineRevision = req[c].PipelineRevision
    BY DEF AnswersAgree
  <2>1. AboutIntent(req[c]) /\ AboutIntent(req[d])
    BY DEF SameDomain, AboutIntent
  <2>2. NamedBy(req[c], auto, ops) = NamedBy(req[d], auto, ops)
    BY DEF SameDomain, NamedBy
  <2>3. /\ IntentStands(req[c], reply[c], auto, ops, intents)
        /\ IntentStands(req[d], reply[d], auto, ops, intents)
    BY <2>1 DEF AnswersHalf, AnswerStands
  <2>4. /\ reply[c].Intent \in IntentRecord /\ reply[d].Intent \in IntentRecord
        /\ Frozen(reply[c].Intent) = Frozen(intents[reply[d].Intent.ID])
        /\ Frozen(reply[c].Intent) = Frozen(reply[d].Intent)
        /\ reply[c].Divergence = {} /\ req[c].Call = "AdmitAutomatic" =>
             reply[c].Intent.PipelineRevision = req[c].PipelineRevision
    BY <2>2, <2>3 DEF IntentStands
  <2>5. reply[c].Outcome \in {"ADMITTED", "CREATED"} /\ reply[d].Outcome = reply[c].Outcome => c = d
    BY <2>1 DEF AnswersHalf, OneCreator, Created
  <2>6. ASSUME NEW in \in IntentRecord
        PROVE  Frozen(in).PipelineRevision = in.PipelineRevision
    BY DEF Frozen, IntentRecord
  <2>7. reply[c].Intent.PipelineRevision = reply[d].Intent.PipelineRevision
    BY <2>4, <2>6
  <2> QED
    BY <2>4, <2>5, <2>7
<1> QED
  BY <1>1, AnswersKept, PTL

(* The membership DisablePolicy or RetirePolicy returns keeps accounting for
   every intent of the epochs its record closes, whatever is admitted,
   attached, held or released after the stop.                              *)
THEOREM StopsAccountForMembers == Spec => []StopAccountsForMembers
<1>1. ServiceInv /\ AnswersHalf => StopAccountsForMembers
  <2> SUFFICES ASSUME ServiceInv, AnswersHalf, NEW c \in Callers,
                      pc[c] = "done", reply[c].Members # Nil,
                      NEW id \in IDs, IsAutomatic(id), intents[id].PolicyID = req[c].PolicyID
               PROVE  LET listed == reply[c].Members.Held \cup reply[c].Members.RunIDAttached IN
                      IF intents[id].AdmissionEpoch <= reply[c].Policy.Epoch
                        THEN id \in listed \/ releasedAt[id] # Nil
                        ELSE id \notin listed
    BY DEF StopAccountsForMembers
  <2>1. MembersStand(req[c].PolicyID, reply[c], intents, policyLogs, releasedAt)
    BY DEF AnswersHalf, AnswerStands
  <2>2. intents[id] # Nil /\ intents[id].Origin = "AUTOMATIC"
    BY DEF IsAutomatic, Exists
  <2> QED
    BY <2>1, <2>2 DEF MembersStand
<1> QED
  BY <1>1, AnswersKept, PTL

(***************************************************************************)
(* The policy records that calls hold and return.                          *)
(***************************************************************************)

(* The record was the fold of a prefix of the log. *)
RecordFits(rec, log) ==
  rec.Seq \in 0..Len(log) /\ rec = FoldLeft(Apply, NoPolicy, SubSeq(log, 1, rec.Seq))

LogOf(c) == policyLogs[req[c].PolicyID]

CallRecordFits(c) ==
  /\ pc[c] \in {"revision", "create", "append"} /\ OfPolicy(req[c]) =>
       RecordFits(seen[c], LogOf(c))
  /\ pc[c] = "done" /\ reply[c].Policy # NoPolicy =>
       /\ OfPolicy(req[c]) /\ startedAt[c] <= reply[c].Policy.Seq
       /\ RecordFits(reply[c].Policy, LogOf(c))

RecordsHalf == PolicyFoldsLog /\ \A c \in Callers : CallRecordFits(c)

LEMMA WholeFits ==
  ASSUME NEW T, NEW log \in Seq(T), NEW rec,
         rec = FoldLeft(Apply, NoPolicy, log), rec.Seq = Len(log)
  PROVE  RecordFits(rec, log)
<1>1. SubSeq(log, 1, Len(log)) = log /\ Len(log) \in 0..Len(log)
  OBVIOUS
<1> QED
  BY <1>1 DEF RecordFits

LEMMA LongerFits ==
  ASSUME NEW T, NEW log \in Seq(T), NEW more \in Seq(T), Len(log) <= Len(more),
         \A i \in 1..Len(log) : more[i] = log[i],
         NEW rec, RecordFits(rec, log)
  PROVE  RecordFits(rec, more)
<1> DEFINE n == rec.Seq
<1>1. n \in 0..Len(log) /\ rec = FoldLeft(Apply, NoPolicy, SubSeq(log, 1, n))
  BY DEF RecordFits
<1> HIDE DEF n
<1>2. n \in 0..Len(more) /\ SubSeq(log, 1, n) = SubSeq(more, 1, n)
  BY <1>1
<1>3. rec = FoldLeft(Apply, NoPolicy, SubSeq(more, 1, n))
  BY <1>1, <1>2
<1> QED
  BY <1>2, <1>3 DEF RecordFits, n

LEMMA StillFits ==
  ASSUME StoreTypeOK, StoreTypeOK', LogsGrow, NEW p \in Policies,
         NEW rec, RecordFits(rec, policyLogs[p])
  PROVE  RecordFits(rec, policyLogs'[p])
<1>1. /\ policyLogs[p] \in Seq(PolicyTransition) /\ policyLogs'[p] \in Seq(PolicyTransition)
      /\ Len(policyLogs[p]) <= Len(policyLogs'[p])
      /\ \A i \in 1..Len(policyLogs[p]) : policyLogs'[p][i] = policyLogs[p][i]
  BY DEF StoreTypeOK, LogsGrow
<1> QED
  BY <1>1, LongerFits

LEMMA CurrentFits ==
  ASSUME StoreTypeOK, PolicyFoldsLog, NEW p \in Policies
  PROVE  RecordFits(policies[p], policyLogs[p]) /\ policies[p].Seq = Len(policyLogs[p])
<1>1. policyLogs[p] \in Seq(PolicyTransition)
  BY DEF StoreTypeOK
<1>2. policies[p] = FoldLeft(Apply, NoPolicy, policyLogs[p]) /\ policies[p].Seq = Len(policyLogs[p])
  BY DEF PolicyFoldsLog
<1> QED
  BY <1>1, <1>2, WholeFits

LEMMA RestFits ==
  ASSUME ServiceInv, StoreTypeOK', LogsGrow, NEW d \in Callers, CallRecordFits(d), Rests(d)
  PROVE  CallRecordFits(d)'
<1>1. /\ pc'[d] = pc[d] /\ req'[d] = req[d] /\ seen'[d] = seen[d]
      /\ reply'[d] = reply[d] /\ startedAt'[d] = startedAt[d]
  BY DEF Rests
<1>2. CASE pc[d] # "idle" /\ OfPolicy(req[d])
  <2>1. req[d].PolicyID \in Policies /\ StoreTypeOK
    BY <1>2, CallKnown, RequestTyped DEF ServiceInv, StoreHalf
  <2>2. \A rec : RecordFits(rec, policyLogs[req[d].PolicyID]) =>
                   RecordFits(rec, policyLogs'[req[d].PolicyID])
    BY <2>1, StillFits
  <2> QED
    BY <1>1, <2>2 DEF CallRecordFits, LogOf, OfPolicy
<1>3. CASE pc[d] = "idle" \/ ~OfPolicy(req[d])
  BY <1>1, <1>3 DEF CallRecordFits, OfPolicy
<1> QED
  BY <1>2, <1>3

(***************************************************************************)
(* The ways a call goes on.                                                *)
(***************************************************************************)
LEMMA OthersFit ==
  ASSUME ServiceInv, RecordsHalf, StoreTypeOK', PolicyFoldsLog', LogsGrow,
         NEW c \in Callers, OthersRest(c), CallRecordFits(c)'
  PROVE  RecordsHalf'
<1>1. ASSUME NEW d \in Callers \ {c} PROVE CallRecordFits(d)'
  BY RestFits DEF RecordsHalf, OthersRest
<1> QED
  BY <1>1 DEF RecordsHalf

LEMMA LeftFits ==
  ASSUME ServiceInv, RecordsHalf, StoreTypeOK', PolicyFoldsLog', LogsGrow,
         NEW c \in Callers, OthersRest(c),
         pc'[c] \notin {"revision", "create", "append", "done"}
  PROVE  RecordsHalf'
  BY OthersFit DEF CallRecordFits

LEMMA SeenFits ==
  ASSUME ServiceInv, RecordsHalf, StoreTypeOK', PolicyFoldsLog', LogsGrow,
         NEW c \in Callers, OthersRest(c), pc'[c] # "done", req'[c] = req[c],
         OfPolicy(req[c]) => RecordFits(seen'[c], policyLogs'[req[c].PolicyID])
  PROVE  RecordsHalf'
<1>1. CallRecordFits(c)'
  BY DEF CallRecordFits, LogOf, OfPolicy
<1> QED
  BY <1>1, OthersFit

LEMMA ReturnedFits ==
  ASSUME ServiceInv, RecordsHalf, StoreTypeOK', PolicyFoldsLog', LogsGrow,
         NEW c \in Callers, NEW a, Return(c, a),
         a.Policy # NoPolicy =>
           /\ OfPolicy(req[c]) /\ startedAt[c] <= a.Policy.Seq
           /\ RecordFits(a.Policy, policyLogs'[req[c].PolicyID])
  PROVE  RecordsHalf'
<1>1. /\ OthersRest(c) /\ pc'[c] = "done" /\ reply'[c] = a
      /\ req'[c] = req[c] /\ startedAt'[c] = startedAt[c]
  BY ReturnDoes DEF ServiceInv
<1>2. CallRecordFits(c)'
  BY <1>1 DEF CallRecordFits, LogOf, OfPolicy
<1> QED
  BY <1>1, <1>2, OthersFit

LEMMA NoRecordFits ==
  ASSUME ServiceInv, RecordsHalf, StoreTypeOK', PolicyFoldsLog', LogsGrow,
         NEW c \in Callers, NEW a, Return(c, a), a.Policy = NoPolicy
  PROVE  RecordsHalf'
  BY ReturnedFits

LEMMA NoRecord ==
  ASSUME NEW outcome PROVE Answer(outcome).Policy = NoPolicy
  BY DEF Answer

LEMMA RetryFits ==
  ASSUME ServiceInv, RecordsHalf, StoreTypeOK', PolicyFoldsLog', LogsGrow,
         NEW c \in Callers, Retry(c)
  PROVE  RecordsHalf'
<1>1. CASE tries[c] + 1 < MaxPolicyRetries
  <2>1. /\ pc' = [pc EXCEPT ![c] = "policy"] /\ tries' = [tries EXCEPT ![c] = @ + 1]
        /\ UNCHANGED <<req, seen, reply, startedAt>>
    BY <1>1 DEF Retry
  <2>2. OthersRest(c) /\ pc'[c] = "policy"
    BY <2>1 DEF ServiceInv, CallTypeOK, OthersRest, Rests
  <2> QED
    BY <2>2, LeftFits
<1>2. CASE ~(tries[c] + 1 < MaxPolicyRetries)
  BY <1>2, NoRecord, NoRecordFits DEF Retry
<1> QED
  BY <1>1, <1>2

(* Steps that leave the policies alone. *)
LEMMA PoliciesKept ==
  ASSUME StoreTypeOK, PolicyFoldsLog, UNCHANGED policyVars
  PROVE  LogsGrow /\ PolicyFoldsLog'
<1>1. UNCHANGED <<policyLogs, policies>>
  BY DEF policyVars
<1> QED
  BY <1>1, LogsKept DEF PolicyFoldsLog

(* A record that a call reads at "policy" is the current one, and the log has
   grown since the call began.                                             *)
LEMMA ReadRecordFits ==
  ASSUME ServiceInv, PolicyFoldsLog, NEW c \in Callers, pc[c] = "policy", Reads
  PROVE  LET rec == policies[req[c].PolicyID] IN
         /\ OfPolicy(req[c]) /\ rec \in PolicyRecord /\ startedAt[c] <= rec.Seq
         /\ RecordFits(rec, policyLogs'[req[c].PolicyID])
<1> DEFINE p == req[c].PolicyID
<1>1. OfPolicy(req[c]) /\ p \in Policies /\ StoreTypeOK
  BY CallKnown, RequestTyped DEF ServiceInv, StoreHalf, CallsInv, CallInv, CallMatches
<1>2. RecordFits(policies[p], policyLogs[p]) /\ policies[p].Seq = Len(policyLogs[p])
  BY <1>1, CurrentFits
<1>3. startedAt[c] + tries[c] <= Len(policyLogs[p])
  BY <1>1 DEF ServiceInv, CallsInv, CallInv, SeenInLog
<1>4. startedAt[c] \in Nat /\ tries[c] \in Nat /\ Len(policyLogs[p]) \in Nat
  BY <1>1, LenTyped, ServiceConstants DEF ServiceInv, CallTypeOK
<1>5. policyLogs' = policyLogs /\ policies[p] \in PolicyRecord
  BY <1>1, LenTyped DEF Reads, storeVars
<1>6. startedAt[c] <= policies[p].Seq
  BY <1>2, <1>3, <1>4
<1> QED
  BY <1>1, <1>2, <1>5, <1>6

(***************************************************************************)
(* The steps.                                                              *)
(***************************************************************************)
LEMMA StartFits ==
  ASSUME ServiceInv, RecordsHalf, StoreTypeOK', PolicyFoldsLog', LogsGrow,
         NEW c \in Callers, NEW r \in Requests, Start(c, r)
  PROVE  RecordsHalf'
<1>1. Entry(r.Call) \in {"lookup", "policy", "get"}
  <2>1. r.Call \in {"EnablePolicy", "DisablePolicy", "RetirePolicy", "AdmitAutomatic",
                    "CreateExplicit", "RecordDisabledAcceptance"}
    BY RequestTyped DEF PolicyCalls
  <2> QED
    BY <2>1 DEF Entry
<1>2. /\ pc' = [pc EXCEPT ![c] = Entry(r.Call)] /\ req' = [req EXCEPT ![c] = r]
      /\ startedAt' = [startedAt EXCEPT
           ![c] = IF "PolicyID" \in DOMAIN r THEN Len(policyLogs[r.PolicyID]) ELSE 0]
      /\ UNCHANGED <<seen, tries, reply>>
  BY DEF Start
<1>3. OthersRest(c) /\ pc'[c] = Entry(r.Call)
  BY <1>2 DEF ServiceInv, CallTypeOK, OthersRest, Rests
<1> QED
  BY <1>1, <1>3, LeftFits

LEMMA FinishFits ==
  ASSUME ServiceInv, RecordsHalf, StoreTypeOK', PolicyFoldsLog', LogsGrow,
         NEW c \in Callers, Finish(c)
  PROVE  RecordsHalf'
<1>1. /\ pc' = [pc EXCEPT ![c] = "idle"] /\ req' = [req EXCEPT ![c] = Nil]
      /\ reply' = [reply EXCEPT ![c] = Nil] /\ startedAt' = [startedAt EXCEPT ![c] = 0]
      /\ UNCHANGED <<seen, tries>>
  BY DEF Finish
<1>2. OthersRest(c) /\ pc'[c] = "idle"
  BY <1>1 DEF ServiceInv, CallTypeOK, OthersRest, Rests
<1> QED
  BY <1>2, LeftFits

(* The steps of a call that read no policy record. *)
LEMMA OtherReadsFit ==
  ASSUME ServiceInv, RecordsHalf, StoreTypeOK', PolicyFoldsLog', LogsGrow,
         NEW c \in Callers,
         \/ AdmitLookup(c) \/ RequireCommitted(c) \/ AdmitReplay(c) \/ AdmitStale(c)
         \/ \E id \in IDs : DuplicateID(c, id)
         \/ ExplicitLookup(c) \/ ExplicitLostRace(c) \/ AppendStale(c)
         \/ AcceptanceGet(c)
  PROVE  RecordsHalf'
<1>1. ASSUME NEW in PROVE AutomaticReplay(in, req[c]).Policy = NoPolicy
  BY DEF AutomaticReplay, Answer
<1>2. ASSUME NEW in PROVE ExplicitReplay(in, DraftOf(req[c])).Policy = NoPolicy
  BY DEF ExplicitReplay, Answer
<1>3. ASSUME NEW next \in {"policy", "update"}, Goto(c, next) PROVE RecordsHalf'
  <2>1. OthersRest(c) /\ pc'[c] = next
    BY <1>3, GotoDoes DEF ServiceInv, Places
  <2> QED
    BY <2>1, LeftFits
<1>4. CASE AdmitLookup(c)
  BY <1>1, <1>3, <1>4, NoRecordFits DEF AdmitLookup
<1>5. CASE RequireCommitted(c)
  <2>1. CASE Goto(c, "create")
    <3>1. /\ OthersRest(c) /\ pc'[c] = "create" /\ req'[c] = req[c] /\ seen'[c] = seen[c]
          /\ policyLogs' = policyLogs
      BY <1>5, <2>1, GotoDoes DEF ServiceInv, Places, RequireCommitted, Reads, storeVars
    <3>2. OfPolicy(req[c]) => RecordFits(seen'[c], policyLogs'[req[c].PolicyID])
      BY <1>5, <3>1 DEF RequireCommitted, RecordsHalf, CallRecordFits, LogOf
    <3> QED
      BY <3>1, <3>2, SeenFits
  <2>2. CASE Return(c, Answer("NOT_COMMITTED"))
    BY <2>2, NoRecord, NoRecordFits
  <2> QED
    BY <1>5, <2>1, <2>2 DEF RequireCommitted
<1>6. CASE AdmitReplay(c)
  BY <1>1, <1>6, NoRecordFits DEF AdmitReplay
<1>7. CASE AdmitStale(c) \/ AppendStale(c)
  BY <1>7, RetryFits DEF AdmitStale, AppendStale
<1>8. CASE \E id \in IDs : DuplicateID(c, id)
  BY <1>8, NoRecord, NoRecordFits DEF DuplicateID
<1>9. CASE ExplicitLookup(c)
  <2>1. CASE Goto(c, "revision")
    <3>1. OthersRest(c) /\ pc'[c] = "revision" /\ req'[c] = req[c]
      BY <2>1, GotoDoes DEF ServiceInv, Places
    <3>2. ~OfPolicy(req[c])
      BY <1>9 DEF ExplicitLookup, At, OfPolicy, PolicyCalls
    <3> QED
      BY <3>1, <3>2, SeenFits
  <2> QED
    BY <1>2, <1>9, <2>1, NoRecordFits DEF ExplicitLookup
<1>10. CASE ExplicitLostRace(c)
  BY <1>2, <1>10, NoRecordFits DEF ExplicitLostRace
<1>11. CASE AcceptanceGet(c)
  <2> DEFINE a == [Answer("UNCHANGED") EXCEPT !.Intent = intents[req[c].ID]]
  <2>1. a.Policy = NoPolicy
    BY DEF Answer
  <2>2. \/ Return(c, a) \/ Return(c, Answer("NOT_FOUND"))
        \/ Return(c, Answer("INVALID_TRANSITION")) \/ Goto(c, "update")
    BY <1>11 DEF AcceptanceGet
  <2> HIDE DEF a
  <2> QED
    BY <1>3, <2>1, <2>2, NoRecord, NoRecordFits
<1> QED
  BY <1>4, <1>5, <1>6, <1>7, <1>8, <1>9, <1>10, <1>11

(* The steps that read it. *)
LEMMA PolicyReadsFit ==
  ASSUME ServiceInv, RecordsHalf, StoreTypeOK', PolicyFoldsLog', LogsGrow,
         NEW c \in Callers, AdmitDecide(c) \/ EnableRead(c) \/ StopRead(c)
  PROVE  RecordsHalf'
<1> DEFINE p == req[c].PolicyID
           rec == policies[p]
<1>1. pc[c] = "policy" /\ Reads
  BY DEF AdmitDecide, EnableRead, StopRead, At
<1>2. /\ OfPolicy(req[c]) /\ rec \in PolicyRecord /\ startedAt[c] <= rec.Seq
      /\ RecordFits(rec, policyLogs'[req[c].PolicyID])
  BY <1>1, ReadRecordFits DEF RecordsHalf
<1>3. ASSUME NEW a, Return(c, a), a.Policy \in {NoPolicy, rec} PROVE RecordsHalf'
  BY <1>2, <1>3, ReturnedFits
<1>4. ASSUME NEW next \in {"revision", "create", "append"}, GotoWith(c, rec, next)
      PROVE  RecordsHalf'
  <2>1. OthersRest(c) /\ pc'[c] = next /\ seen'[c] = rec /\ req'[c] = req[c]
    BY <1>2, <1>4, GotoWithDoes DEF ServiceInv, Places
  <2> QED
    BY <1>2, <2>1, SeenFits
<1>5. CASE AdmitDecide(c)
  <2> DEFINE reason == Reason(rec, req[c].Facts)
             a == [Answer("NOT_ADMITTED") EXCEPT !.Reason = reason, !.Policy = rec]
  <2>1. a.Policy = rec
    BY DEF Answer
  <2>2. \/ Return(c, a) \/ GotoWith(c, rec, IF tries[c] = 0 THEN "revision" ELSE "create")
    BY <1>5 DEF AdmitDecide
  <2> HIDE DEF a, rec
  <2> QED
    BY <1>3, <1>4, <2>1, <2>2
<1>6. CASE EnableRead(c)
  <2> DEFINE a == [Answer("UNCHANGED") EXCEPT !.Policy = rec]
  <2>1. a.Policy = rec
    BY DEF Answer
  <2>2. \/ Return(c, a) \/ Return(c, Answer("POLICY_RETIRED"))
        \/ Return(c, Answer("FRONTIER_INVALID")) \/ GotoWith(c, rec, "append")
    BY <1>6 DEF EnableRead
  <2> HIDE DEF a, rec
  <2> QED
    BY <1>3, <1>4, <2>1, <2>2, NoRecord
<1>7. CASE StopRead(c)
  <2> DEFINE a == [Answer("UNCHANGED") EXCEPT
                     !.Policy = rec, !.Members = Membership(intents, p)]
  <2>1. a.Policy = rec
    BY DEF Answer
  <2>2. \/ Return(c, a) \/ Return(c, Answer("POLICY_RETIRED"))
        \/ Return(c, Answer("NOT_FOUND")) \/ GotoWith(c, rec, "append")
    BY <1>7 DEF StopRead
  <2> HIDE DEF a, rec
  <2> QED
    BY <1>3, <1>4, <2>1, <2>2, NoRecord
<1> QED
  BY <1>5, <1>6, <1>7

(* The creates, and the blocker write, return the record they were decided
   on, or none.                                                            *)
LEMMA CreatesFit ==
  ASSUME ServiceInv, RecordsHalf, StoreTypeOK', PolicyFoldsLog', LogsGrow,
         UNCHANGED policyLogs, NEW c \in Callers,
         \/ \E id \in IDs : AdmitCreate(c, id)
         \/ \E id \in IDs : ExplicitCreate(c, id)
         \/ AcceptanceBlock(c)
  PROVE  RecordsHalf'
<1>1. ASSUME NEW id \in IDs, AdmitCreate(c, id) PROVE RecordsHalf'
  <2> DEFINE draft == AdmitDraft(req[c], seen[c].Epoch)
             a == [Answer("ADMITTED") EXCEPT
                     !.Intent = [draft EXCEPT !.ID = id], !.Policy = seen[c]]
  <2>1. pc[c] = "create" /\ req[c].Call = "AdmitAutomatic" /\ Return(c, a)
    BY <1>1 DEF AdmitCreate, At
  <2>2. a.Policy = seen[c]
    BY DEF Answer
  <2> HIDE DEF a
  <2>3. OfPolicy(req[c])
    BY <2>1 DEF OfPolicy
  <2>4. RecordFits(seen[c], policyLogs'[req[c].PolicyID])
    BY <2>1, <2>3 DEF RecordsHalf, CallRecordFits, LogOf
  <2>5. startedAt[c] <= seen[c].Seq
    <3>1. startedAt[c] + tries[c] <= seen[c].Seq
      BY <2>1, <2>3 DEF ServiceInv, CallsInv, CallInv, SeenInLog
    <3>2. startedAt[c] \in Nat /\ tries[c] \in Nat /\ seen[c].Seq \in Nat
      BY ServiceConstants DEF ServiceInv, CallTypeOK, PolicyRecord
    <3> QED
      BY <3>1, <3>2
  <2> QED
    BY <2>1, <2>2, <2>3, <2>4, <2>5, ReturnedFits
<1>2. ASSUME NEW id \in IDs, ExplicitCreate(c, id) PROVE RecordsHalf'
  <2> DEFINE a == [Answer("CREATED") EXCEPT !.Intent = [DraftOf(req[c]) EXCEPT !.ID = id]]
  <2>1. Return(c, a) /\ a.Policy = NoPolicy
    BY <1>2 DEF ExplicitCreate, Answer
  <2> HIDE DEF a
  <2> QED
    BY <2>1, NoRecordFits
<1>3. CASE AcceptanceBlock(c)
  <2> DEFINE a == [Answer("UPDATED") EXCEPT !.Intent = intents'[req[c].ID]]
  <2>1. Return(c, a) /\ a.Policy = NoPolicy
    BY <1>3 DEF AcceptanceBlock, Answer
  <2> HIDE DEF a
  <2> QED
    BY <2>1, NoRecordFits
<1> QED
  BY <1>1, <1>2, <1>3

(* A transition is answered with the record it made. *)
LEMMA AppendFits ==
  ASSUME ServiceInv, RecordsHalf, NEW c \in Callers, EnableAppend(c) \/ StopAppend(c)
  PROVE  RecordsHalf'
<1> DEFINE p == req[c].PolicyID
           n == seen[c].Seq
<1>1. /\ pc[c] = "append" /\ req[c].Call \in PolicyCalls
      /\ StoreTypeOK /\ StoreTypeOK' /\ LogsGrow
  BY EnableAppendKeepsStore, StopAppendKeepsStore
     DEF EnableAppend, StopAppend, StopCalls, At, PolicyCalls, ServiceInv, StoreHalf, Grows
<1>2. OfPolicy(req[c]) /\ p \in Policies
  BY <1>1, CallKnown, RequestTyped DEF ServiceInv, OfPolicy
<1>3. PICK t \in PolicyTransition, hold \in BOOLEAN :
        /\ AppendPolicyTransition(p, n, t, hold)
        /\ \E a : Return(c, a) /\ a.Policy = policies'[p]
  <2>1. seen[c] \in PolicyRecord
    BY DEF ServiceInv, CallTypeOK
  <2>2. CASE EnableAppend(c)
    <3> DEFINE t == Opening(seen[c], req[c].Frontier)
               a == [Answer("TRANSITION") EXCEPT !.Policy = policies'[p]]
    <3>1. req[c].Frontier \in Positions
      BY <1>1, <2>2, CallKnown, RequestTyped DEF EnableAppend, At, ServiceInv
    <3>2. t \in PolicyTransition
      BY <2>1, <3>1 DEF Opening, PolicyTransition, PolicyRecord, OpeningKinds, StopKinds
    <3>3. AppendPolicyTransition(p, n, t, FALSE) /\ Return(c, a)
      BY <2>2 DEF EnableAppend
    <3>4. a.Policy = policies'[p]
      BY DEF Answer
    <3> HIDE DEF a, t, p, n
    <3> QED
      BY <3>2, <3>3, <3>4
  <2>3. CASE StopAppend(c)
    <3> DEFINE t == Closing(req[c], seen[c])
               a == [Answer("TRANSITION") EXCEPT
                       !.Policy = policies'[p], !.Members = Membership(intents', p)]
    <3>1. t \in PolicyTransition
      BY <2>1 DEF Closing, PolicyTransition, PolicyRecord, OpeningKinds, StopKinds
    <3>2. AppendPolicyTransition(p, n, t, TRUE) /\ Return(c, a)
      BY <2>3 DEF StopAppend
    <3>3. a.Policy = policies'[p]
      BY DEF Answer
    <3> HIDE DEF a, t, p, n
    <3> QED
      BY <3>1, <3>2, <3>3
  <2> QED
    BY <2>2, <2>3
<1>4. PICK a : Return(c, a) /\ a.Policy = policies'[p]
  BY <1>3
<1>5. n \in Nat /\ startedAt[c] \in Nat /\ tries[c] \in Nat
  BY ServiceConstants DEF ServiceInv, CallTypeOK, PolicyRecord
<1>6. PolicyFoldsLog'
  <2> HIDE DEF p, n
  <2> QED
    BY <1>1, <1>2, <1>3, <1>5, AppendFolds DEF RecordsHalf
<1>7. RecordFits(policies'[p], policyLogs'[p]) /\ policies'[p].Seq = Len(policyLogs'[p])
  <2>1. policyLogs'[p] \in Seq(PolicyTransition)
    BY <1>1, <1>2 DEF StoreTypeOK
  <2>2. policies'[p] = FoldLeft(Apply, NoPolicy, policyLogs'[p])
        /\ policies'[p].Seq = Len(policyLogs'[p])
    BY <1>2, <1>6 DEF PolicyFoldsLog
  <2> HIDE DEF p
  <2> QED
    BY <2>1, <2>2, WholeFits
<1>8. startedAt[c] <= policies'[p].Seq
  <2>1. startedAt[c] + tries[c] <= n
    BY <1>1, <1>2 DEF ServiceInv, CallsInv, CallInv, SeenInLog
  <2>2. n = Len(policyLogs[p])
    BY <1>3 DEF AppendPolicyTransition, SeqIsCurrent
  <2>3. Len(policyLogs[p]) <= Len(policyLogs'[p]) /\ Len(policyLogs'[p]) \in Nat
    BY <1>1, <1>2 DEF LogsGrow, StoreTypeOK
  <2> QED
    BY <1>5, <1>7, <2>1, <2>2, <2>3
<1> HIDE DEF p, n
<1>9. a.Policy # NoPolicy =>
        /\ OfPolicy(req[c]) /\ startedAt[c] <= a.Policy.Seq
        /\ RecordFits(a.Policy, policyLogs'[req[c].PolicyID])
  BY <1>2, <1>4, <1>7, <1>8 DEF p
<1> QED
  BY <1>1, <1>4, <1>6, <1>9, ReturnedFits

LEMMA EnvironmentFits ==
  ASSUME ServiceInv, RecordsHalf, StoreTypeOK', UNCHANGED policyVars, UNCHANGED callVars
  PROVE  RecordsHalf'
<1>1. LogsGrow /\ PolicyFoldsLog'
  BY PoliciesKept DEF RecordsHalf, ServiceInv, StoreHalf
<1>2. ASSUME NEW d \in Callers PROVE CallRecordFits(d)'
  BY <1>1, RestFits DEF RecordsHalf, Rests, callVars
<1> QED
  BY <1>1, <1>2 DEF RecordsHalf

LEMMA RecordsStep == ServiceInv /\ RecordsHalf /\ [Next]_vars => RecordsHalf'
<1> SUFFICES ASSUME ServiceInv, RecordsHalf, [Next]_vars
             PROVE  RecordsHalf'
  OBVIOUS
<1>1. StoreTypeOK /\ StoreTypeOK' /\ PolicyFoldsLog
  BY StepKeeps DEF ServiceInv, StoreHalf, RecordsHalf
<1>2. ASSUME NEW c \in Callers, NEW r \in Requests, Start(c, r)
      PROVE  RecordsHalf'
  BY <1>1, <1>2, PoliciesKept, StartFits DEF Start, Reads, storeVars, policyVars
<1>3. ASSUME NEW c \in Callers, Fail(c) \/ Finish(c)
      PROVE  RecordsHalf'
  <2>1. LogsGrow /\ PolicyFoldsLog'
    BY <1>1, <1>3, PoliciesKept DEF Fail, Finish, Reads, storeVars, policyVars
  <2> QED
    BY <1>1, <1>3, <2>1, NoRecord, NoRecordFits, FinishFits DEF Fail
<1>4. ASSUME NEW c \in Callers, Advance(c)
      PROVE  RecordsHalf'
  <2>1. CASE \/ AdmitLookup(c) \/ RequireCommitted(c) \/ AdmitReplay(c) \/ AdmitStale(c)
             \/ \E id \in IDs : DuplicateID(c, id)
             \/ ExplicitLookup(c) \/ ExplicitLostRace(c) \/ AppendStale(c)
             \/ AcceptanceGet(c)
    <3>1. Reads
      BY <2>1 DEF AdmitLookup, RequireCommitted, AdmitReplay, AdmitStale, DuplicateID,
         ExplicitLookup, ExplicitLostRace, AppendStale, AcceptanceGet
    <3> QED
      BY <1>1, <2>1, <3>1, PoliciesKept, OtherReadsFit DEF Reads, storeVars, policyVars
  <2>2. CASE AdmitDecide(c) \/ EnableRead(c) \/ StopRead(c)
    <3>1. Reads
      BY <2>2 DEF AdmitDecide, EnableRead, StopRead
    <3> QED
      BY <1>1, <2>2, <3>1, PoliciesKept, PolicyReadsFit DEF Reads, storeVars, policyVars
  <2>3. CASE \/ \E id \in IDs : AdmitCreate(c, id)
             \/ \E id \in IDs : ExplicitCreate(c, id)
             \/ AcceptanceBlock(c)
    <3>1. UNCHANGED policyVars
      BY <2>3 DEF AdmitCreate, CreateAutomaticAdmitted, CreateAutomatic, ExplicitCreate,
         CreateExplicit, AcceptanceBlock, UpdateBlocker, storeVars, policyVars
    <3> QED
      BY <1>1, <2>3, <3>1, PoliciesKept, CreatesFit DEF policyVars
  <2>4. CASE EnableAppend(c) \/ StopAppend(c)
    BY <2>4, AppendFits
  <2> QED
    BY <1>4, <2>1, <2>2, <2>3, <2>4 DEF Advance
<1>5. ASSUME NEW id \in IDs, NEW run \in RunIDs, ServiceAttachRunID(id, run)
      PROVE  RecordsHalf'
  BY <1>1, <1>5, EnvironmentFits DEF ServiceAttachRunID, AttachRunID
<1>6. ASSUME NEW id \in IDs, NEW u \in BlockerUpdates, ServiceUpdateBlocker(id, u.Owner, u.State)
      PROVE  RecordsHalf'
  BY <1>1, <1>6, EnvironmentFits DEF ServiceUpdateBlocker, UpdateBlocker
<1>7. ASSUME NEW rev \in PipelineRevisions, CommitRevision(rev)
      PROVE  RecordsHalf'
  BY <1>1, <1>7, EnvironmentFits DEF CommitRevision, storeVars, policyVars
<1>8. CASE UNCHANGED vars
  BY <1>1, <1>8, EnvironmentFits DEF vars, storeVars, policyVars
<1> QED
  BY <1>2, <1>3, <1>4, <1>5, <1>6, <1>7, <1>8 DEF Next

(* The policy record that a call returns is the fold of a prefix of the
   policy's log, no shorter than the log was when the call began: no answer
   shows a state the policy never had, or one from before the call.        *)
THEOREM ReturnedRecordsAreCurrent == Spec => []ReturnedRecordIsOfThisCall
<1>1. Init => RecordsHalf
  BY InitFolds DEF Init, RecordsHalf, CallRecordFits
<1>2. ServiceInv /\ RecordsHalf => ReturnedRecordIsOfThisCall
  <2> SUFFICES ASSUME ServiceInv, RecordsHalf, NEW c \in Callers,
                      pc[c] = "done", reply[c].Policy # NoPolicy
               PROVE  /\ startedAt[c] <= reply[c].Policy.Seq
                      /\ reply[c].Policy.Seq <= Len(LogOf(c))
                      /\ reply[c].Policy
                           = FoldLeft(Apply, NoPolicy, SubSeq(LogOf(c), 1, reply[c].Policy.Seq))
    BY DEF ReturnedRecordIsOfThisCall, LogOf
  <2>1. startedAt[c] <= reply[c].Policy.Seq /\ RecordFits(reply[c].Policy, LogOf(c))
    BY DEF RecordsHalf, CallRecordFits
  <2> DEFINE rec == reply[c].Policy
             log == LogOf(c)
  <2>2. rec.Seq \in 0..Len(log)
    BY <2>1 DEF RecordFits
  <2>3. rec = FoldLeft(Apply, NoPolicy, SubSeq(log, 1, rec.Seq))
    BY <2>1 DEF RecordFits
  <2> QED
    BY <2>1, <2>2, <2>3
<1> QED
  BY <1>1, <1>2, InitHolds, StepKeeps, RecordsStep, PTL DEF Spec

(***************************************************************************)
(* The promise, read off the store: what its variables are mapped to.      *)
(***************************************************************************)
Domains == Policies \X Subjects

DecisionOf(in, f) ==
  [PolicyRevision |-> in.PolicyRevision, PipelineRevision |-> in.PipelineRevision,
   Facts |-> f, Epoch |-> in.AdmissionEpoch, RunID |-> in.RunID,
   Held |-> in.Blockers["POLICY_DISABLE"] # "CLEAR"]

RequestOf(in) ==
  [Subject |-> in.Subject, PipelineRevision |-> in.PipelineRevision, RunID |-> in.RunID]

Decisions(au, ins, fa) ==
  [k \in Domains |-> IF au[k] = Nil THEN Nil ELSE DecisionOf(ins[au[k]], fa[au[k]])]
Decided(o, ins) ==
  [x \in OperationIDs |-> IF o[x] = Nil THEN Nil ELSE RequestOf(ins[o[x]])]
Statuses(pols) ==
  [p \in Policies |->
     [State |-> pols[p].State, Epoch |-> pols[p].Epoch, Frontier |-> pols[p].Frontier]]

automaticNow == Decisions(auto, intents, facts)
explicitNow == Decided(ops, intents)
lifecycleNow == Statuses(policies)

LEMMA Mapped ==
  /\ [k \in Policies \X Subjects |-> DecisionAt(k)] = automaticNow
  /\ [o \in OperationIDs |-> RequestAt(o)] = explicitNow
  /\ [p \in Policies |-> StatusOf(p)] = lifecycleNow
BY DEF DecisionAt, RequestAt, StatusOf, automaticNow, explicitNow, lifecycleNow,
   Decisions, Decided, Statuses, DecisionOf, RequestOf, Domains

LEMMA MappedNext ==
  /\ [k \in Policies \X Subjects |-> DecisionAt(k)]' = automaticNow'
  /\ [o \in OperationIDs |-> RequestAt(o)]' = explicitNow'
  /\ [p \in Policies |-> StatusOf(p)]' = lifecycleNow'
BY DEF DecisionAt, RequestAt, StatusOf, automaticNow, explicitNow, lifecycleNow,
   Decisions, Decided, Statuses, DecisionOf, RequestOf, Domains

(* The promise's actions, in these terms. *)
LEMMA IsStutter ==
  ASSUME automaticNow' = automaticNow, explicitNow' = explicitNow,
         lifecycleNow' = lifecycleNow, committed' = committed
  PROVE  UNCHANGED Promise!promiseVars
BY Mapped, MappedNext DEF Promise!promiseVars

LEMMA SameReason ==
  ASSUME NEW rec, NEW publication
  PROVE  Promise!Reason(rec, publication) = Reason(rec, publication)
BY DEF Promise!Reason, Reason, Promise!Comparable, Comparable, Promise!After, After

LEMMA IsAdmit ==
  ASSUME NEW k, NEW prev, NEW rev, NEW publication,
         automaticNow[k] = Nil, Reason(lifecycleNow[k[1]], publication) = "",
         rev \in committed,
         automaticNow' = [automaticNow EXCEPT ![k] =
           [PolicyRevision |-> prev, PipelineRevision |-> rev, Facts |-> publication,
            Epoch |-> lifecycleNow[k[1]].Epoch, RunID |-> Nil, Held |-> FALSE]],
         explicitNow' = explicitNow, lifecycleNow' = lifecycleNow, committed' = committed
  PROVE  Promise!Admit(k, prev, rev, publication)
BY Mapped, MappedNext, SameReason DEF Promise!Admit

LEMMA IsRecordExplicit ==
  ASSUME NEW o, NEW s, NEW rev, explicitNow[o] = Nil, rev \in committed,
         explicitNow' = [explicitNow EXCEPT ![o] =
           [Subject |-> s, PipelineRevision |-> rev, RunID |-> Nil]],
         automaticNow' = automaticNow, lifecycleNow' = lifecycleNow, committed' = committed
  PROVE  Promise!RecordExplicit(o, s, rev)
BY Mapped, MappedNext DEF Promise!RecordExplicit

LEMMA IsOpen ==
  ASSUME NEW p, NEW frontier,
         \/ lifecycleNow[p].State = Nil
         \/ lifecycleNow[p].State = "DISABLED" /\ FrontierValid(frontier, lifecycleNow[p]),
         lifecycleNow' = [lifecycleNow EXCEPT ![p] =
           [State |-> "ACTIVE", Epoch |-> lifecycleNow[p].Epoch + 1, Frontier |-> frontier]],
         automaticNow' = automaticNow, explicitNow' = explicitNow, committed' = committed
  PROVE  Promise!Open(p, frontier)
BY Mapped, MappedNext DEF Promise!Open, FrontierValid, Promise!Comparable, Comparable,
   Promise!After, After

LEMMA IsStop ==
  ASSUME NEW p, NEW target,
         \/ lifecycleNow[p].State = "ACTIVE"
         \/ lifecycleNow[p].State = "DISABLED" /\ target = "RETIRED",
         lifecycleNow' = [lifecycleNow EXCEPT ![p].State = target],
         automaticNow' = [k \in Domains |->
           IF k[1] = p /\ automaticNow[k] # Nil /\ automaticNow[k].RunID = Nil
             THEN [automaticNow[k] EXCEPT !.Held = TRUE] ELSE automaticNow[k]],
         explicitNow' = explicitNow, committed' = committed
  PROVE  Promise!Stop(p, target)
BY Mapped, MappedNext DEF Promise!Stop, Domains

LEMMA IsRunIDFree ==
  ASSUME NEW run,
         \A k \in Domains : automaticNow[k] # Nil => automaticNow[k].RunID # run,
         \A o \in OperationIDs : explicitNow[o] # Nil => explicitNow[o].RunID # run
  PROVE  Promise!RunIDFree(run)
BY Mapped DEF Promise!RunIDFree, Domains

LEMMA IsAttachAutomatic ==
  ASSUME NEW k, NEW run, automaticNow[k] # Nil, automaticNow[k].RunID = Nil,
         Promise!RunIDFree(run),
         automaticNow' = [automaticNow EXCEPT ![k].RunID = run],
         explicitNow' = explicitNow, lifecycleNow' = lifecycleNow, committed' = committed
  PROVE  Promise!AttachAutomatic(k, run)
BY Mapped, MappedNext DEF Promise!AttachAutomatic

LEMMA IsAttachExplicit ==
  ASSUME NEW o, NEW run, explicitNow[o] # Nil, explicitNow[o].RunID = Nil,
         Promise!RunIDFree(run),
         explicitNow' = [explicitNow EXCEPT ![o].RunID = run],
         automaticNow' = automaticNow, lifecycleNow' = lifecycleNow, committed' = committed
  PROVE  Promise!AttachExplicit(o, run)
BY Mapped, MappedNext DEF Promise!AttachExplicit

LEMMA IsSetHeld ==
  ASSUME NEW k, NEW held, automaticNow[k] # Nil,
         automaticNow' = [automaticNow EXCEPT ![k].Held = held],
         explicitNow' = explicitNow, lifecycleNow' = lifecycleNow, committed' = committed
  PROVE  Promise!SetHeld(k, held)
BY Mapped, MappedNext DEF Promise!SetHeld

LEMMA IsCommit ==
  ASSUME NEW rev, committed' = committed \cup {rev},
         automaticNow' = automaticNow, explicitNow' = explicitNow,
         lifecycleNow' = lifecycleNow
  PROVE  Promise!Commit(rev)
BY Mapped, MappedNext DEF Promise!Commit

(***************************************************************************)
(* What the indexes say of the decisions.                                  *)
(***************************************************************************)
LEMMA DecidedOn ==
  ASSUME ServiceInv, NEW k \in Domains, auto[k] # Nil
  PROVE  /\ auto[k] \in IDs /\ IsAutomatic(auto[k]) /\ AutoKey(intents[auto[k]]) = k
         /\ intents[auto[k]] \in IntentRecord /\ facts[auto[k]] \in Facts
<1>1. /\ StoreTypeOK /\ IndexesAgree /\ AdmittedAfterFrontier /\ HistoryTypeOK
  BY DEF ServiceInv, StoreHalf
<1>2. auto[k] \in IDs
  BY <1>1 DEF StoreTypeOK, Domains
<1>3. IsAutomatic(auto[k]) /\ AutoKey(intents[auto[k]]) = k
  BY <1>1, <1>2 DEF IndexesAgree, AutoIndexAgrees, Domains
<1>4. intents[auto[k]] \in IntentRecord
  BY <1>1, <1>2, <1>3 DEF StoreTypeOK, IsAutomatic, Exists
<1>5. facts[auto[k]] \in Facts
  BY <1>1, <1>2, <1>3 DEF AdmittedAfterFrontier, HistoryTypeOK
<1> QED
  BY <1>2, <1>3, <1>4, <1>5

LEMMA RequestedFor ==
  ASSUME ServiceInv, NEW o \in OperationIDs, ops[o] # Nil
  PROVE  /\ ops[o] \in IDs /\ Exists(ops[o]) /\ intents[ops[o]].Origin = "EXPLICIT"
         /\ intents[ops[o]].OperationID = o /\ intents[ops[o]] \in IntentRecord
<1>1. StoreTypeOK /\ IndexesAgree
  BY DEF ServiceInv, StoreHalf
<1>2. ops[o] \in IDs
  BY <1>1 DEF StoreTypeOK
<1>3. /\ Exists(ops[o]) /\ intents[ops[o]].Origin = "EXPLICIT"
      /\ intents[ops[o]].OperationID = o
  BY <1>1, <1>2 DEF IndexesAgree, LedgerAgrees
<1> QED
  BY <1>1, <1>2, <1>3 DEF StoreTypeOK, Exists

LEMMA DomainOf ==
  ASSUME ServiceInv, NEW id \in IDs, IsAutomatic(id)
  PROVE  AutoKey(intents[id]) \in Domains /\ auto[AutoKey(intents[id])] = id
<1>1. StoreTypeOK /\ IndexesAgree /\ AutomaticHasPolicy
  BY DEF ServiceInv, StoreHalf
<1>2. intents[id] \in IntentRecord /\ intents[id].PolicyID \in Policies
  BY <1>1 DEF StoreTypeOK, IsAutomatic, Exists, AutomaticHasPolicy
<1>3. AutoKey(intents[id]) \in Domains
  BY <1>2 DEF AutoKey, Domains, IntentRecord
<1> QED
  BY <1>1, <1>3 DEF IndexesAgree, AutoIndexAgrees, Domains

(* A decision is not the absence of one. *)
LEMMA DecisionThere ==
  ASSUME NEW in \in IntentRecord, NEW f \in Facts
  PROVE  DecisionOf(in, f) # Nil
<1>1. /\ in.PolicyRevision \in PolicyRevisions \cup {Nil}
      /\ in.PipelineRevision \in PipelineRevisions
      /\ in.AdmissionEpoch \in Nat /\ in.RunID \in RunIDs \cup {Nil}
  BY DEF IntentRecord
<1>2. (in.Blockers["POLICY_DISABLE"] # "CLEAR") \in BOOLEAN
  OBVIOUS
<1> DEFINE held == in.Blockers["POLICY_DISABLE"] # "CLEAR"
<1>3. DecisionOf(in, f) =
        [PolicyRevision |-> in.PolicyRevision, PipelineRevision |-> in.PipelineRevision,
         Facts |-> f, Epoch |-> in.AdmissionEpoch, RunID |-> in.RunID, Held |-> held]
  BY DEF DecisionOf
<1> HIDE DEF held
<1>4. held \in BOOLEAN
  BY <1>2 DEF held
<1> QED
  BY <1>1, <1>3, <1>4, NilIsNoDecision

LEMMA RequestThere ==
  ASSUME NEW in \in IntentRecord
  PROVE  RequestOf(in) # Nil
<1>1. RequestOf(in) \in [Subject : Subjects, PipelineRevision : PipelineRevisions,
                        RunID : RunIDs \cup {Nil}]
  BY DEF RequestOf, IntentRecord
<1> QED
  BY <1>1, NilIsNoDecision

LEMMA DecisionNow ==
  ASSUME ServiceInv, NEW k \in Domains
  PROVE  /\ auto[k] = Nil => automaticNow[k] = Nil
         /\ auto[k] # Nil =>
              /\ automaticNow[k] # Nil
              /\ automaticNow[k] = DecisionOf(intents[auto[k]], facts[auto[k]])
<1>1. auto[k] = Nil => automaticNow[k] = Nil
  BY DEF automaticNow, Decisions
<1>2. auto[k] # Nil => automaticNow[k] = DecisionOf(intents[auto[k]], facts[auto[k]])
  BY DEF automaticNow, Decisions
<1>3. auto[k] # Nil => automaticNow[k] # Nil
  BY <1>2, DecidedOn, DecisionThere
<1> QED
  BY <1>1, <1>2, <1>3

LEMMA RequestNow ==
  ASSUME ServiceInv, NEW o \in OperationIDs
  PROVE  /\ ops[o] = Nil => explicitNow[o] = Nil
         /\ ops[o] # Nil =>
              /\ explicitNow[o] # Nil
              /\ explicitNow[o] = RequestOf(intents[ops[o]])
<1>1. ops[o] = Nil => explicitNow[o] = Nil
  BY DEF explicitNow, Decided
<1>2. ops[o] # Nil => explicitNow[o] = RequestOf(intents[ops[o]])
  BY DEF explicitNow, Decided
<1>3. ops[o] # Nil => explicitNow[o] # Nil
  BY <1>2, RequestedFor, RequestThere
<1> QED
  BY <1>1, <1>2, <1>3

(***************************************************************************)
(* How a write of one intent changes what is decided.                      *)
(***************************************************************************)
LEMMA DecidedKept ==
  ASSUME NEW o, NEW ins, NEW ins2,
         \A x \in OperationIDs : o[x] # Nil => RequestOf(ins2[o[x]]) = RequestOf(ins[o[x]])
  PROVE  Decided(o, ins2) = Decided(o, ins)
BY DEF Decided

LEMMA ExceptAt ==
  ASSUME NEW S, NEW f, NEW g, NEW k \in S, NEW d,
         f = [j \in S |-> f[j]], g = [j \in S |-> g[j]],
         \A j \in S \ {k} : g[j] = f[j], g[k] = d
  PROVE  g = [f EXCEPT ![k] = d]
OBVIOUS

(* The same, of the store: one automatic, or one explicit, intent changes. *)
LEMMA AutomaticWritten ==
  ASSUME ServiceInv, NEW id \in IDs, IsAutomatic(id), NEW new \in IntentRecord,
         intents' = [intents EXCEPT ![id] = new], UNCHANGED <<auto, ops, facts>>
  PROVE  /\ automaticNow' = [automaticNow EXCEPT ![AutoKey(intents[id])] = DecisionOf(new, facts[id])]
         /\ explicitNow' = explicitNow
<1> DEFINE k == AutoKey(intents[id])
<1>1. k \in Domains /\ auto[k] = id /\ id # Nil
  BY DomainOf, NilIsFresh
<1>2. intents'[id] = new /\ \A x \in IDs \ {id} : intents'[x] = intents[x]
  BY DEF ServiceInv, StoreHalf, StoreTypeOK
<1>3. ASSUME NEW j \in Domains \ {k}, auto[j] # Nil
      PROVE  intents'[auto[j]] = intents[auto[j]]
  BY <1>2, <1>3, DecidedOn
<1>4. ASSUME NEW o \in OperationIDs, ops[o] # Nil
      PROVE  intents'[ops[o]] = intents[ops[o]]
  BY <1>2, <1>4, RequestedFor DEF IsAutomatic
<1> HIDE DEF k
<1>5. \A j \in Domains \ {k} :
        /\ auto[j] = auto[j]
        /\ auto[j] # Nil =>
             DecisionOf(intents'[auto[j]], facts[auto[j]]) = DecisionOf(intents[auto[j]], facts[auto[j]])
  BY <1>3
<1> DEFINE before == Decisions(auto, intents, facts)
           after == Decisions(auto, intents', facts)
           d == DecisionOf(new, facts[id])
<1>6. after = [before EXCEPT ![k] = d]
  <2>1. before = [j \in Domains |-> before[j]] /\ after = [j \in Domains |-> after[j]]
    BY DEF Decisions
  <2>2. \A j \in Domains \ {k} : after[j] = before[j]
    BY <1>5 DEF Decisions
  <2>3. after[k] = d
    BY <1>1, <1>2 DEF Decisions
  <2> HIDE DEF before, after, d
  <2> QED
    BY <1>1, <2>1, <2>2, <2>3, ExceptAt
<1>7. Decided(ops, intents') = Decided(ops, intents)
  BY <1>4, DecidedKept
<1>8. /\ automaticNow' = Decisions(auto, intents', facts)
      /\ explicitNow' = Decided(ops, intents')
  BY DEF automaticNow, explicitNow
<1> QED
  BY <1>1, <1>2, <1>6, <1>7, <1>8 DEF automaticNow, explicitNow, k

LEMMA ExplicitWritten ==
  ASSUME ServiceInv, NEW id \in IDs, Exists(id), ~IsAutomatic(id), NEW new \in IntentRecord,
         intents' = [intents EXCEPT ![id] = new], UNCHANGED <<auto, ops, facts>>
  PROVE  /\ automaticNow' = automaticNow
         /\ \A o \in OperationIDs : ops[o] = id =>
              explicitNow' = [explicitNow EXCEPT ![o] = RequestOf(new)]
         /\ (\A o \in OperationIDs : ops[o] # id) => explicitNow' = explicitNow
<1>1. id # Nil /\ intents'[id] = new /\ \A x \in IDs \ {id} : intents'[x] = intents[x]
  BY NilIsFresh DEF ServiceInv, StoreHalf, StoreTypeOK
<1>2. ASSUME NEW k \in Domains, auto[k] # Nil
      PROVE  intents'[auto[k]] = intents[auto[k]]
  BY <1>1, <1>2, DecidedOn
<1>3. Decisions(auto, intents', facts) = Decisions(auto, intents, facts)
  <2>1. \A k \in Domains : auto[k] # Nil =>
          DecisionOf(intents'[auto[k]], facts[auto[k]]) = DecisionOf(intents[auto[k]], facts[auto[k]])
    BY <1>2
  <2> QED
    BY <2>1 DEF Decisions
<1>4. ASSUME NEW o \in OperationIDs, ops[o] # Nil, ops[o] # id
      PROVE  intents'[ops[o]] = intents[ops[o]]
  BY <1>1, <1>4, RequestedFor
<1>5. ASSUME NEW o \in OperationIDs, ops[o] = id
      PROVE  Decided(ops, intents') = [Decided(ops, intents) EXCEPT ![o] = RequestOf(new)]
  <2>1. ASSUME NEW x \in OperationIDs \ {o}, ops[x] # Nil PROVE ops[x] # id
    BY <1>1, <1>5, <2>1, RequestedFor
  <2>2. \A x \in OperationIDs \ {o} :
          /\ ops[x] = ops[x]
          /\ ops[x] # Nil => RequestOf(intents'[ops[x]]) = RequestOf(intents[ops[x]])
    BY <1>4, <2>1
  <2>3. ops[o] # Nil
    BY <1>1, <1>5
  <2> DEFINE before == Decided(ops, intents)
             after == Decided(ops, intents')
             d == RequestOf(new)
  <2>4. before = [x \in OperationIDs |-> before[x]] /\ after = [x \in OperationIDs |-> after[x]]
    BY DEF Decided
  <2>5. \A x \in OperationIDs \ {o} : after[x] = before[x]
    BY <2>2 DEF Decided
  <2>6. after[o] = d
    BY <1>1, <1>5, <2>3 DEF Decided
  <2> HIDE DEF before, after, d
  <2>7. after = [before EXCEPT ![o] = d]
    BY <2>4, <2>5, <2>6, ExceptAt
  <2> QED
    BY <2>7 DEF before, after, d
<1>6. ASSUME \A o \in OperationIDs : ops[o] # id
      PROVE  Decided(ops, intents') = Decided(ops, intents)
  BY <1>4, <1>6, DecidedKept
<1>7. /\ automaticNow' = Decisions(auto, intents', facts)
      /\ explicitNow' = Decided(ops, intents')
  BY DEF automaticNow, explicitNow
<1> QED
  BY <1>3, <1>5, <1>6, <1>7 DEF automaticNow, explicitNow

(***************************************************************************)
(* Each step of the service is a step of the promise, or none.             *)
(***************************************************************************)
Promised == Promise!PromiseNext \/ UNCHANGED Promise!promiseVars

(* A read, a refused write and a caller's own bookkeeping are none. *)
LEMMA ReadsPromised ==
  ASSUME UNCHANGED <<intents, auto, ops, policies, facts, committed>>
  PROVE  Promised
<1>1. automaticNow' = automaticNow /\ explicitNow' = explicitNow /\ lifecycleNow' = lifecycleNow
  BY DEF automaticNow, explicitNow, lifecycleNow
<1> QED
  BY <1>1, IsStutter DEF Promised

LEMMA BlockerPromised ==
  ASSUME ServiceInv, NEW id \in IDs, NEW owner \in BlockerOwners, NEW state \in BlockerStates,
         UpdateBlocker(id, owner, state), UNCHANGED <<facts, committed>>
  PROVE  Promised
<1> DEFINE in == intents[id]
           new == [in EXCEPT !.Blockers[owner] = state]
           held == new.Blockers["POLICY_DISABLE"] # "CLEAR"
<1>1. /\ Exists(id) /\ intents' = [intents EXCEPT ![id] = new]
      /\ UNCHANGED <<auto, ops, policies>>
  BY DEF UpdateBlocker, indexVars, policyVars
<1>2. in \in IntentRecord
  BY <1>1 DEF ServiceInv, StoreHalf, StoreTypeOK, Exists
<1>3. new \in IntentRecord
  BY <1>2, BlockerTyped
<1>4. /\ RequestOf(new) = RequestOf(in)
      /\ \A f : DecisionOf(new, f) = [DecisionOf(in, f) EXCEPT !.Held = held]
  BY <1>2 DEF RequestOf, DecisionOf, IntentRecord
<1>5. lifecycleNow' = lifecycleNow
  BY <1>1 DEF lifecycleNow
<1>6. held \in BOOLEAN
  OBVIOUS
<1> HIDE DEF new, held
<1>7. CASE IsAutomatic(id)
  <2> DEFINE k == AutoKey(in)
  <2>1. k \in Domains /\ auto[k] = id /\ id # Nil
    BY <1>7, DomainOf, NilIsFresh
  <2>2. automaticNow[k] # Nil /\ automaticNow[k] = DecisionOf(in, facts[id])
    BY <2>1, DecisionNow
  <2>3. /\ automaticNow' = [automaticNow EXCEPT ![k] = DecisionOf(new, facts[id])]
        /\ explicitNow' = explicitNow
    BY <1>1, <1>3, <1>7, AutomaticWritten
  <2>4. DecisionOf(new, facts[id]) = [automaticNow[k] EXCEPT !.Held = held]
    BY <1>4, <2>2
  <2> HIDE DEF k
  <2>5. automaticNow' = [automaticNow EXCEPT ![k].Held = held]
    BY <2>3, <2>4
  <2>6. Promise!SetHeld(k, held)
    BY <1>5, <2>2, <2>3, <2>5, IsSetHeld
  <2> QED
    BY <1>6, <2>1, <2>6 DEF Promised, Promise!PromiseNext, Domains
<1>8. CASE ~IsAutomatic(id)
  <2>1. /\ automaticNow' = automaticNow
        /\ \A o \in OperationIDs : ops[o] = id =>
             explicitNow' = [explicitNow EXCEPT ![o] = RequestOf(new)]
        /\ (\A o \in OperationIDs : ops[o] # id) => explicitNow' = explicitNow
    BY <1>1, <1>3, <1>8, ExplicitWritten
  <2>2. ASSUME NEW o \in OperationIDs, ops[o] = id
        PROVE  explicitNow' = explicitNow
    <3>1. explicitNow[o] = RequestOf(new)
      BY <1>1, <1>4, <2>2, RequestNow DEF Exists
    <3>2. explicitNow = [x \in OperationIDs |-> explicitNow[x]]
      BY DEF explicitNow, Decided
    <3> QED
      BY <2>1, <2>2, <3>1, <3>2
  <2>3. explicitNow' = explicitNow
    BY <2>1, <2>2
  <2> QED
    BY <1>5, <2>1, <2>3, IsStutter DEF Promised
<1> QED
  BY <1>7, <1>8

(* The index of RunIDs answers for the promise's, which looks at them all. *)
LEMMA UnusedIsFree ==
  ASSUME ServiceInv, NEW run \in RunIDs, runs[run] = Nil
  PROVE  Promise!RunIDFree(run)
<1>1. \A id \in IDs : Exists(id) => intents[id].RunID # run
  BY NilIsFresh DEF ServiceInv, StoreHalf, IndexesAgree, RunIndexAgrees
<1>2. ASSUME NEW k \in Domains, automaticNow[k] # Nil PROVE automaticNow[k].RunID # run
  <2>1. auto[k] # Nil /\ automaticNow[k] = DecisionOf(intents[auto[k]], facts[auto[k]])
    BY <1>2, DecisionNow
  <2>2. auto[k] \in IDs /\ Exists(auto[k])
    BY <2>1, DecidedOn DEF IsAutomatic
  <2> QED
    BY <1>1, <2>1, <2>2 DEF DecisionOf
<1>3. ASSUME NEW o \in OperationIDs, explicitNow[o] # Nil PROVE explicitNow[o].RunID # run
  <2>1. ops[o] # Nil /\ explicitNow[o] = RequestOf(intents[ops[o]])
    BY <1>3, RequestNow
  <2>2. ops[o] \in IDs /\ Exists(ops[o])
    BY <2>1, RequestedFor
  <2> QED
    BY <1>1, <2>1, <2>2 DEF RequestOf
<1> QED
  BY <1>2, <1>3, IsRunIDFree

LEMMA AttachPromised ==
  ASSUME ServiceInv, NEW id \in IDs, NEW run \in RunIDs, ServiceAttachRunID(id, run)
  PROVE  Promised
<1> DEFINE in == intents[id]
           new == [in EXCEPT !.RunID = run]
<1>1. /\ Exists(id) /\ in.RunID = Nil /\ runs[run] = Nil
      /\ intents' = [intents EXCEPT ![id] = new]
      /\ UNCHANGED <<auto, ops, policies, facts, committed>>
  BY DEF ServiceAttachRunID, AttachRunID, policyVars
<1>2. in \in IntentRecord
  BY <1>1 DEF ServiceInv, StoreHalf, StoreTypeOK, Exists
<1>3. new \in IntentRecord
  BY <1>2 DEF IntentRecord
<1>4. /\ RequestOf(new) = [RequestOf(in) EXCEPT !.RunID = run] /\ RequestOf(in).RunID = Nil
      /\ \A f : /\ DecisionOf(new, f) = [DecisionOf(in, f) EXCEPT !.RunID = run]
                /\ DecisionOf(in, f).RunID = Nil
  BY <1>1, <1>2 DEF RequestOf, DecisionOf, IntentRecord
<1>5. lifecycleNow' = lifecycleNow
  BY <1>1 DEF lifecycleNow
<1>6. Promise!RunIDFree(run)
  BY <1>1, UnusedIsFree
<1> HIDE DEF new
<1>7. CASE IsAutomatic(id)
  <2> DEFINE k == AutoKey(in)
  <2>1. k \in Domains /\ auto[k] = id /\ id # Nil
    BY <1>7, DomainOf, NilIsFresh
  <2>2. automaticNow[k] # Nil /\ automaticNow[k] = DecisionOf(in, facts[id])
    BY <2>1, DecisionNow
  <2>3. /\ automaticNow' = [automaticNow EXCEPT ![k] = DecisionOf(new, facts[id])]
        /\ explicitNow' = explicitNow
    BY <1>1, <1>3, <1>7, AutomaticWritten
  <2>4. /\ DecisionOf(new, facts[id]) = [automaticNow[k] EXCEPT !.RunID = run]
        /\ automaticNow[k].RunID = Nil
    BY <1>4, <2>2
  <2> HIDE DEF k
  <2>5. automaticNow' = [automaticNow EXCEPT ![k].RunID = run]
    BY <2>3, <2>4
  <2>6. Promise!AttachAutomatic(k, run)
    BY <1>1, <1>5, <1>6, <2>2, <2>3, <2>4, <2>5, IsAttachAutomatic
  <2> QED
    BY <2>1, <2>6 DEF Promised, Promise!PromiseNext, Domains
<1>8. CASE ~IsAutomatic(id)
  <2>1. /\ automaticNow' = automaticNow
        /\ \A o \in OperationIDs : ops[o] = id =>
             explicitNow' = [explicitNow EXCEPT ![o] = RequestOf(new)]
        /\ (\A o \in OperationIDs : ops[o] # id) => explicitNow' = explicitNow
    BY <1>1, <1>3, <1>8, ExplicitWritten
  <2>2. ASSUME NEW o \in OperationIDs, ops[o] = id PROVE Promised
    <3>1. explicitNow[o] # Nil /\ explicitNow[o] = RequestOf(in)
      BY <1>1, <2>2, RequestNow DEF Exists
    <3>2. explicitNow' = [explicitNow EXCEPT ![o] = RequestOf(new)]
      BY <2>1, <2>2
    <3>3. RequestOf(new) = [explicitNow[o] EXCEPT !.RunID = run] /\ explicitNow[o].RunID = Nil
      BY <1>4, <3>1
    <3>4. explicitNow' = [explicitNow EXCEPT ![o].RunID = run]
      BY <3>2, <3>3
    <3>5. Promise!AttachExplicit(o, run)
      BY <1>1, <1>5, <1>6, <2>1, <3>1, <3>3, <3>4, IsAttachExplicit
    <3> QED
      BY <3>5 DEF Promised, Promise!PromiseNext
  <2>3. CASE \A o \in OperationIDs : ops[o] # id
    BY <1>1, <1>5, <2>1, <2>3, IsStutter DEF Promised
  <2> QED
    BY <2>2, <2>3
<1> QED
  BY <1>7, <1>8

LEMMA CommitPromised ==
  ASSUME NEW rev \in PipelineRevisions, CommitRevision(rev)
  PROVE  Promised
<1>1. /\ committed' = committed \cup {rev}
      /\ UNCHANGED <<intents, auto, ops, policies, facts>>
  BY DEF CommitRevision, storeVars, indexVars, policyVars, historyVars
<1>2. automaticNow' = automaticNow /\ explicitNow' = explicitNow /\ lifecycleNow' = lifecycleNow
  BY <1>1 DEF automaticNow, explicitNow, lifecycleNow
<1>3. Promise!Commit(rev)
  BY <1>1, <1>2, IsCommit
<1> QED
  BY <1>3 DEF Promised, Promise!PromiseNext

(* A create writes under an ID no domain and no OperationID has. *)
LEMMA OthersStand ==
  ASSUME ServiceInv, NEW id \in IDs, ~Exists(id)
  PROVE  /\ \A k \in Domains : auto[k] # Nil => auto[k] \in IDs \ {id}
         /\ \A o \in OperationIDs : ops[o] # Nil => ops[o] \in IDs \ {id}
<1>1. ASSUME NEW k \in Domains, auto[k] # Nil PROVE auto[k] \in IDs \ {id}
  BY <1>1, DecidedOn DEF IsAutomatic
<1>2. ASSUME NEW o \in OperationIDs, ops[o] # Nil PROVE ops[o] \in IDs \ {id}
  BY <1>2, RequestedFor
<1> QED
  BY <1>1, <1>2

LEMMA DecisionCreated ==
  ASSUME ServiceInv, NEW id \in IDs, ~Exists(id), NEW k \in Domains, NEW new, NEW f,
         auto' = [auto EXCEPT ![k] = id], intents' = [intents EXCEPT ![id] = new],
         facts' = [facts EXCEPT ![id] = f], ops' = ops
  PROVE  /\ automaticNow' = [automaticNow EXCEPT ![k] = DecisionOf(new, f)]
         /\ explicitNow' = explicitNow
<1> DEFINE before == automaticNow
           after == automaticNow'
           d == DecisionOf(new, f)
<1>1. StoreTypeOK /\ HistoryTypeOK /\ id # Nil
  BY NilIsFresh DEF ServiceInv, StoreHalf
<1>2. /\ auto'[k] = id /\ \A j \in Domains \ {k} : auto'[j] = auto[j]
      /\ intents'[id] = new /\ \A x \in IDs \ {id} : intents'[x] = intents[x]
      /\ facts'[id] = f /\ \A x \in IDs \ {id} : facts'[x] = facts[x]
  BY <1>1 DEF StoreTypeOK, HistoryTypeOK, Domains
<1>3. before = [j \in Domains |-> before[j]] /\ after = [j \in Domains |-> after[j]]
  BY DEF automaticNow, Decisions
<1>4. ASSUME NEW j \in Domains \ {k} PROVE after[j] = before[j]
  <2>1. auto'[j] = auto[j]
    BY <1>2
  <2>2. CASE auto[j] = Nil
    BY <2>1, <2>2 DEF automaticNow, Decisions
  <2>3. CASE auto[j] # Nil
    <3>1. intents'[auto[j]] = intents[auto[j]] /\ facts'[auto[j]] = facts[auto[j]]
      BY <1>2, <2>3, OthersStand
    <3> QED
      BY <2>1, <3>1 DEF automaticNow, Decisions
  <2> QED
    BY <2>2, <2>3
<1>5. after[k] = d
  BY <1>1, <1>2 DEF automaticNow, Decisions
<1>6. ASSUME NEW o \in OperationIDs, ops[o] # Nil PROVE intents'[ops[o]] = intents[ops[o]]
  BY <1>2, <1>6, OthersStand
<1>7. explicitNow' = explicitNow
  BY <1>6 DEF explicitNow, Decided
<1> HIDE DEF before, after, d
<1>8. after = [before EXCEPT ![k] = d]
  BY <1>3, <1>4, <1>5, ExceptAt
<1> QED
  BY <1>7, <1>8 DEF before, after, d

LEMMA RequestCreated ==
  ASSUME ServiceInv, NEW id \in IDs, ~Exists(id), NEW o \in OperationIDs, NEW new,
         ops' = [ops EXCEPT ![o] = id], intents' = [intents EXCEPT ![id] = new],
         UNCHANGED <<auto, facts>>
  PROVE  /\ explicitNow' = [explicitNow EXCEPT ![o] = RequestOf(new)]
         /\ automaticNow' = automaticNow
<1> DEFINE before == explicitNow
           after == explicitNow'
           d == RequestOf(new)
<1>1. StoreTypeOK /\ id # Nil
  BY NilIsFresh DEF ServiceInv, StoreHalf
<1>2. /\ ops'[o] = id /\ \A x \in OperationIDs \ {o} : ops'[x] = ops[x]
      /\ intents'[id] = new /\ \A x \in IDs \ {id} : intents'[x] = intents[x]
  BY <1>1 DEF StoreTypeOK
<1>3. before = [x \in OperationIDs |-> before[x]] /\ after = [x \in OperationIDs |-> after[x]]
  BY DEF explicitNow, Decided
<1>4. ASSUME NEW x \in OperationIDs \ {o} PROVE after[x] = before[x]
  <2>1. ops'[x] = ops[x]
    BY <1>2
  <2>2. CASE ops[x] = Nil
    BY <2>1, <2>2 DEF explicitNow, Decided
  <2>3. CASE ops[x] # Nil
    <3>1. intents'[ops[x]] = intents[ops[x]]
      BY <1>2, <2>3, OthersStand
    <3> QED
      BY <2>1, <3>1 DEF explicitNow, Decided
  <2> QED
    BY <2>2, <2>3
<1>5. after[o] = d
  BY <1>1, <1>2 DEF explicitNow, Decided
<1>6. ASSUME NEW j \in Domains, auto[j] # Nil PROVE intents'[auto[j]] = intents[auto[j]]
  BY <1>2, <1>6, OthersStand
<1>7. automaticNow' = automaticNow
  BY <1>6 DEF automaticNow, Decisions
<1> HIDE DEF before, after, d
<1>8. after = [before EXCEPT ![o] = d]
  BY <1>3, <1>4, <1>5, ExceptAt
<1> QED
  BY <1>7, <1>8 DEF before, after, d

(* The gate, decided on the record read earlier, is passed on the record as
   it is: the policy is still ACTIVE in that epoch, whose frontier an epoch
   has from the entry that opened it.                                      *)
LEMMA GateStillPasses ==
  ASSUME ServiceInv, NEW c \in Callers, pc[c] = "create", req[c].Call = "AdmitAutomatic",
         PolicyIsCurrent(req[c].PolicyID, seen[c].Epoch)
  PROVE  /\ Reason(lifecycleNow[req[c].PolicyID], req[c].Facts) = ""
         /\ lifecycleNow[req[c].PolicyID].Epoch = seen[c].Epoch
         /\ req[c].Facts \in [Position : Positions, Class : {"NEW"}]
<1> DEFINE r == req[c]
           p == r.PolicyID
           log == policyLogs[p]
<1>1. p \in Policies /\ r.Facts \in Facts
  <2>1. r \in Requests /\ OfPolicy(r)
    BY CallKnown DEF ServiceInv, OfPolicy
  <2> QED
    BY <2>1, RequestTyped
<1>2. /\ StoreHalf /\ StoreTypeOK /\ PoliciesRecorded
      /\ policies[p].Seq # 0 /\ policies[p].State = "ACTIVE" /\ policies[p].Epoch = seen[c].Epoch
  BY DEF ServiceInv, StoreHalf, PolicyIsCurrent, PolicyFound
<1>3. /\ r.Facts.Class = "NEW" /\ After(r.Facts.Position, seen[c].Frontier)
      /\ \E i \in 1..Len(log) :
           IsOpening(log[i]) /\ log[i].Epoch = seen[c].Epoch /\ log[i].Frontier = seen[c].Frontier
  BY DEF ServiceInv, CallsInv, CallInv, PassedGate
<1>4. PICK i \in 1..Len(log) :
        IsOpening(log[i]) /\ log[i].Epoch = seen[c].Epoch /\ log[i].Frontier = seen[c].Frontier
  BY <1>3
<1>5. i = Len(log)
  BY <1>1, <1>2, <1>4, OpenEpochIsLast
<1>6. policies[p].Frontier = seen[c].Frontier
  BY <1>1, <1>2, <1>4, <1>5, RecordActive DEF PoliciesRecorded, RecordOf, LastOf
<1>7. /\ lifecycleNow[p].State = "ACTIVE" /\ lifecycleNow[p].Epoch = seen[c].Epoch
      /\ lifecycleNow[p].Frontier = seen[c].Frontier
  BY <1>1, <1>2, <1>6 DEF lifecycleNow, Statuses
<1>8. r.Facts.Position \in Positions /\ r.Facts.Position # Nil
  BY <1>3, PublicationOrder, NilIsFresh DEF After
<1>9. Reason(lifecycleNow[p], r.Facts) = ""
  BY <1>3, <1>7, <1>8 DEF Reason, Comparable, After
<1>10. r.Facts \in [Position : Positions, Class : {"NEW"}]
  BY <1>1, <1>3, <1>8 DEF Facts
<1> QED
  BY <1>7, <1>9, <1>10

LEMMA AdmitCreatePromised ==
  ASSUME ServiceInv, NEW c \in Callers, NEW id \in IDs, AdmitCreate(c, id)
  PROVE  Promised
<1> DEFINE r == req[c]
           p == r.PolicyID
           k == Key(r)
           draft == AdmitDraft(r, seen[c].Epoch)
           new == [draft EXCEPT !.ID = id]
<1>1. /\ pc[c] = "create" /\ r.Call = "AdmitAutomatic"
      /\ CreateAutomaticAdmitted(draft, seen[c].Epoch, id)
      /\ facts' = [facts EXCEPT ![id] = r.Facts] /\ committed' = committed
  BY DEF AdmitCreate, At
<1>2. /\ p \in Policies /\ r.PolicyRevision \in PolicyRevisions /\ r.Subject \in Subjects
      /\ r.PipelineRevision \in PipelineRevisions /\ r.PipelineRevision \in committed
  <2>1. r \in Requests /\ OfPolicy(r)
    BY <1>1, CallKnown DEF ServiceInv, OfPolicy
  <2>2. r.PipelineRevision \in committed
    BY <1>1 DEF ServiceInv, CallsInv, CallInv, RevisionRead
  <2> QED
    BY <1>1, <2>1, <2>2, RequestTyped
<1>3. /\ draft.PolicyID = p /\ AutoKey(draft) = k /\ k[1] = p
  BY DEF AdmitDraft, AutomaticDraft, AutoKey, Key
<1>4. k \in Domains
  BY <1>2 DEF Key, Domains
<1>5. DecisionOf(new, r.Facts) =
        [PolicyRevision |-> r.PolicyRevision, PipelineRevision |-> r.PipelineRevision,
         Facts |-> r.Facts, Epoch |-> seen[c].Epoch, RunID |-> Nil, Held |-> FALSE]
  BY PolicyDisableIsAnOwner DEF DecisionOf, AdmitDraft, AutomaticDraft, NoBlockers
<1> HIDE DEF draft
<1>6. /\ PolicyIsCurrent(p, seen[c].Epoch)
      /\ auto[k] = Nil /\ ~Exists(id)
      /\ auto' = [auto EXCEPT ![k] = id] /\ intents' = [intents EXCEPT ![id] = new]
      /\ UNCHANGED <<ops, policies>>
  BY <1>1, <1>3 DEF CreateAutomaticAdmitted, CreateAutomatic, policyVars
<1> HIDE DEF new, k
<1>7. /\ Reason(lifecycleNow[p], r.Facts) = "" /\ lifecycleNow[p].Epoch = seen[c].Epoch
      /\ r.Facts \in [Position : Positions, Class : {"NEW"}]
  BY <1>1, <1>6, GateStillPasses
<1>8. /\ automaticNow' = [automaticNow EXCEPT ![k] = DecisionOf(new, r.Facts)]
      /\ explicitNow' = explicitNow
  BY <1>1, <1>4, <1>6, DecisionCreated
<1>9. automaticNow[k] = Nil /\ lifecycleNow' = lifecycleNow
  BY <1>4, <1>6, DecisionNow DEF lifecycleNow
<1>10. Promise!Admit(k, r.PolicyRevision, r.PipelineRevision, r.Facts)
  BY <1>1, <1>2, <1>3, <1>5, <1>7, <1>8, <1>9, IsAdmit
<1> QED
  BY <1>2, <1>4, <1>7, <1>10 DEF Promised, Promise!PromiseNext, Domains

LEMMA ExplicitCreatePromised ==
  ASSUME ServiceInv, NEW c \in Callers, NEW id \in IDs, ExplicitCreate(c, id)
  PROVE  Promised
<1> DEFINE r == req[c]
           o == r.OperationID
           draft == DraftOf(r)
           new == [draft EXCEPT !.ID = id]
<1>1. /\ pc[c] = "create" /\ r.Call = "CreateExplicit"
      /\ CreateExplicit(draft, id) /\ UNCHANGED <<committed, facts>>
  BY DEF ExplicitCreate, At, historyVars
<1>2. /\ o \in OperationIDs /\ r.Subject \in Subjects
      /\ r.PipelineRevision \in PipelineRevisions /\ r.PipelineRevision \in committed
  BY <1>1, CallKnown, RequestTyped DEF ServiceInv, CallsInv, CallInv, RevisionRead
<1>3. /\ draft.OperationID = o
      /\ RequestOf(new) =
           [Subject |-> r.Subject, PipelineRevision |-> r.PipelineRevision, RunID |-> Nil]
  BY DEF DraftOf, ExplicitDraft, RequestOf
<1> HIDE DEF draft
<1>4. /\ ops[o] = Nil /\ ~Exists(id)
      /\ ops' = [ops EXCEPT ![o] = id] /\ intents' = [intents EXCEPT ![id] = new]
      /\ UNCHANGED <<auto, policies>>
  BY <1>1, <1>3 DEF CreateExplicit, policyVars
<1> HIDE DEF new
<1>5. /\ explicitNow' = [explicitNow EXCEPT ![o] = RequestOf(new)]
      /\ automaticNow' = automaticNow
  BY <1>1, <1>2, <1>4, RequestCreated
<1>6. explicitNow[o] = Nil /\ lifecycleNow' = lifecycleNow
  BY <1>2, <1>4, RequestNow DEF lifecycleNow
<1>7. Promise!RecordExplicit(o, r.Subject, r.PipelineRevision)
  BY <1>1, <1>2, <1>3, <1>5, <1>6, IsRecordExplicit
<1> QED
  BY <1>2, <1>7 DEF Promised, Promise!PromiseNext

(* A transition that compares the sequence numbers is decided on the record
   as it is, whatever was read before.                                     *)
LEMMA AppendIsCurrent ==
  ASSUME ServiceInv, NEW c \in Callers, pc[c] = "append",
         Len(policyLogs[req[c].PolicyID]) = seen[c].Seq
  PROVE  LET p == req[c].PolicyID
         IN  /\ p \in Policies /\ seen[c] = policies[p] /\ policies[p] \in PolicyRecord
             /\ LegalNext(policies[p], Appends(c)) /\ policies[p].Seq \in Nat
<1>1. req[c] \in Requests /\ OfPolicy(req[c])
  BY CallKnown DEF ServiceInv, CallsInv, CallInv, CallMatches, OfPolicy
<1>2. req[c].PolicyID \in Policies
  BY <1>1, RequestTyped
<1>3. seen[c] = policies[req[c].PolicyID]
  BY <1>1 DEF ServiceInv, CallsInv, CallInv, SeenInLog
<1>4. LegalNext(seen[c], Appends(c))
  BY DEF ServiceInv, CallsInv, CallInv, AppendsLegally
<1>5. seen[c] \in PolicyRecord /\ seen[c].Seq \in Nat
  BY DEF ServiceInv, CallTypeOK, PolicyRecord
<1> QED
  BY <1>2, <1>3, <1>4, <1>5

LEMMA StatusAppended ==
  ASSUME StoreTypeOK, NEW p \in Policies, NEW n \in Nat, NEW t \in PolicyTransition, NEW hold,
         AppendPolicyTransition(p, n, t, hold), NEW state, NEW frontier,
         \/ t.Kind \in OpeningKinds /\ state = "ACTIVE" /\ frontier = t.Frontier
         \/ t.Kind = "DISABLE" /\ state = "DISABLED" /\ frontier = policies[p].Frontier
         \/ t.Kind = "RETIRE" /\ state = "RETIRED" /\ frontier = policies[p].Frontier
  PROVE  lifecycleNow' = [lifecycleNow EXCEPT ![p] =
           [State |-> state, Epoch |-> t.Epoch, Frontier |-> frontier]]
<1> DEFINE d == [State |-> state, Epoch |-> t.Epoch, Frontier |-> frontier]
           before == lifecycleNow
           after == lifecycleNow'
           entry == [t EXCEPT !.Seq = n + 1]
<1>1. /\ entry.Kind = t.Kind /\ entry.Epoch = t.Epoch /\ entry.Frontier = t.Frontier
      /\ policies'[p] = Apply(policies[p], entry)
      /\ \A q \in Policies \ {p} : policies'[q] = policies[q]
  BY AppendDoes
<1> HIDE DEF entry
<1>2. /\ policies'[p].State = state /\ policies'[p].Epoch = t.Epoch
      /\ policies'[p].Frontier = frontier
  <2>1. /\ Apply(policies[p], entry).State = state
        /\ Apply(policies[p], entry).Epoch = entry.Epoch
        /\ Apply(policies[p], entry).Frontier = frontier
    <3>1. \/ entry.Kind \in OpeningKinds /\ state = "ACTIVE" /\ frontier = entry.Frontier
          \/ entry.Kind = "DISABLE" /\ state = "DISABLED" /\ frontier = policies[p].Frontier
          \/ entry.Kind = "RETIRE" /\ state = "RETIRED" /\ frontier = policies[p].Frontier
      BY <1>1
    <3> QED
      BY <3>1 DEF Apply, OpeningKinds
  <2> QED
    BY <1>1, <2>1
<1>3. after[p] = d
  BY <1>2 DEF lifecycleNow, Statuses
<1>4. before = [q \in Policies |-> before[q]] /\ after = [q \in Policies |-> after[q]]
  BY DEF lifecycleNow, Statuses
<1>5. \A q \in Policies \ {p} : after[q] = before[q]
  BY <1>1 DEF lifecycleNow, Statuses
<1> HIDE DEF before, after, d
<1>6. after = [before EXCEPT ![p] = d]
  BY <1>3, <1>4, <1>5, ExceptAt
<1> QED
  BY <1>6 DEF before, after, d

LEMMA EnableAppendPromised ==
  ASSUME ServiceInv, NEW c \in Callers, EnableAppend(c)
  PROVE  Promised
<1> DEFINE p == req[c].PolicyID
           f == req[c].Frontier
           rec == policies[p]
           was == lifecycleNow[p]
           t == Opening(seen[c], f)
<1>1. /\ pc[c] = "append" /\ req[c].Call = "EnablePolicy"
      /\ AppendPolicyTransition(p, seen[c].Seq, t, FALSE)
      /\ UNCHANGED <<committed, facts>>
  BY DEF EnableAppend, At, historyVars
<1>2. /\ p \in Policies /\ seen[c] = rec /\ rec \in PolicyRecord
      /\ LegalNext(rec, Appends(c)) /\ rec.Seq \in Nat
  BY <1>1, AppendIsCurrent DEF AppendPolicyTransition, SeqIsCurrent
<1>3. Appends(c) = t
  BY <1>1 DEF Appends
<1>4. f \in Positions
  BY <1>1, CallKnown, RequestTyped DEF ServiceInv
<1>5. /\ t.Kind \in OpeningKinds /\ t.Epoch = rec.Epoch + 1 /\ t.Frontier = f
      /\ t \in PolicyTransition
  BY <1>2, <1>4 DEF Opening, PolicyTransition, PolicyRecord, OpeningKinds, StopKinds
<1>6. was.State = rec.State /\ was.Epoch = rec.Epoch /\ was.Frontier = rec.Frontier
  BY <1>2 DEF lifecycleNow, Statuses
<1>7. UNCHANGED <<intents, auto, ops>>
  BY <1>1 DEF AppendPolicyTransition, indexVars
<1> HIDE DEF t
<1>8. StoreTypeOK
  BY DEF ServiceInv, StoreHalf
<1>9. lifecycleNow' = [lifecycleNow EXCEPT ![p] =
        [State |-> "ACTIVE", Epoch |-> was.Epoch + 1, Frontier |-> f]]
  <2>1. lifecycleNow' = [lifecycleNow EXCEPT ![p] =
          [State |-> "ACTIVE", Epoch |-> t.Epoch, Frontier |-> f]]
    BY <1>1, <1>2, <1>5, <1>8, StatusAppended
  <2> QED
    BY <1>5, <1>6, <2>1
<1>10. \/ was.State = Nil
       \/ was.State = "DISABLED" /\ FrontierValid(f, was)
  BY <1>2, <1>3, <1>5, <1>6 DEF LegalNext, OpeningKinds, NoPolicy, FrontierValid
<1>11. automaticNow' = automaticNow /\ explicitNow' = explicitNow
  BY <1>1, <1>7 DEF automaticNow, explicitNow
<1>12. Promise!Open(p, f)
  BY <1>1, <1>9, <1>10, <1>11, IsOpen
<1> QED
  BY <1>2, <1>4, <1>12 DEF Promised, Promise!PromiseNext

LEMMA HeldDecision ==
  ASSUME NEW in \in IntentRecord, NEW f
  PROVE  DecisionOf([in EXCEPT !.Blockers["POLICY_DISABLE"] = "BLOCKED"], f)
           = [DecisionOf(in, f) EXCEPT !.Held = TRUE]
<1> DEFINE new == [in EXCEPT !.Blockers["POLICY_DISABLE"] = "BLOCKED"]
           held == new.Blockers["POLICY_DISABLE"] # "CLEAR"
<1>1. held = TRUE
  <2>1. new.Blockers["POLICY_DISABLE"] = "BLOCKED"
    BY PolicyDisableIsAnOwner DEF IntentRecord, Blockers
  <2> QED
    BY <2>1
<1>2. DecisionOf(new, f) = [DecisionOf(in, f) EXCEPT !.Held = held]
  <2> HIDE DEF held
  <2> QED
    BY DEF DecisionOf, IntentRecord, held
<1> HIDE DEF new, held
<1> QED
  BY <1>1, <1>2 DEF new

LEMMA AlreadyHeld ==
  ASSUME NEW in, NEW f, in.Blockers["POLICY_DISABLE"] = "BLOCKED"
  PROVE  [DecisionOf(in, f) EXCEPT !.Held = TRUE] = DecisionOf(in, f)
<1> DEFINE held == in.Blockers["POLICY_DISABLE"] # "CLEAR"
<1>1. held = TRUE
  OBVIOUS
<1>2. [DecisionOf(in, f) EXCEPT !.Held = held] = DecisionOf(in, f)
  <2> HIDE DEF held
  <2> QED
    BY DEF DecisionOf, held
<1> HIDE DEF held
<1> QED
  BY <1>1, <1>2

LEMMA StopHoldsDecisions ==
  ASSUME ServiceInv, NEW p \in Policies, UNCHANGED <<auto, ops, facts>>, intents' = WithHolds(p)
  PROVE  /\ automaticNow' = [k \in Domains |->
               IF k[1] = p /\ automaticNow[k] # Nil /\ automaticNow[k].RunID = Nil
                 THEN [automaticNow[k] EXCEPT !.Held = TRUE] ELSE automaticNow[k]]
         /\ explicitNow' = explicitNow
<1>1. StoreTypeOK /\ IndexesAgree
  BY DEF ServiceInv, StoreHalf
<1>2. ASSUME NEW id \in IDs, id \notin ToHold(p) PROVE intents'[id] = intents[id]
  BY <1>2 DEF WithHolds
<1>3. ASSUME NEW o \in OperationIDs, ops[o] # Nil PROVE intents'[ops[o]] = intents[ops[o]]
  <2>1. ops[o] \notin Members(p)
    BY <1>1, <1>3, RequestedFor, MembersExist DEF IsAutomatic
  <2> QED
    BY <1>2, <1>3, <2>1, RequestedFor DEF ToHold
<1>4. explicitNow' = explicitNow
  BY <1>3 DEF explicitNow, Decided
<1> DEFINE new(k) == IF k[1] = p /\ automaticNow[k] # Nil /\ automaticNow[k].RunID = Nil
                       THEN [automaticNow[k] EXCEPT !.Held = TRUE] ELSE automaticNow[k]
<1>5. ASSUME NEW k \in Domains PROVE automaticNow'[k] = new(k)
  <2>1. CASE auto[k] = Nil
    <3>1. automaticNow'[k] = Nil /\ automaticNow[k] = Nil
      BY <2>1 DEF automaticNow, Decisions
    <3> QED
      BY <3>1
  <2>2. CASE auto[k] # Nil
    <3> DEFINE id == auto[k]
               in == intents[id]
               f == facts[id]
    <3>1. /\ id \in IDs /\ IsAutomatic(id) /\ AutoKey(in) = k /\ in \in IntentRecord
      BY <2>2, DecidedOn
    <3>2. /\ automaticNow[k] # Nil /\ automaticNow[k] = DecisionOf(in, f)
          /\ automaticNow[k].RunID = in.RunID
      BY <2>2, DecisionNow DEF DecisionOf
    <3>3. automaticNow'[k] = DecisionOf(intents'[id], f)
      BY <2>2 DEF automaticNow, Decisions
    <3>4. id \in Members(p) <=> k[1] = p
      <4>1. ASSUME id \in Members(p) PROVE k[1] = p
        BY <1>1, <3>1, <4>1, MembersExist DEF AutoKey
      <4>2. ASSUME k[1] = p PROVE id \in Members(p)
        BY <3>1, <4>2 DEF Members, Domains
      <4> QED
        BY <4>1, <4>2
    <3>5. CASE id \in ToHold(p)
      <4> DEFINE held == [in EXCEPT !.Blockers["POLICY_DISABLE"] = "BLOCKED"]
      <4>1. intents'[id] = held
        BY <3>1, <3>5 DEF WithHolds
      <4>2. DecisionOf(held, f) = [DecisionOf(in, f) EXCEPT !.Held = TRUE]
        BY <3>1, HeldDecision
      <4>3. k[1] = p /\ in.RunID = Nil
        BY <3>4, <3>5 DEF ToHold
      <4> HIDE DEF held
      <4> QED
        BY <3>2, <3>3, <4>1, <4>2, <4>3
    <3>6. CASE id \notin ToHold(p)
      <4>1. intents'[id] = in
        BY <1>2, <3>1, <3>6
      <4>2. automaticNow'[k] = automaticNow[k]
        BY <3>2, <3>3, <4>1
      <4>3. ASSUME k[1] = p, in.RunID = Nil
            PROVE  [DecisionOf(in, f) EXCEPT !.Held = TRUE] = DecisionOf(in, f)
        <5>1. in.Blockers["POLICY_DISABLE"] = "BLOCKED"
          BY <3>4, <3>6, <4>3 DEF ToHold
        <5> QED
          BY <5>1, AlreadyHeld
      <4> QED
        BY <3>2, <4>2, <4>3
    <3> QED
      BY <3>5, <3>6
  <2> QED
    BY <2>1, <2>2
<1>6. automaticNow' = [k \in Domains |-> automaticNow'[k]]
  BY DEF automaticNow, Decisions
<1> QED
  BY <1>4, <1>5, <1>6

LEMMA StopAppendPromised ==
  ASSUME ServiceInv, NEW c \in Callers, StopAppend(c)
  PROVE  Promised
<1> DEFINE p == req[c].PolicyID
           rec == policies[p]
           was == lifecycleNow[p]
           target == Target(req[c].Call)
           t == Closing(req[c], seen[c])
<1>1. /\ pc[c] = "append" /\ req[c].Call \in StopCalls
      /\ AppendPolicyTransition(p, seen[c].Seq, t, TRUE)
      /\ UNCHANGED <<committed, facts>>
  BY DEF StopAppend, historyVars
<1>2. /\ p \in Policies /\ seen[c] = rec /\ rec \in PolicyRecord
      /\ LegalNext(rec, Appends(c)) /\ rec.Seq \in Nat
  BY <1>1, AppendIsCurrent DEF AppendPolicyTransition, SeqIsCurrent
<1>3. Appends(c) = t
  BY <1>1 DEF Appends, StopCalls
<1>4. /\ t.Kind = (IF target = "RETIRED" THEN "RETIRE" ELSE "DISABLE")
      /\ target \in {"DISABLED", "RETIRED"} /\ t.Epoch = rec.Epoch
      /\ t \in PolicyTransition
  BY <1>1, <1>2 DEF Closing, Target, StopCalls, PolicyTransition, PolicyRecord, OpeningKinds, StopKinds
<1>5. was = [State |-> rec.State, Epoch |-> rec.Epoch, Frontier |-> rec.Frontier]
  BY <1>2 DEF lifecycleNow, Statuses
<1>6. intents' = WithHolds(p) /\ UNCHANGED <<auto, ops>>
  BY <1>1 DEF AppendPolicyTransition, indexVars
<1> HIDE DEF t, target
<1>7. StoreTypeOK
  BY DEF ServiceInv, StoreHalf
<1>8. lifecycleNow' = [lifecycleNow EXCEPT ![p].State = target]
  <2> DEFINE d == [State |-> target, Epoch |-> t.Epoch, Frontier |-> was.Frontier]
  <2>1. lifecycleNow' = [lifecycleNow EXCEPT ![p] = d]
    <3>1. \/ t.Kind = "DISABLE" /\ target = "DISABLED" /\ was.Frontier = rec.Frontier
          \/ t.Kind = "RETIRE" /\ target = "RETIRED" /\ was.Frontier = rec.Frontier
      BY <1>4, <1>5
    <3> QED
      BY <1>1, <1>2, <1>4, <1>7, <3>1, StatusAppended
  <2>2. d = [was EXCEPT !.State = target]
    BY <1>4, <1>5
  <2> HIDE DEF d
  <2> QED
    BY <2>1, <2>2
<1>9. \/ was.State = "ACTIVE"
      \/ was.State = "DISABLED" /\ target = "RETIRED"
  BY <1>2, <1>3, <1>4, <1>5 DEF LegalNext
<1>10. /\ automaticNow' = [k \in Domains |->
            IF k[1] = p /\ automaticNow[k] # Nil /\ automaticNow[k].RunID = Nil
              THEN [automaticNow[k] EXCEPT !.Held = TRUE] ELSE automaticNow[k]]
       /\ explicitNow' = explicitNow
  BY <1>1, <1>2, <1>6, StopHoldsDecisions
<1>11. Promise!Stop(p, target)
  BY <1>1, <1>8, <1>9, <1>10, IsStop
<1> QED
  BY <1>2, <1>4, <1>11 DEF Promised, Promise!PromiseNext

LEMMA AcceptanceBlockPromised ==
  ASSUME ServiceInv, NEW c \in Callers, AcceptanceBlock(c)
  PROVE  Promised
<1>1. /\ pc[c] = "update" /\ req[c].Call = "RecordDisabledAcceptance"
      /\ UNCHANGED <<committed, facts>>
  BY DEF AcceptanceBlock, At, historyVars
<1>2. req[c].ID \in IDs
  BY <1>1, CallKnown, RequestTyped DEF ServiceInv
<1>3. CASE UpdateBlocker(req[c].ID, "POLICY_DISABLE", "BLOCKED")
  <2>1. "POLICY_DISABLE" \in BlockerOwners /\ "BLOCKED" \in BlockerStates
    BY PolicyDisableIsAnOwner DEF BlockerStates
  <2> QED
    BY <1>1, <1>2, <1>3, <2>1, BlockerPromised
<1>4. CASE UNCHANGED storeVars
  BY <1>1, <1>4, ReadsPromised DEF storeVars
<1> QED
  BY <1>3, <1>4 DEF AcceptanceBlock

LEMMA ReadPromised ==
  ASSUME Reads
  PROVE  Promised
BY ReadsPromised DEF Reads, storeVars, historyVars

LEMMA StepPromised == ServiceInv /\ [Next]_vars => [Promise!PromiseNext]_(Promise!promiseVars)
<1> SUFFICES ASSUME ServiceInv, [Next]_vars
             PROVE  Promised
  BY DEF Promised
<1>1. ASSUME NEW c \in Callers, NEW r \in Requests, Start(c, r)
      PROVE  Promised
  BY <1>1, ReadPromised DEF Start
<1>2. ASSUME NEW c \in Callers, Fail(c) \/ Finish(c)
      PROVE  Promised
  BY <1>2, ReadPromised DEF Fail, Finish
<1>3. ASSUME NEW c \in Callers, Advance(c)
      PROVE  Promised
  <2>1. CASE \/ AdmitLookup(c) \/ AdmitDecide(c) \/ RequireCommitted(c)
             \/ AdmitReplay(c) \/ AdmitStale(c) \/ \E id \in IDs : DuplicateID(c, id)
    <3>1. Reads
      BY <2>1 DEF AdmitLookup, AdmitDecide, RequireCommitted, AdmitReplay, AdmitStale, DuplicateID
    <3> QED
      BY <3>1, ReadPromised
  <2>2. CASE \/ ExplicitLookup(c) \/ ExplicitLostRace(c) \/ EnableRead(c) \/ StopRead(c)
             \/ AppendStale(c) \/ AcceptanceGet(c)
    <3>1. Reads
      BY <2>2 DEF ExplicitLookup, ExplicitLostRace, EnableRead, StopRead, AppendStale, AcceptanceGet
    <3> QED
      BY <3>1, ReadPromised
  <2>3. CASE \E id \in IDs : AdmitCreate(c, id)
    BY <2>3, AdmitCreatePromised
  <2>4. CASE \E id \in IDs : ExplicitCreate(c, id)
    BY <2>4, ExplicitCreatePromised
  <2>5. CASE EnableAppend(c) \/ StopAppend(c) \/ AcceptanceBlock(c)
    BY <2>5, EnableAppendPromised, StopAppendPromised, AcceptanceBlockPromised
  <2> QED
    BY <1>3, <2>1, <2>2, <2>3, <2>4, <2>5 DEF Advance
<1>4. ASSUME NEW id \in IDs, NEW run \in RunIDs, ServiceAttachRunID(id, run)
      PROVE  Promised
  BY <1>4, AttachPromised
<1>5. ASSUME NEW id \in IDs, NEW u \in BlockerUpdates, ServiceUpdateBlocker(id, u.Owner, u.State)
      PROVE  Promised
  <2>1. u.Owner \in BlockerOwners /\ u.State \in BlockerStates
    BY ServiceConstants
  <2> QED
    BY <1>5, <2>1, BlockerPromised DEF ServiceUpdateBlocker
<1>6. ASSUME NEW rev \in PipelineRevisions, CommitRevision(rev)
      PROVE  Promised
  BY <1>6, CommitPromised
<1>7. CASE UNCHANGED vars
  <2>1. Reads
    BY <1>7 DEF vars, Reads
  <2> QED
    BY <2>1, ReadPromised
<1> QED
  BY <1>1, <1>2, <1>3, <1>4, <1>5, <1>6, <1>7 DEF Next

LEMMA InitPromised == Init => Promise!PromiseInit
<1> SUFFICES ASSUME Init PROVE Promise!PromiseInit
  OBVIOUS
<1>1. /\ \A k \in Domains : auto[k] = Nil
      /\ \A o \in OperationIDs : ops[o] = Nil
      /\ \A p \in Policies : policies[p] = NoPolicy
      /\ committed \subseteq PipelineRevisions
  BY ServiceConstants DEF Init, StoreInit, Domains
<1>2. /\ automaticNow = [k \in Domains |-> Nil]
      /\ explicitNow = [o \in OperationIDs |-> Nil]
  BY <1>1 DEF automaticNow, explicitNow, Decisions, Decided
<1>3. lifecycleNow = [p \in Policies |-> [State |-> Nil, Epoch |-> 0, Frontier |-> Nil]]
  BY <1>1 DEF lifecycleNow, Statuses, NoPolicy
<1> QED
  BY <1>1, <1>2, <1>3, Mapped DEF Promise!PromiseInit, Domains

(* The service keeps its promise: every behaviour of its concurrent calls is
   one of IntentPromise, in which each call takes effect in one step.  So an
   admission is what the policy's record allows at the moment it is
   recorded, although AdmitAutomatic decides on a record read before; a
   domain and an OperationID are decided once for ever; a RunID is attached
   once, to one decision; and a stop places its holds in the same step.    *)
THEOREM ServiceImplementsPromise == Spec => ImplementsPromise
  BY InitPromised, StepPromised, ServiceKeepsInv, PTL
     DEF Spec, ImplementsPromise, Promise!PromiseSpec
====
