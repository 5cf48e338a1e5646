------------------------- MODULE IntentServiceProofs -------------------------
(***************************************************************************)
(* What the Service keeps under any number of callers, policies and log    *)
(* entries, and whatever they interleave.  The invariant has two halves:   *)
(* StoreHalf says how the store, the logs and the history agree, and       *)
(* CallInv(c) what the store calls that c has made let it rely on later.   *)
(* Another caller's step disturbs a CallInv only by growing the store      *)
(* (Grows).                                                                *)
(***************************************************************************)
EXTENDS IntentService, IntentStoreProofs

PolicyCalls == {"EnablePolicy", "DisablePolicy", "RetirePolicy"}
OfPolicy(r) == r.Call \in PolicyCalls \cup {"AdmitAutomatic"}

(***************************************************************************)
(* The store and its history.                                              *)
(***************************************************************************)
LastOf(log) == log[Len(log)]

(* The record of a log, without the fold: its last entry decides it, but for
   the frontier, which is at or after every earlier one.                   *)
RecordOf(log, rec) ==
  /\ rec.Seq = Len(log)
  /\ log = <<>> => rec = NoPolicy
  /\ log # <<>> =>
       /\ rec.Epoch = LastOf(log).Epoch
       /\ IsOpening(LastOf(log)) =>
            rec.State = "ACTIVE" /\ rec.Frontier = LastOf(log).Frontier
       /\ LastOf(log).Kind = "DISABLE" => rec.State = "DISABLED"
       /\ LastOf(log).Kind = "RETIRE" => rec.State = "RETIRED"
  /\ \A i \in 1..Len(log) :
       /\ log[i].Epoch <= rec.Epoch
       /\ IsOpening(log[i]) =>
            log[i].Frontier \in Positions /\ FrontierValid(rec.Frontier, log[i])

(* An epoch is opened once. *)
EpochsGrow(log) ==
  \A i, j \in 1..Len(log) : i < j /\ IsOpening(log[j]) => log[i].Epoch < log[j].Epoch

PoliciesRecorded ==
  \A p \in Policies : RecordOf(policyLogs[p], policies[p]) /\ EpochsGrow(policyLogs[p])

AutomaticHasPolicy == \A id \in IDs : IsAutomatic(id) => intents[id].PolicyID \in Policies

AttachedInLog ==
  \A id \in IDs : IsAutomatic(id) /\ intents[id].RunID # Nil =>
    attachedAt[id] \in Nat /\ attachedAt[id] <= Len(policyLogs[intents[id].PolicyID])

HistoryTypeOK ==
  /\ committed \subseteq PipelineRevisions
  /\ facts \in [IDs -> Facts \cup {Nil}]
  /\ admittedAt \in [IDs -> Nat \cup {Nil}]
  /\ attachedAt \in [IDs -> Nat \cup {Nil}]
  /\ releasedAt \in [IDs -> Nat \cup {Nil}]

StoreHalf ==
  /\ StoreTypeOK /\ HistoryTypeOK
  /\ IndexesAgree /\ AutomaticHasPolicy
  /\ OnCommittedRevisions
  /\ PoliciesRecorded /\ LifecycleLegal
  /\ AdmittedAfterFrontier
  /\ AttachedInLog /\ HeldUntilReleased

(***************************************************************************)
(* A call.                                                                 *)
(***************************************************************************)
CallTypeOK ==
  /\ pc \in [Callers -> {"idle", "lookup", "policy", "revision", "create",
                         "append", "get", "update", "done"}]
  /\ req \in [Callers -> Requests \cup {Nil}]
  /\ seen \in [Callers -> PolicyRecord]
  /\ tries \in [Callers -> 0..(MaxPolicyRetries - 1)]
  /\ reply = [c \in Callers |-> reply[c]]
  /\ startedAt \in [Callers -> Nat]

CallMatches(c) ==
  /\ pc[c] # "idle" => req[c] \in Requests
  /\ pc[c] \in {"lookup", "revision", "create"} =>
       req[c].Call \in {"AdmitAutomatic", "CreateExplicit"}
  /\ pc[c] = "policy" => OfPolicy(req[c])
  /\ pc[c] = "append" => req[c].Call \in PolicyCalls
  /\ pc[c] \in {"get", "update"} => req[c].Call = "RecordDisabledAcceptance"
  /\ pc[c] \notin {"policy", "create", "append"} => tries[c] = 0

RevisionRead(c) ==
  pc[c] = "create" \/ (pc[c] = "policy" /\ tries[c] # 0 /\ req[c].Call = "AdmitAutomatic")
    => req[c].PipelineRevision \in committed

(* Every stale write of this call is another caller's transition, and the
   record it goes on with is the policy's for as long as the log has the
   length it had then.                                                     *)
SeenInLog(c) ==
  LET p == req[c].PolicyID IN
  /\ pc[c] \in {"lookup", "policy"} /\ OfPolicy(req[c]) =>
       startedAt[c] + tries[c] <= Len(policyLogs[p])
  /\ pc[c] \in {"revision", "create", "append"} /\ OfPolicy(req[c]) =>
       /\ startedAt[c] + tries[c] <= seen[c].Seq
       /\ seen[c].Seq <= Len(policyLogs[p])
       /\ seen[c].Seq = Len(policyLogs[p]) => seen[c] = policies[p]
  /\ pc[c] = "done" /\ reply[c].Outcome = "POLICY_STALE" =>
       OfPolicy(req[c]) /\ startedAt[c] + MaxPolicyRetries <= Len(policyLogs[p])

(* A publication that passed the gate did so in an epoch the log has opened. *)
PassedGate(c) ==
  pc[c] \in {"revision", "create"} /\ req[c].Call = "AdmitAutomatic" =>
    LET log == policyLogs[req[c].PolicyID] IN
    /\ seen[c].Seq # 0 /\ seen[c].State = "ACTIVE"
    /\ req[c].Facts.Class = "NEW" /\ After(req[c].Facts.Position, seen[c].Frontier)
    /\ \E i \in 1..Len(log) :
         IsOpening(log[i]) /\ log[i].Epoch = seen[c].Epoch /\ log[i].Frontier = seen[c].Frontier

(* A transition that a log with this record can take. *)
LegalNext(rec, t) ==
  \/ t.Kind = "ACTIVATE" /\ rec = NoPolicy /\ t.Epoch = 1 /\ t.Frontier \in Positions
  \/ /\ t.Kind = "REENABLE" /\ rec.Seq # 0 /\ rec.State = "DISABLED"
     /\ t.Epoch = rec.Epoch + 1
     /\ t.Frontier \in Positions /\ FrontierValid(t.Frontier, rec)
  \/ t.Kind = "DISABLE" /\ rec.Seq # 0 /\ rec.State = "ACTIVE" /\ t.Epoch = rec.Epoch
  \/ /\ t.Kind = "RETIRE" /\ rec.Seq # 0 /\ rec.State \in {"ACTIVE", "DISABLED"}
     /\ t.Epoch = rec.Epoch

Appends(c) ==
  IF req[c].Call = "EnablePolicy" THEN Opening(seen[c], req[c].Frontier)
  ELSE Closing(req[c], seen[c])

AppendsLegally(c) == pc[c] = "append" => LegalNext(seen[c], Appends(c))

(* The answer a to a CreateExplicit r, in the ledger o and the intents ins. *)
Matches(r, a, o, ins) ==
  LET id == o[r.OperationID]
      same == id # Nil /\ SameExplicitSemantics(ins[id], DraftOf(r))
  IN  /\ a.Outcome \in {"CREATED", "CONVERGED"} => same
      /\ a.Outcome = "OPERATION_CONFLICT" => id # Nil /\ ~same

ExplicitAnswerMatches(c) ==
  Returned(c, "CreateExplicit") => Matches(req[c], reply[c], ops, intents)

CallInv(c) ==
  /\ CallMatches(c) /\ RevisionRead(c) /\ SeenInLog(c) /\ PassedGate(c)
  /\ AppendsLegally(c) /\ ExplicitAnswerMatches(c)

CallsInv == \A c \in Callers : CallInv(c)

ServiceInv == StoreHalf /\ CallTypeOK /\ CallsInv

(* What a step of the store never takes back. *)
LogsGrow ==
  \A p \in Policies :
    /\ Len(policyLogs[p]) <= Len(policyLogs'[p])
    /\ \A i \in 1..Len(policyLogs[p]) : policyLogs'[p][i] = policyLogs[p][i]
    /\ Len(policyLogs'[p]) = Len(policyLogs[p]) => policies'[p] = policies[p]

Grows ==
  /\ committed \subseteq committed'
  /\ LogsGrow
  /\ \A o \in OperationIDs : ops[o] # Nil =>
       LET was == intents[ops[o]]
           is == intents'[ops[o]]
       IN  /\ ops'[o] = ops[o]
           /\ is.Origin = was.Origin /\ is.Subject = was.Subject
           /\ is.PipelineRevision = was.PipelineRevision

(***************************************************************************)
(* What a request is.                                                      *)
(***************************************************************************)
LEMMA RequestTyped ==
  ASSUME NEW r \in Requests
  PROVE  /\ r.Call \in PolicyCalls \cup {"AdmitAutomatic", "CreateExplicit", "RecordDisabledAcceptance"}
         /\ OfPolicy(r) => r.PolicyID \in Policies /\ "PolicyID" \in DOMAIN r
         /\ r.Call = "EnablePolicy" => r.Frontier \in Positions
         /\ r.Call \in {"AdmitAutomatic", "CreateExplicit"} =>
              r.Subject \in Subjects /\ r.PipelineRevision \in PipelineRevisions
         /\ r.Call = "AdmitAutomatic" => r.PolicyRevision \in PolicyRevisions /\ r.Facts \in Facts
         /\ r.Call = "CreateExplicit" => r.OperationID \in OperationIDs
         /\ r.Call = "RecordDisabledAcceptance" => r.ID \in IDs
<1>1. r \in AllRequests
  BY ServiceConstants
<1> QED
  BY <1>1 DEF AllRequests, OfPolicy, PolicyCalls

LEMMA LenTyped ==
  ASSUME StoreTypeOK, NEW p \in Policies
  PROVE  /\ policyLogs[p] \in Seq(PolicyTransition) /\ Len(policyLogs[p]) \in Nat
         /\ policies[p] \in PolicyRecord
  BY DEF StoreTypeOK

(***************************************************************************)
(* Steps that leave the store alone, and calls that a step leaves alone.   *)
(***************************************************************************)
LEMMA ReadsGrow == ASSUME StoreTypeOK, Reads PROVE Grows
<1>1. ASSUME NEW p \in Policies PROVE Len(policyLogs[p]) <= Len(policyLogs[p])
  BY LenTyped
<1> QED
  BY <1>1 DEF Grows, LogsGrow, Reads, storeVars, historyVars

LEMMA ReadsKeepStore == ASSUME StoreHalf, Reads PROVE StoreHalf'
<1>1. UNCHANGED <<intents, auto, ops, runs, policyLogs, policies, committed, facts,
                  admittedAt, attachedAt, releasedAt>>
  BY DEF Reads, storeVars, historyVars
<1>2. StoreTypeOK' /\ HistoryTypeOK'
  BY <1>1 DEF StoreHalf, StoreTypeOK, HistoryTypeOK
<1>3. IndexesAgree' /\ AutomaticHasPolicy' /\ OnCommittedRevisions'
  BY <1>1 DEF StoreHalf, IndexesAgree, AutoIndexAgrees, LedgerAgrees, RunIndexAgrees,
     AutomaticHasPolicy, OnCommittedRevisions, IsAutomatic, Exists
<1>4. PoliciesRecorded' /\ LifecycleLegal'
  BY <1>1 DEF StoreHalf, PoliciesRecorded, LifecycleLegal
<1>5. AdmittedAfterFrontier'
  BY <1>1 DEF StoreHalf, AdmittedAfterFrontier, IsAutomatic, Exists
<1>6. AttachedInLog' /\ HeldUntilReleased'
  BY <1>1 DEF StoreHalf, AttachedInLog, HeldUntilReleased, IsAutomatic, Exists
<1> QED
  BY <1>2, <1>3, <1>4, <1>5, <1>6 DEF StoreHalf

(* A caller's own variables. *)
Rests(d) ==
  /\ pc'[d] = pc[d] /\ req'[d] = req[d] /\ seen'[d] = seen[d] /\ tries'[d] = tries[d]
  /\ reply'[d] = reply[d] /\ startedAt'[d] = startedAt[d]

OthersRest(c) == \A d \in Callers \ {c} : Rests(d)

LEMMA MatchesGrows ==
  ASSUME Grows, NEW r, r.OperationID \in OperationIDs, NEW a, Matches(r, a, ops, intents)
  PROVE  Matches(r, a, ops', intents')
  BY DEF Matches, Grows, SameExplicitSemantics

LEMMA RestKeeps ==
  ASSUME StoreTypeOK, StoreTypeOK', CallTypeOK, Grows, NEW d \in Callers, CallInv(d), Rests(d)
  PROVE  CallInv(d)'
<1>1. CallMatches(d)'
  BY DEF CallInv, CallMatches, Rests, OfPolicy
<1>2. RevisionRead(d)'
  BY DEF CallInv, RevisionRead, Rests, Grows
<1>3. SeenInLog(d)'
  <2>1. pc[d] # "idle" => req[d] \in Requests
    BY DEF CallInv, CallMatches
  <2>2. CASE pc[d] # "idle" /\ OfPolicy(req[d])
    <3> DEFINE p == req[d].PolicyID
    <3>1. p \in Policies
      BY <2>1, <2>2, RequestTyped
    <3>2. /\ Len(policyLogs[p]) \in Nat /\ Len(policyLogs'[p]) \in Nat
          /\ Len(policyLogs[p]) <= Len(policyLogs'[p])
          /\ Len(policyLogs'[p]) = Len(policyLogs[p]) => policies'[p] = policies[p]
      BY <3>1 DEF Grows, LogsGrow, StoreTypeOK
    <3>3. seen[d].Seq \in Nat /\ startedAt[d] \in Nat /\ tries[d] \in Nat /\ MaxPolicyRetries \in Nat
      BY ServiceConstants DEF CallTypeOK, PolicyRecord
    <3>4. SeenInLog(d)
      BY DEF CallInv
    <3>5. /\ UNCHANGED <<pc[d], req[d], seen[d], tries[d], reply[d], startedAt[d]>>
          /\ OfPolicy(req[d])' = OfPolicy(req[d])
      BY DEF Rests, OfPolicy
    <3>6. p' = p
      BY <3>5
    <3>7. ASSUME pc[d] \in {"lookup", "policy"}
          PROVE  startedAt[d] + tries[d] <= Len(policyLogs'[p])
      <4>1. startedAt[d] + tries[d] <= Len(policyLogs[p])
        BY <2>2, <3>4, <3>7 DEF SeenInLog
      <4> QED
        BY ONLY <4>1, <3>2, <3>3
    <3>8. ASSUME pc[d] \in {"revision", "create", "append"}
          PROVE  /\ startedAt[d] + tries[d] <= seen[d].Seq
                 /\ seen[d].Seq <= Len(policyLogs'[p])
                 /\ seen[d].Seq = Len(policyLogs'[p]) => seen[d] = policies'[p]
      <4>1. /\ startedAt[d] + tries[d] <= seen[d].Seq
            /\ seen[d].Seq <= Len(policyLogs[p])
            /\ seen[d].Seq = Len(policyLogs[p]) => seen[d] = policies[p]
        BY <2>2, <3>4, <3>8 DEF SeenInLog
      <4>2. seen[d].Seq = Len(policyLogs'[p]) => Len(policyLogs'[p]) = Len(policyLogs[p])
        BY ONLY <4>1, <3>2, <3>3
      <4> QED
        BY <4>1, <4>2, <3>2, <3>3
    <3>9. ASSUME pc[d] = "done", reply[d].Outcome = "POLICY_STALE"
          PROVE  startedAt[d] + MaxPolicyRetries <= Len(policyLogs'[p])
      <4>1. startedAt[d] + MaxPolicyRetries <= Len(policyLogs[p])
        BY <2>2, <3>4, <3>9 DEF SeenInLog
      <4> QED
        BY ONLY <4>1, <3>2, <3>3
    <3> HIDE DEF p
    <3> QED
      BY <2>2, <3>5, <3>6, <3>7, <3>8, <3>9 DEF SeenInLog, p
  <2>3. CASE pc[d] = "idle" \/ ~OfPolicy(req[d])
    BY <2>3 DEF CallInv, SeenInLog, Rests, OfPolicy
  <2> QED
    BY <2>2, <2>3
<1>4. PassedGate(d)'
  <2> SUFFICES ASSUME pc[d] \in {"revision", "create"}, req[d].Call = "AdmitAutomatic"
               PROVE  PassedGate(d)'
    BY DEF PassedGate, Rests
  <2>1. req[d].PolicyID \in Policies
    BY RequestTyped DEF CallInv, CallMatches, OfPolicy
  <2>2. /\ Len(policyLogs[req[d].PolicyID]) \in Nat /\ Len(policyLogs'[req[d].PolicyID]) \in Nat
        /\ Len(policyLogs[req[d].PolicyID]) <= Len(policyLogs'[req[d].PolicyID])
        /\ \A i \in 1..Len(policyLogs[req[d].PolicyID]) :
             policyLogs'[req[d].PolicyID][i] = policyLogs[req[d].PolicyID][i]
    BY <2>1 DEF Grows, LogsGrow, StoreTypeOK
  <2>3. PassedGate(d)
    BY DEF CallInv
  <2>4. PICK i \in 1..Len(policyLogs[req[d].PolicyID]) :
          /\ IsOpening(policyLogs[req[d].PolicyID][i])
          /\ policyLogs[req[d].PolicyID][i].Epoch = seen[d].Epoch
          /\ policyLogs[req[d].PolicyID][i].Frontier = seen[d].Frontier
    BY <2>3 DEF PassedGate
  <2>5. /\ i \in 1..Len(policyLogs'[req[d].PolicyID])
        /\ policyLogs'[req[d].PolicyID][i] = policyLogs[req[d].PolicyID][i]
    BY <2>2
  <2> QED
    BY <2>3, <2>4, <2>5 DEF PassedGate, Rests
<1>5. AppendsLegally(d)'
  BY DEF CallInv, AppendsLegally, Appends, Rests, LegalNext, Opening, Closing
<1>6. ExplicitAnswerMatches(d)'
  <2> SUFFICES ASSUME Returned(d, "CreateExplicit")
               PROVE  Matches(req[d], reply[d], ops', intents')
    BY DEF ExplicitAnswerMatches, Rests, Returned
  <2>1. req[d].OperationID \in OperationIDs
    BY RequestTyped DEF CallInv, CallMatches, Returned
  <2> QED
    BY <2>1, MatchesGrows DEF CallInv, ExplicitAnswerMatches
<1> QED
  BY <1>1, <1>2, <1>3, <1>4, <1>5, <1>6 DEF CallInv

LEMMA OthersKeep ==
  ASSUME StoreTypeOK, StoreTypeOK', CallTypeOK, CallsInv, Grows, NEW c \in Callers,
         OthersRest(c), CallInv(c)'
  PROVE  CallsInv'
<1>1. ASSUME NEW d \in Callers \ {c} PROVE CallInv(d)'
  BY RestKeeps DEF CallsInv, OthersRest
<1> QED
  BY <1>1 DEF CallsInv

LEMMA AllRest ==
  ASSUME StoreTypeOK, StoreTypeOK', CallTypeOK, CallsInv, Grows, UNCHANGED callVars
  PROVE  CallTypeOK' /\ CallsInv'
<1>1. CallTypeOK'
  BY DEF CallTypeOK, callVars
<1>2. ASSUME NEW d \in Callers PROVE CallInv(d)'
  BY RestKeeps DEF CallsInv, Rests, callVars
<1> QED
  BY <1>1, <1>2 DEF CallsInv

(***************************************************************************)
(* The three ways a call goes on.                                          *)
(***************************************************************************)
Places == {"idle", "lookup", "policy", "revision", "create", "append", "get", "update", "done"}

LEMMA ReturnDoes ==
  ASSUME CallTypeOK, NEW c \in Callers, NEW a, Return(c, a)
  PROVE  /\ CallTypeOK' /\ OthersRest(c)
         /\ pc'[c] = "done" /\ reply'[c] = a /\ tries'[c] = 0
         /\ req'[c] = req[c] /\ startedAt'[c] = startedAt[c]
<1>1. NoPolicy \in PolicyRecord /\ 0 \in 0..(MaxPolicyRetries - 1)
  BY ServiceConstants DEF NoPolicy, PolicyRecord
<1>2. reply' = [d \in Callers |-> IF d = c THEN a ELSE reply[d]]
  BY DEF CallTypeOK, Return
<1>3. CallTypeOK'
  BY <1>1, <1>2 DEF CallTypeOK, Return
<1> QED
  BY <1>2, <1>3 DEF CallTypeOK, Return, OthersRest, Rests

LEMMA GotoDoes ==
  ASSUME CallTypeOK, NEW c \in Callers, NEW next \in Places, Goto(c, next)
  PROVE  /\ CallTypeOK' /\ OthersRest(c) /\ pc'[c] = next
         /\ req'[c] = req[c] /\ seen'[c] = seen[c] /\ tries'[c] = tries[c]
         /\ reply'[c] = reply[c] /\ startedAt'[c] = startedAt[c]
<1>1. CallTypeOK'
  BY DEF CallTypeOK, Goto, Places
<1> QED
  BY <1>1 DEF CallTypeOK, Goto, OthersRest, Rests

LEMMA GotoWithDoes ==
  ASSUME CallTypeOK, NEW c \in Callers, NEW rec \in PolicyRecord, NEW next \in Places,
         GotoWith(c, rec, next)
  PROVE  /\ CallTypeOK' /\ OthersRest(c) /\ pc'[c] = next /\ seen'[c] = rec
         /\ req'[c] = req[c] /\ tries'[c] = tries[c]
         /\ reply'[c] = reply[c] /\ startedAt'[c] = startedAt[c]
<1>1. CallTypeOK'
  BY DEF CallTypeOK, GotoWith, Places
<1> QED
  BY <1>1 DEF CallTypeOK, GotoWith, OthersRest, Rests

(* A call may answer anything that its request and the store bear out. *)
LEMMA ReturnKeeps ==
  ASSUME StoreTypeOK, StoreTypeOK', CallTypeOK, CallsInv, Grows,
         NEW c \in Callers, NEW a, Return(c, a), pc[c] # "idle",
         a.Outcome # "POLICY_STALE",
         req[c].Call = "CreateExplicit" => Matches(req[c], a, ops', intents')
  PROVE  CallTypeOK' /\ CallsInv'
<1>1. /\ CallTypeOK' /\ OthersRest(c)
      /\ pc'[c] = "done" /\ reply'[c] = a /\ tries'[c] = 0
      /\ req'[c] = req[c] /\ startedAt'[c] = startedAt[c]
  BY ReturnDoes
<1>2. req[c] \in Requests
  BY DEF CallsInv, CallInv, CallMatches
<1>3. CallMatches(c)' /\ RevisionRead(c)' /\ SeenInLog(c)'
  BY <1>1, <1>2 DEF CallMatches, RevisionRead, SeenInLog
<1>4. PassedGate(c)' /\ AppendsLegally(c)' /\ ExplicitAnswerMatches(c)'
  BY <1>1 DEF PassedGate, AppendsLegally, ExplicitAnswerMatches, Returned
<1> QED
  BY <1>1, <1>3, <1>4, OthersKeep DEF CallInv

(* A stale write: the log has grown since the record was read. *)
LEMMA RetryKeeps ==
  ASSUME StoreTypeOK, StoreTypeOK', CallTypeOK, CallsInv, Grows, UNCHANGED policyLogs,
         committed' = committed,
         NEW c \in Callers, Retry(c), pc[c] \in {"create", "append"}, OfPolicy(req[c]),
         Len(policyLogs[req[c].PolicyID]) # seen[c].Seq
  PROVE  CallTypeOK' /\ CallsInv'
<1> DEFINE n == Len(policyLogs[req[c].PolicyID])
<1>1. req[c] \in Requests /\ req[c].PolicyID \in Policies
  BY RequestTyped DEF CallsInv, CallInv, CallMatches
<1>2. n \in Nat /\ seen[c].Seq \in Nat /\ startedAt[c] \in Nat
      /\ tries[c] \in 0..(MaxPolicyRetries - 1) /\ MaxPolicyRetries \in Nat \ {0}
  BY <1>1, LenTyped, ServiceConstants DEF CallTypeOK, PolicyRecord
<1>3. startedAt[c] + tries[c] <= seen[c].Seq /\ seen[c].Seq <= n
  BY DEF CallsInv, CallInv, SeenInLog
<1>4. startedAt[c] + (tries[c] + 1) <= n
  BY <1>2, <1>3
<1>5. CASE tries[c] + 1 < MaxPolicyRetries
  <2>1. /\ pc' = [pc EXCEPT ![c] = "policy"] /\ tries' = [tries EXCEPT ![c] = @ + 1]
        /\ UNCHANGED <<req, seen, reply, startedAt>>
    BY <1>5 DEF Retry
  <2>2. CallTypeOK' /\ OthersRest(c)
    BY <1>2, <1>5, <2>1 DEF CallTypeOK, OthersRest, Rests
  <2>3. /\ pc'[c] = "policy" /\ tries'[c] = tries[c] + 1 /\ req'[c] = req[c]
        /\ startedAt'[c] = startedAt[c]
    BY <2>1 DEF CallTypeOK
  <2>4. CallMatches(c)' /\ SeenInLog(c)'
    BY <1>1, <1>4, <2>3 DEF CallMatches, SeenInLog, OfPolicy
  <2>5. RevisionRead(c)'
    <3>1. pc[c] = "append" => req[c].Call # "AdmitAutomatic"
      BY DEF CallsInv, CallInv, CallMatches, PolicyCalls
    <3> QED
      BY <2>3, <3>1 DEF CallsInv, CallInv, RevisionRead
  <2>6. PassedGate(c)' /\ AppendsLegally(c)' /\ ExplicitAnswerMatches(c)'
    BY <2>3 DEF PassedGate, AppendsLegally, ExplicitAnswerMatches, Returned
  <2> QED
    BY <2>2, <2>4, <2>5, <2>6, OthersKeep DEF CallInv
<1>6. CASE ~(tries[c] + 1 < MaxPolicyRetries)
  <2>1. Return(c, Answer("POLICY_STALE"))
    BY <1>6 DEF Retry
  <2>2. /\ CallTypeOK' /\ OthersRest(c)
        /\ pc'[c] = "done" /\ tries'[c] = 0
        /\ req'[c] = req[c] /\ startedAt'[c] = startedAt[c]
    BY <2>1, ReturnDoes
  <2>3. tries[c] + 1 = MaxPolicyRetries
    BY <1>2, <1>6
  <2>4. CallMatches(c)' /\ RevisionRead(c)' /\ SeenInLog(c)'
    BY <1>1, <1>4, <2>2, <2>3 DEF CallMatches, RevisionRead, SeenInLog
  <2>5. PassedGate(c)' /\ AppendsLegally(c)' /\ ExplicitAnswerMatches(c)'
    BY <2>2 DEF PassedGate, AppendsLegally, ExplicitAnswerMatches, Returned, OfPolicy, PolicyCalls
  <2> QED
    BY <2>2, <2>4, <2>5, OthersKeep DEF CallInv
<1> QED
  BY <1>5, <1>6

(***************************************************************************)
(* The steps of a call that only read.                                     *)
(***************************************************************************)
LEMMA StartKeeps ==
  ASSUME StoreTypeOK, StoreTypeOK', CallTypeOK, CallsInv, Grows,
         NEW c \in Callers, NEW r \in Requests, Start(c, r)
  PROVE  CallTypeOK' /\ CallsInv'
<1>1. /\ pc[c] = "idle" /\ tries[c] = 0
      /\ pc' = [pc EXCEPT ![c] = Entry(r.Call)] /\ req' = [req EXCEPT ![c] = r]
      /\ startedAt' = [startedAt EXCEPT
           ![c] = IF "PolicyID" \in DOMAIN r THEN Len(policyLogs[r.PolicyID]) ELSE 0]
      /\ UNCHANGED <<seen, tries, reply, policyLogs>>
  BY DEF Start, Reads, storeVars, CallsInv, CallInv, CallMatches
<1>2. /\ r.Call \in PolicyCalls \cup {"AdmitAutomatic", "CreateExplicit", "RecordDisabledAcceptance"}
      /\ OfPolicy(r) => r.PolicyID \in Policies /\ "PolicyID" \in DOMAIN r
      /\ "PolicyID" \in DOMAIN r => r.PolicyID \in Policies
  BY RequestTyped, ServiceConstants DEF AllRequests, OfPolicy, PolicyCalls
<1>3. Entry(r.Call) \in Places /\ startedAt' \in [Callers -> Nat]
  BY <1>1, <1>2, LenTyped DEF Entry, PolicyCalls, Places, CallTypeOK
<1>4. CallTypeOK' /\ OthersRest(c)
  BY <1>1, <1>3 DEF CallTypeOK, OthersRest, Rests, Places
<1>5. /\ pc'[c] = Entry(r.Call) /\ req'[c] = r /\ tries'[c] = 0
      /\ OfPolicy(r) => startedAt'[c] = Len(policyLogs[r.PolicyID])
  BY <1>1, <1>2 DEF CallTypeOK
<1>6. /\ r.Call \in {"AdmitAutomatic", "CreateExplicit"} => pc'[c] = "lookup"
      /\ r.Call \in PolicyCalls => pc'[c] = "policy"
      /\ r.Call = "RecordDisabledAcceptance" => pc'[c] = "get"
  BY <1>5 DEF Entry, PolicyCalls
<1>7. CallMatches(c)' /\ RevisionRead(c)'
  BY <1>2, <1>5, <1>6 DEF CallMatches, RevisionRead, OfPolicy, PolicyCalls
<1>8. SeenInLog(c)'
  <2>1. OfPolicy(r) => Len(policyLogs[r.PolicyID]) \in Nat
    BY <1>2, LenTyped
  <2> QED
    BY <1>1, <1>2, <1>5, <1>6, <2>1 DEF SeenInLog, OfPolicy
<1>9. PassedGate(c)' /\ AppendsLegally(c)' /\ ExplicitAnswerMatches(c)'
  BY <1>2, <1>6 DEF PassedGate, AppendsLegally, ExplicitAnswerMatches, Returned
<1> QED
  BY <1>4, <1>7, <1>8, <1>9, OthersKeep DEF CallInv

LEMMA FinishKeeps ==
  ASSUME StoreTypeOK, StoreTypeOK', CallTypeOK, CallsInv, Grows, NEW c \in Callers, Finish(c)
  PROVE  CallTypeOK' /\ CallsInv'
<1>1. /\ tries[c] = 0 /\ pc' = [pc EXCEPT ![c] = "idle"] /\ req' = [req EXCEPT ![c] = Nil]
      /\ reply' = [reply EXCEPT ![c] = Nil] /\ startedAt' = [startedAt EXCEPT ![c] = 0]
      /\ UNCHANGED <<seen, tries>>
  BY DEF Finish, CallsInv, CallInv, CallMatches
<1>2. reply' = [d \in Callers |-> IF d = c THEN Nil ELSE reply[d]]
  BY <1>1 DEF CallTypeOK
<1>3. CallTypeOK' /\ OthersRest(c)
  BY <1>1, <1>2 DEF CallTypeOK, OthersRest, Rests
<1>4. pc'[c] = "idle" /\ tries'[c] = 0
  BY <1>1 DEF CallTypeOK
<1>5. CallInv(c)'
  BY <1>4 DEF CallInv, CallMatches, RevisionRead, SeenInLog, PassedGate, AppendsLegally,
     ExplicitAnswerMatches, Returned
<1> QED
  BY <1>3, <1>5, OthersKeep

(* What an answer with no claim about an intent needs. *)
LEMMA NoClaim ==
  ASSUME NEW r, NEW a, NEW o, NEW ins,
         a.Outcome \notin {"CREATED", "CONVERGED", "OPERATION_CONFLICT"}
  PROVE  Matches(r, a, o, ins)
  BY DEF Matches

LEMMA FailKeeps ==
  ASSUME StoreTypeOK, StoreTypeOK', CallTypeOK, CallsInv, Grows, NEW c \in Callers, Fail(c)
  PROVE  CallTypeOK' /\ CallsInv'
<1>1. Answer("ERROR").Outcome = "ERROR"
  BY DEF Answer
<1>2. Return(c, Answer("ERROR")) /\ pc[c] # "idle"
  BY DEF Fail
<1> QED
  BY <1>1, <1>2, NoClaim, ReturnKeeps

(***************************************************************************)
(* The steps of AdmitAutomatic.                                            *)
(***************************************************************************)
LEMMA CallKnown ==
  ASSUME CallsInv, NEW c \in Callers, pc[c] # "idle"
  PROVE  req[c] \in Requests
  BY DEF CallsInv, CallInv, CallMatches

LEMMA AdmitLookupKeeps ==
  ASSUME StoreTypeOK, StoreTypeOK', CallTypeOK, CallsInv, Grows, NEW c \in Callers, AdmitLookup(c)
  PROVE  CallTypeOK' /\ CallsInv'
<1>1. pc[c] = "lookup" /\ req[c].Call = "AdmitAutomatic"
  BY DEF AdmitLookup, At
<1>2. CASE Goto(c, "policy")
  <2>1. /\ CallTypeOK' /\ OthersRest(c) /\ pc'[c] = "policy"
        /\ req'[c] = req[c] /\ tries'[c] = tries[c] /\ startedAt'[c] = startedAt[c]
    BY <1>2, GotoDoes DEF Places
  <2>2. policyLogs' = policyLogs /\ tries[c] = 0
    BY <1>1 DEF AdmitLookup, Reads, storeVars, CallsInv, CallInv, CallMatches
  <2>3. CallInv(c)'
    BY <1>1, <2>1, <2>2 DEF CallsInv, CallInv, CallMatches, OfPolicy, RevisionRead, SeenInLog,
       PassedGate, AppendsLegally, ExplicitAnswerMatches, Returned
  <2> QED
    BY <2>1, <2>3, OthersKeep
<1>3. CASE ~Goto(c, "policy")
  <2> DEFINE a == AutomaticReplay(intents[auto[Key(req[c])]], req[c])
  <2>1. Return(c, a)
    BY <1>3 DEF AdmitLookup
  <2>2. a.Outcome = "REPLAYED"
    BY DEF AutomaticReplay, Answer
  <2> HIDE DEF a
  <2> QED
    BY <1>1, <2>1, <2>2, NoClaim, ReturnKeeps
<1> QED
  BY <1>2, <1>3

LEMMA ReasonPasses ==
  ASSUME NEW rec \in PolicyRecord, NEW f \in Facts, Reason(rec, f) = ""
  PROVE  rec.State = "ACTIVE" /\ f.Class = "NEW" /\ After(f.Position, rec.Frontier)
<1>1. rec.State = "ACTIVE" /\ f.Class \notin {"REEXPRESSION", "UNKNOWN"}
  BY DEF Reason
<1>2. After(f.Position, rec.Frontier)
  BY <1>1 DEF Reason
<1> QED
  BY <1>1, <1>2 DEF Facts, Classes

LEMMA RecordActive ==
  ASSUME StoreTypeOK, PoliciesRecorded, NEW p \in Policies, policies[p].Seq # 0
  PROVE  /\ Len(policyLogs[p]) \in 1..Len(policyLogs[p])
         /\ policyLogs[p] # <<>> /\ LastOf(policyLogs[p]) \in PolicyTransition
         /\ policies[p].State = "ACTIVE" => IsOpening(LastOf(policyLogs[p]))
         /\ policies[p].State \in {"ACTIVE", "DISABLED", "RETIRED"}
         /\ policies[p].State = "DISABLED" => LastOf(policyLogs[p]).Kind = "DISABLE"
<1>1. policyLogs[p] \in Seq(PolicyTransition) /\ RecordOf(policyLogs[p], policies[p])
  BY LenTyped DEF PoliciesRecorded
<1>2. /\ Len(policyLogs[p]) \in Nat \ {0} /\ policyLogs[p] # <<>>
      /\ LastOf(policyLogs[p]) \in PolicyTransition
  BY <1>1 DEF RecordOf, LastOf
<1> QED
  BY <1>1, <1>2 DEF RecordOf, PolicyTransition, IsOpening, OpeningKinds, StopKinds

LEMMA FoundOrNot ==
  ASSUME StoreTypeOK, PoliciesRecorded, NEW p \in Policies
  PROVE  /\ policies[p].Seq = 0 <=> policies[p] = NoPolicy
         /\ policies[p].Seq # 0 => policies[p].State \in {"ACTIVE", "DISABLED", "RETIRED"}
<1>1. policies[p].Seq = 0 => policies[p] = NoPolicy
  BY LenTyped DEF PoliciesRecorded, RecordOf
<1>2. policies[p] = NoPolicy => policies[p].Seq = 0
  BY DEF NoPolicy
<1> QED
  BY <1>1, <1>2, RecordActive

LEMMA GatePasses ==
  ASSUME StoreTypeOK, PoliciesRecorded, NEW p \in Policies, NEW f \in Facts,
         Reason(policies[p], f) = ""
  PROVE  /\ policies[p].Seq # 0 /\ policies[p].State = "ACTIVE"
         /\ f.Class = "NEW" /\ After(f.Position, policies[p].Frontier)
         /\ \E i \in 1..Len(policyLogs[p]) :
              /\ IsOpening(policyLogs[p][i]) /\ policyLogs[p][i].Epoch = policies[p].Epoch
              /\ policyLogs[p][i].Frontier = policies[p].Frontier
<1>1. /\ policies[p].State = "ACTIVE" /\ f.Class = "NEW"
      /\ After(f.Position, policies[p].Frontier)
  BY LenTyped, ReasonPasses
<1>2. policies[p].Seq # 0
  <2> SUFFICES ASSUME policies[p].Seq = 0 PROVE FALSE
    OBVIOUS
  <2>1. policies[p] = NoPolicy
    BY FoundOrNot
  <2>2. NoPolicy.Frontier = Nil
    BY DEF NoPolicy
  <2>3. After(f.Position, Nil)
    BY <1>1, <2>1, <2>2
  <2> QED
    BY <2>3, PublicationOrder, NilIsFresh DEF After
<1>3. RecordOf(policyLogs[p], policies[p])
  BY DEF PoliciesRecorded
<1>4. /\ IsOpening(LastOf(policyLogs[p])) /\ LastOf(policyLogs[p]).Epoch = policies[p].Epoch
      /\ LastOf(policyLogs[p]).Frontier = policies[p].Frontier
      /\ Len(policyLogs[p]) \in 1..Len(policyLogs[p])
  BY <1>1, <1>2, <1>3, RecordActive DEF RecordOf
<1> QED
  BY <1>1, <1>2, <1>4 DEF LastOf

LEMMA AdmitDecideKeeps ==
  ASSUME StoreTypeOK, StoreTypeOK', CallTypeOK, CallsInv, Grows, PoliciesRecorded,
         NEW c \in Callers, AdmitDecide(c)
  PROVE  CallTypeOK' /\ CallsInv'
<1> DEFINE p == req[c].PolicyID
           rec == policies[p]
           next == IF tries[c] = 0 THEN "revision" ELSE "create"
           a == [Answer("NOT_ADMITTED") EXCEPT !.Reason = Reason(rec, req[c].Facts), !.Policy = rec]
<1>1. pc[c] = "policy" /\ req[c].Call = "AdmitAutomatic" /\ OfPolicy(req[c])
  BY DEF AdmitDecide, At, OfPolicy
<1>2. p \in Policies /\ req[c].Facts \in Facts /\ req[c] \in Requests
  BY <1>1, CallKnown, RequestTyped
<1>3. rec \in PolicyRecord /\ rec.Seq = Len(policyLogs[p])
  BY <1>2, LenTyped DEF PoliciesRecorded, RecordOf
<1>4. CASE Reason(rec, req[c].Facts) # ""
  <2>1. Return(c, a)
    BY <1>4 DEF AdmitDecide
  <2>2. a.Outcome = "NOT_ADMITTED"
    BY DEF Answer
  <2> HIDE DEF a
  <2> QED
    BY <1>1, <2>1, <2>2, NoClaim, ReturnKeeps
<1>5. CASE Reason(rec, req[c].Facts) = ""
  <2>1. GotoWith(c, rec, next) /\ next \in Places
    BY <1>5 DEF AdmitDecide, Places
  <2> HIDE DEF next
  <2>2. /\ CallTypeOK' /\ OthersRest(c) /\ pc'[c] = next /\ seen'[c] = rec
        /\ req'[c] = req[c] /\ tries'[c] = tries[c] /\ startedAt'[c] = startedAt[c]
    BY <1>3, <2>1, GotoWithDoes
  <2>3. UNCHANGED <<policyLogs, policies, committed>>
    BY DEF AdmitDecide, Reads, storeVars
  <2>4. next \in {"revision", "create"} /\ (next = "create" <=> tries[c] # 0)
    BY DEF next
  <2>5. CallMatches(c)' /\ RevisionRead(c)'
    BY <1>1, <1>2, <2>2, <2>3, <2>4 DEF CallsInv, CallInv, CallMatches, RevisionRead
  <2>6. SeenInLog(c)'
    <3>1. startedAt[c] + tries[c] <= Len(policyLogs[p]) /\ Len(policyLogs[p]) \in Nat
      BY <1>1, <1>2, LenTyped DEF CallsInv, CallInv, SeenInLog
    <3>2. req'[c].PolicyID = p /\ policyLogs'[p] = policyLogs[p] /\ policies'[p] = rec
      BY <2>2, <2>3
    <3> HIDE DEF p, rec
    <3> QED
      BY <1>3, <2>2, <2>4, <3>1, <3>2 DEF SeenInLog
  <2>7. PassedGate(c)'
    <3>1. /\ rec.Seq # 0 /\ rec.State = "ACTIVE"
          /\ req[c].Facts.Class = "NEW" /\ After(req[c].Facts.Position, rec.Frontier)
          /\ \E i \in 1..Len(policyLogs[p]) :
               /\ IsOpening(policyLogs[p][i]) /\ policyLogs[p][i].Epoch = rec.Epoch
               /\ policyLogs[p][i].Frontier = rec.Frontier
      BY <1>2, <1>5, GatePasses
    <3>2. policyLogs'[req'[c].PolicyID] = policyLogs[p] /\ req'[c].Facts = req[c].Facts
      BY <2>2, <2>3
    <3> HIDE DEF p, rec
    <3> QED
      BY <2>2, <3>1, <3>2 DEF PassedGate
  <2>8. AppendsLegally(c)' /\ ExplicitAnswerMatches(c)'
    BY <2>2, <2>4 DEF AppendsLegally, ExplicitAnswerMatches, Returned
  <2> QED
    BY <2>2, <2>5, <2>6, <2>7, <2>8, OthersKeep DEF CallInv
<1> QED
  BY <1>4, <1>5

LEMMA RequireCommittedKeeps ==
  ASSUME StoreTypeOK, StoreTypeOK', CallTypeOK, CallsInv, Grows, NEW c \in Callers,
         RequireCommitted(c)
  PROVE  CallTypeOK' /\ CallsInv'
<1>1. pc[c] = "revision"
  BY DEF RequireCommitted
<1>2. CASE req[c].PipelineRevision \in committed
  <2>1. Goto(c, "create")
    BY <1>2 DEF RequireCommitted
  <2>2. /\ CallTypeOK' /\ OthersRest(c) /\ pc'[c] = "create"
        /\ req'[c] = req[c] /\ seen'[c] = seen[c] /\ tries'[c] = tries[c]
        /\ startedAt'[c] = startedAt[c]
    BY <2>1, GotoDoes DEF Places
  <2>3. UNCHANGED <<policyLogs, policies, committed>>
    BY DEF RequireCommitted, Reads, storeVars
  <2>4. CallMatches(c)' /\ RevisionRead(c)'
    BY <1>1, <1>2, <2>2, <2>3 DEF CallsInv, CallInv, CallMatches, RevisionRead
  <2>5. SeenInLog(c)' /\ PassedGate(c)'
    BY <1>1, <2>2, <2>3 DEF CallsInv, CallInv, SeenInLog, PassedGate, OfPolicy
  <2>6. AppendsLegally(c)' /\ ExplicitAnswerMatches(c)'
    BY <2>2 DEF AppendsLegally, ExplicitAnswerMatches, Returned
  <2> QED
    BY <2>2, <2>4, <2>5, <2>6, OthersKeep DEF CallInv
<1>3. CASE req[c].PipelineRevision \notin committed
  <2>1. Return(c, Answer("NOT_COMMITTED")) /\ Answer("NOT_COMMITTED").Outcome = "NOT_COMMITTED"
    BY <1>3 DEF RequireCommitted, Answer
  <2> QED
    BY <1>1, <2>1, NoClaim, ReturnKeeps
<1> QED
  BY <1>2, <1>3

LEMMA AdmitReplayKeeps ==
  ASSUME StoreTypeOK, StoreTypeOK', CallTypeOK, CallsInv, Grows, NEW c \in Callers, AdmitReplay(c)
  PROVE  CallTypeOK' /\ CallsInv'
<1> DEFINE a == AutomaticReplay(intents[auto[Key(req[c])]], req[c])
<1>1. Return(c, a) /\ pc[c] # "idle"
  BY DEF AdmitReplay, At
<1>2. a.Outcome = "REPLAYED"
  BY DEF AutomaticReplay, Answer
<1> HIDE DEF a
<1> QED
  BY <1>1, <1>2, NoClaim, ReturnKeeps

LEMMA AdmitStaleKeeps ==
  ASSUME StoreTypeOK, StoreTypeOK', CallTypeOK, CallsInv, Grows, NEW c \in Callers, AdmitStale(c)
  PROVE  CallTypeOK' /\ CallsInv'
<1>1. pc[c] = "create" /\ req[c].Call = "AdmitAutomatic" /\ OfPolicy(req[c])
  BY DEF AdmitStale, At, OfPolicy
<1>2. UNCHANGED policyLogs /\ committed' = committed
  BY DEF AdmitStale, Reads, storeVars
<1>3. Len(policyLogs[req[c].PolicyID]) # seen[c].Seq
  BY <1>1 DEF AdmitStale, PolicyIsCurrent, PolicyFound, CallsInv, CallInv, SeenInLog, PassedGate
<1> QED
  BY <1>1, <1>2, <1>3, RetryKeeps DEF AdmitStale

LEMMA AdmitCreateKeeps ==
  ASSUME StoreTypeOK, StoreTypeOK', CallTypeOK, CallsInv, Grows, NEW c \in Callers,
         NEW id \in IDs, AdmitCreate(c, id)
  PROVE  CallTypeOK' /\ CallsInv'
<1> DEFINE a == [Answer("ADMITTED") EXCEPT
                  !.Intent = [AdmitDraft(req[c], seen[c].Epoch) EXCEPT !.ID = id],
                  !.Policy = seen[c]]
<1>1. Return(c, a) /\ pc[c] # "idle"
  BY DEF AdmitCreate, At
<1>2. a.Outcome = "ADMITTED"
  BY DEF Answer
<1> HIDE DEF a
<1> QED
  BY <1>1, <1>2, NoClaim, ReturnKeeps

LEMMA DuplicateIDKeeps ==
  ASSUME StoreTypeOK, StoreTypeOK', CallTypeOK, CallsInv, Grows, NEW c \in Callers,
         NEW id \in IDs, DuplicateID(c, id)
  PROVE  CallTypeOK' /\ CallsInv'
<1>1. Return(c, Answer("DUPLICATE")) /\ pc[c] # "idle" /\ Answer("DUPLICATE").Outcome = "DUPLICATE"
  BY DEF DuplicateID, At, Answer
<1> QED
  BY <1>1, NoClaim, ReturnKeeps

(***************************************************************************)
(* The steps of CreateExplicit.                                            *)
(***************************************************************************)
LEMMA ReplayMatches ==
  ASSUME NEW r, NEW o, NEW ins, o[r.OperationID] # Nil
  PROVE  LET a == ExplicitReplay(ins[o[r.OperationID]], DraftOf(r))
         IN  Matches(r, a, o, ins) /\ a.Outcome \in {"CONVERGED", "OPERATION_CONFLICT"}
  BY DEF Matches, ExplicitReplay, Answer

LEMMA ExplicitReplayKeeps ==
  ASSUME StoreTypeOK, StoreTypeOK', CallTypeOK, CallsInv, Grows, NEW c \in Callers,
         Reads, pc[c] # "idle", ops[req[c].OperationID] # Nil,
         Return(c, ExplicitReplay(intents[ops[req[c].OperationID]], DraftOf(req[c])))
  PROVE  CallTypeOK' /\ CallsInv'
<1> DEFINE a == ExplicitReplay(intents[ops[req[c].OperationID]], DraftOf(req[c]))
<1>1. Matches(req[c], a, ops, intents) /\ a.Outcome \in {"CONVERGED", "OPERATION_CONFLICT"}
  BY ReplayMatches
<1>2. ops' = ops /\ intents' = intents
  BY DEF Reads, storeVars
<1>3. Matches(req[c], a, ops', intents')
  BY <1>1, <1>2
<1> HIDE DEF a
<1>4. Return(c, a)
  BY DEF a
<1> QED
  BY <1>1, <1>3, <1>4, ReturnKeeps

LEMMA ExplicitLookupKeeps ==
  ASSUME StoreTypeOK, StoreTypeOK', CallTypeOK, CallsInv, Grows, NEW c \in Callers,
         ExplicitLookup(c)
  PROVE  CallTypeOK' /\ CallsInv'
<1>1. pc[c] = "lookup" /\ req[c].Call = "CreateExplicit" /\ Reads
  BY DEF ExplicitLookup, At
<1>2. CASE ops[req[c].OperationID] # Nil
  BY <1>1, <1>2, ExplicitReplayKeeps DEF ExplicitLookup
<1>3. CASE ops[req[c].OperationID] = Nil
  <2>1. Goto(c, "revision")
    BY <1>3 DEF ExplicitLookup
  <2>2. /\ CallTypeOK' /\ OthersRest(c) /\ pc'[c] = "revision"
        /\ req'[c] = req[c] /\ tries'[c] = tries[c]
    BY <2>1, GotoDoes DEF Places
  <2>3. CallInv(c)'
    BY <1>1, <2>2 DEF CallsInv, CallInv, CallMatches, OfPolicy, PolicyCalls, RevisionRead,
       SeenInLog, PassedGate, AppendsLegally, ExplicitAnswerMatches, Returned
  <2> QED
    BY <2>2, <2>3, OthersKeep
<1> QED
  BY <1>2, <1>3

LEMMA ExplicitLostRaceKeeps ==
  ASSUME StoreTypeOK, StoreTypeOK', CallTypeOK, CallsInv, Grows, NEW c \in Callers,
         ExplicitLostRace(c)
  PROVE  CallTypeOK' /\ CallsInv'
<1>1. pc[c] # "idle" /\ Reads /\ ops[req[c].OperationID] # Nil
  BY DEF ExplicitLostRace, At
<1> QED
  BY <1>1, ExplicitReplayKeeps DEF ExplicitLostRace

LEMMA ExplicitCreateKeeps ==
  ASSUME StoreTypeOK, StoreTypeOK', CallTypeOK, CallsInv, Grows, NEW c \in Callers,
         NEW id \in IDs, ExplicitCreate(c, id)
  PROVE  CallTypeOK' /\ CallsInv'
<1> DEFINE r == req[c]
           new == [DraftOf(r) EXCEPT !.ID = id]
           a == [Answer("CREATED") EXCEPT !.Intent = new]
<1>1. Return(c, a) /\ pc[c] # "idle" /\ r.Call = "CreateExplicit"
  BY DEF ExplicitCreate, At
<1>2. a.Outcome = "CREATED"
  BY DEF Answer
<1>3. r.OperationID \in OperationIDs
  BY <1>1, CallKnown, RequestTyped
<1>4. ops' = [ops EXCEPT ![r.OperationID] = id] /\ intents' = [intents EXCEPT ![id] = new]
  BY DEF ExplicitCreate, CreateExplicit, DraftOf, ExplicitDraft
<1>5. ops'[r.OperationID] = id /\ intents'[id] = new
  BY <1>3, <1>4 DEF StoreTypeOK
<1>6. SameExplicitSemantics(new, DraftOf(r))
  BY DEF SameExplicitSemantics, DraftOf, ExplicitDraft
<1> HIDE DEF a, new
<1>7. Matches(r, a, ops', intents')
  BY <1>2, <1>5, <1>6, NilIsFresh DEF Matches
<1> QED
  BY <1>1, <1>2, <1>7, ReturnKeeps

(***************************************************************************)
(* The steps of the lifecycle calls.                                       *)
(***************************************************************************)
(* The record just read is the policy's; the call goes on to append. *)
LEMMA AppendNextKeeps ==
  ASSUME StoreTypeOK, StoreTypeOK', CallTypeOK, CallsInv, Grows, PoliciesRecorded,
         NEW c \in Callers, pc[c] = "policy", req[c].Call \in PolicyCalls, Reads,
         NEW rec, rec = policies[req[c].PolicyID], GotoWith(c, rec, "append"),
         LegalNext(rec, IF req[c].Call = "EnablePolicy" THEN Opening(rec, req[c].Frontier)
                        ELSE Closing(req[c], rec))
  PROVE  CallTypeOK' /\ CallsInv'
<1> DEFINE p == req[c].PolicyID
<1>1. p \in Policies /\ req[c] \in Requests /\ OfPolicy(req[c])
  BY CallKnown, RequestTyped DEF OfPolicy
<1>2. /\ rec \in PolicyRecord /\ rec.Seq = Len(policyLogs[p]) /\ Len(policyLogs[p]) \in Nat
  BY <1>1, LenTyped DEF PoliciesRecorded, RecordOf
<1>3. /\ CallTypeOK' /\ OthersRest(c) /\ pc'[c] = "append" /\ seen'[c] = rec
      /\ req'[c] = req[c] /\ tries'[c] = tries[c] /\ startedAt'[c] = startedAt[c]
  BY <1>2, GotoWithDoes DEF Places
<1>4. policyLogs' = policyLogs /\ policies' = policies
  BY DEF Reads, storeVars
<1>5. CallMatches(c)' /\ RevisionRead(c)'
  BY <1>1, <1>3 DEF CallMatches, RevisionRead
<1>6. SeenInLog(c)'
  <2>1. startedAt[c] + tries[c] <= Len(policyLogs[p])
    BY <1>1 DEF CallsInv, CallInv, SeenInLog
  <2>2. req'[c].PolicyID = p /\ policyLogs'[p] = policyLogs[p] /\ policies'[p] = rec
    BY <1>3, <1>4
  <2> HIDE DEF p
  <2> QED
    BY <1>2, <1>3, <2>1, <2>2 DEF SeenInLog
<1>7. PassedGate(c)' /\ ExplicitAnswerMatches(c)'
  BY <1>3 DEF PassedGate, ExplicitAnswerMatches, Returned
<1>8. AppendsLegally(c)'
  BY <1>3 DEF AppendsLegally, Appends, LegalNext, Opening, Closing
<1> QED
  BY <1>3, <1>5, <1>6, <1>7, <1>8, OthersKeep DEF CallInv

LEMMA EnableReadKeeps ==
  ASSUME StoreTypeOK, StoreTypeOK', CallTypeOK, CallsInv, Grows, PoliciesRecorded,
         NEW c \in Callers, EnableRead(c)
  PROVE  CallTypeOK' /\ CallsInv'
<1> DEFINE p == req[c].PolicyID
           rec == policies[p]
<1>1. pc[c] = "policy" /\ req[c].Call = "EnablePolicy" /\ Reads
  BY DEF EnableRead, At
<1>2. p \in Policies /\ req[c].Frontier \in Positions
  BY <1>1, CallKnown, RequestTyped DEF OfPolicy, PolicyCalls
<1>3. CASE GotoWith(c, rec, "append")
  <2>1. CASE rec.State \in {"ACTIVE", "RETIRED"}
        \/ (rec.State = "DISABLED" /\ ~FrontierValid(req[c].Frontier, rec))
    <3>1. PICK a : Return(c, a)
      BY <2>1 DEF EnableRead
    <3>2. pc'[c] = "done" /\ pc'[c] = "append"
      BY <1>3, <3>1 DEF Return, GotoWith, CallTypeOK
    <3> QED
      BY <3>2
  <2>2. CASE rec.State \notin {"ACTIVE", "RETIRED"}
             /\ (rec.State = "DISABLED" => FrontierValid(req[c].Frontier, rec))
    <3>1. LegalNext(rec, Opening(rec, req[c].Frontier))
      <4>1. CASE rec.Seq = 0
        BY <1>2, <4>1, FoundOrNot DEF LegalNext, Opening, NoPolicy
      <4>2. CASE rec.Seq # 0
        <5>1. rec.State = "DISABLED" /\ rec # NoPolicy
          BY <1>2, <2>2, <4>2, FoundOrNot
        <5> HIDE DEF rec
        <5> QED
          BY <1>2, <2>2, <4>2, <5>1 DEF LegalNext, Opening
      <4> QED
        BY <4>1, <4>2
    <3> QED
      BY <1>1, <1>3, <3>1, AppendNextKeeps DEF PolicyCalls
  <2> QED
    BY <2>1, <2>2
<1>4. CASE ~GotoWith(c, rec, "append")
  <2> DEFINE a1 == [Answer("UNCHANGED") EXCEPT !.Policy = rec]
  <2>1. /\ a1.Outcome = "UNCHANGED" /\ Answer("POLICY_RETIRED").Outcome = "POLICY_RETIRED"
        /\ Answer("FRONTIER_INVALID").Outcome = "FRONTIER_INVALID"
    BY DEF Answer
  <2>2. \/ Return(c, a1) \/ Return(c, Answer("POLICY_RETIRED"))
        \/ Return(c, Answer("FRONTIER_INVALID"))
    BY <1>4 DEF EnableRead
  <2> HIDE DEF a1
  <2> QED
    BY <1>1, <2>1, <2>2, NoClaim, ReturnKeeps
<1> QED
  BY <1>3, <1>4

LEMMA StopReadKeeps ==
  ASSUME StoreTypeOK, StoreTypeOK', CallTypeOK, CallsInv, Grows, PoliciesRecorded,
         NEW c \in Callers, StopRead(c)
  PROVE  CallTypeOK' /\ CallsInv'
<1> DEFINE p == req[c].PolicyID
           rec == policies[p]
<1>1. pc[c] = "policy" /\ req[c].Call \in {"DisablePolicy", "RetirePolicy"} /\ Reads
  BY DEF StopRead, StopCalls
<1>2. p \in Policies
  BY <1>1, CallKnown, RequestTyped DEF OfPolicy, PolicyCalls
<1>3. CASE /\ rec.Seq # 0 /\ rec.State # Target(req[c].Call)
           /\ ~(rec.State = "RETIRED" /\ Target(req[c].Call) = "DISABLED")
  <2>1. GotoWith(c, rec, "append")
    BY <1>3 DEF StopRead, PolicyFound
  <2>2. rec.State \in {"ACTIVE", "DISABLED"}
        /\ (req[c].Call = "DisablePolicy" => rec.State = "ACTIVE")
    BY <1>1, <1>2, <1>3, FoundOrNot DEF Target
  <2>3. LegalNext(rec, Closing(req[c], rec))
    <3> HIDE DEF rec
    <3> QED
      BY <1>1, <1>3, <2>2 DEF LegalNext, Closing
  <2> QED
    BY <1>1, <2>1, <2>3, AppendNextKeeps DEF PolicyCalls
<1>4. CASE \/ rec.Seq = 0 \/ rec.State = Target(req[c].Call)
           \/ (rec.State = "RETIRED" /\ Target(req[c].Call) = "DISABLED")
  <2> DEFINE a1 == [Answer("UNCHANGED") EXCEPT
                      !.Policy = rec, !.Members = Membership(intents, p)]
  <2>1. /\ a1.Outcome = "UNCHANGED" /\ Answer("POLICY_RETIRED").Outcome = "POLICY_RETIRED"
        /\ Answer("NOT_FOUND").Outcome = "NOT_FOUND"
    BY DEF Answer
  <2>2. \/ Return(c, a1) \/ Return(c, Answer("POLICY_RETIRED"))
        \/ Return(c, Answer("NOT_FOUND"))
    BY <1>4 DEF StopRead, PolicyFound
  <2> HIDE DEF a1
  <2> QED
    BY <1>1, <2>1, <2>2, NoClaim, ReturnKeeps
<1> QED
  BY <1>3, <1>4

LEMMA EnableAppendKeeps ==
  ASSUME StoreTypeOK, StoreTypeOK', CallTypeOK, CallsInv, Grows, NEW c \in Callers,
         EnableAppend(c)
  PROVE  CallTypeOK' /\ CallsInv'
<1> DEFINE a == [Answer("TRANSITION") EXCEPT !.Policy = policies'[req[c].PolicyID]]
<1>1. Return(c, a) /\ pc[c] # "idle"
  BY DEF EnableAppend, At
<1>2. a.Outcome = "TRANSITION"
  BY DEF Answer
<1> HIDE DEF a
<1> QED
  BY <1>1, <1>2, NoClaim, ReturnKeeps

LEMMA StopAppendKeeps ==
  ASSUME StoreTypeOK, StoreTypeOK', CallTypeOK, CallsInv, Grows, NEW c \in Callers,
         StopAppend(c)
  PROVE  CallTypeOK' /\ CallsInv'
<1> DEFINE p == req[c].PolicyID
           a == [Answer("TRANSITION") EXCEPT
                   !.Policy = policies'[p], !.Members = Membership(intents', p)]
<1>1. Return(c, a) /\ pc[c] # "idle"
  BY DEF StopAppend
<1>2. a.Outcome = "TRANSITION"
  BY DEF Answer
<1> HIDE DEF a
<1> QED
  BY <1>1, <1>2, NoClaim, ReturnKeeps

LEMMA AppendStaleKeeps ==
  ASSUME StoreTypeOK, StoreTypeOK', CallTypeOK, CallsInv, Grows, NEW c \in Callers,
         AppendStale(c)
  PROVE  CallTypeOK' /\ CallsInv'
<1>1. pc[c] = "append" /\ OfPolicy(req[c])
  BY DEF AppendStale, OfPolicy, CallsInv, CallInv, CallMatches
<1>2. UNCHANGED policyLogs /\ committed' = committed
  BY DEF AppendStale, Reads, storeVars
<1>3. Len(policyLogs[req[c].PolicyID]) # seen[c].Seq
  BY DEF AppendStale, SeqIsCurrent
<1> QED
  BY <1>1, <1>2, <1>3, RetryKeeps DEF AppendStale

(***************************************************************************)
(* The steps of RecordDisabledAcceptance.                                  *)
(***************************************************************************)
LEMMA AcceptanceGetKeeps ==
  ASSUME StoreTypeOK, StoreTypeOK', CallTypeOK, CallsInv, Grows, NEW c \in Callers,
         AcceptanceGet(c)
  PROVE  CallTypeOK' /\ CallsInv'
<1>1. pc[c] = "get" /\ req[c].Call = "RecordDisabledAcceptance"
  BY DEF AcceptanceGet, At
<1>2. CASE Goto(c, "update")
  <2>1. /\ CallTypeOK' /\ OthersRest(c) /\ pc'[c] = "update"
        /\ req'[c] = req[c] /\ tries'[c] = tries[c]
    BY <1>2, GotoDoes DEF Places
  <2>2. tries[c] = 0 /\ req[c] \in Requests
    BY <1>1 DEF CallsInv, CallInv, CallMatches
  <2>3. CallInv(c)'
    BY <1>1, <2>1, <2>2 DEF CallInv, CallMatches, RevisionRead, SeenInLog,
       PassedGate, AppendsLegally, ExplicitAnswerMatches, Returned
  <2> QED
    BY <2>1, <2>3, OthersKeep
<1>3. CASE ~Goto(c, "update")
  <2> DEFINE a1 == [Answer("UNCHANGED") EXCEPT !.Intent = intents[req[c].ID]]
  <2>1. /\ a1.Outcome = "UNCHANGED" /\ Answer("NOT_FOUND").Outcome = "NOT_FOUND"
        /\ Answer("INVALID_TRANSITION").Outcome = "INVALID_TRANSITION"
    BY DEF Answer
  <2>2. \/ Return(c, a1) \/ Return(c, Answer("NOT_FOUND"))
        \/ Return(c, Answer("INVALID_TRANSITION"))
    BY <1>3 DEF AcceptanceGet
  <2> HIDE DEF a1
  <2> QED
    BY <1>1, <2>1, <2>2, NoClaim, ReturnKeeps
<1> QED
  BY <1>2, <1>3

LEMMA AcceptanceBlockKeeps ==
  ASSUME StoreTypeOK, StoreTypeOK', CallTypeOK, CallsInv, Grows, NEW c \in Callers,
         AcceptanceBlock(c)
  PROVE  CallTypeOK' /\ CallsInv'
<1> DEFINE a == [Answer("UPDATED") EXCEPT !.Intent = intents'[req[c].ID]]
<1>1. Return(c, a) /\ pc[c] # "idle"
  BY DEF AcceptanceBlock, At
<1>2. a.Outcome = "UPDATED"
  BY DEF Answer
<1> HIDE DEF a
<1> QED
  BY <1>1, <1>2, NoClaim, ReturnKeeps

(***************************************************************************)
(* The store under the service's writes.                                   *)
(***************************************************************************)
LEMMA LogsKept == ASSUME StoreTypeOK, UNCHANGED policyVars PROVE LogsGrow
<1>1. ASSUME NEW p \in Policies PROVE Len(policyLogs[p]) <= Len(policyLogs[p])
  BY LenTyped
<1> QED
  BY <1>1 DEF LogsGrow, policyVars

(* What a stored intent is does not change under FrozenStep. *)
LEMMA FrozenKeepsFields ==
  ASSUME StoreTypeOK, StoreTypeOK', FrozenStep, NEW id \in IDs, Exists(id)
  PROVE  /\ Exists(id)'
         /\ intents'[id].Origin = intents[id].Origin
         /\ intents'[id].PolicyID = intents[id].PolicyID
         /\ intents'[id].Subject = intents[id].Subject
         /\ intents'[id].PipelineRevision = intents[id].PipelineRevision
         /\ intents'[id].AdmissionEpoch = intents[id].AdmissionEpoch
<1>1. intents[id] \in IntentRecord /\ id # Nil /\ intents[id] # Nil
  BY DEF StoreTypeOK, Exists
<1>2. intents'[id] # Nil /\ Frozen(intents'[id]) = Frozen(intents[id])
  BY <1>1 DEF FrozenStep
<1>3. intents'[id] \in IntentRecord
  BY <1>2 DEF StoreTypeOK
<1> QED
  BY <1>1, <1>2, <1>3, FrozenFields DEF Exists

LEMMA FrozenGrows ==
  ASSUME StoreTypeOK, StoreTypeOK', IndexesAgree, FrozenStep, LogsGrow,
         committed \subseteq committed',
         \A o \in OperationIDs : ops[o] # Nil => ops'[o] = ops[o]
  PROVE  Grows
<1> SUFFICES ASSUME NEW o \in OperationIDs, ops[o] # Nil
             PROVE  /\ intents'[ops[o]].Origin = intents[ops[o]].Origin
                    /\ intents'[ops[o]].Subject = intents[ops[o]].Subject
                    /\ intents'[ops[o]].PipelineRevision = intents[ops[o]].PipelineRevision
  BY DEF Grows
<1>1. ops[o] \in IDs
  BY DEF StoreTypeOK
<1>2. Exists(ops[o])
  BY <1>1 DEF IndexesAgree, LedgerAgrees
<1> QED
  BY <1>1, <1>2, FrozenKeepsFields

(* What StoreHalf says of an intent apart from its RunID and blockers. *)
AdmissionHalf ==
  AutomaticHasPolicy /\ OnCommittedRevisions /\ AdmittedAfterFrontier

AdmittedWhile(id) ==
  LET log == policyLogs[intents[id].PolicyID]
      at == admittedAt[id]
  IN  /\ facts[id] # Nil /\ facts[id].Class = "NEW"
      /\ at # Nil /\ at \in 1..Len(log)
      /\ IsOpening(log[at]) /\ log[at].Epoch = intents[id].AdmissionEpoch
      /\ \A i \in 1..at : IsOpening(log[i]) => After(facts[id].Position, log[i].Frontier)

LEMMA AdmittedIsEach ==
  AdmittedAfterFrontier <=> \A id \in IDs : IsAutomatic(id) => AdmittedWhile(id)
  BY DEF AdmittedAfterFrontier, AdmittedWhile

LEMMA AdmittedWhileGrows ==
  ASSUME StoreTypeOK, StoreTypeOK', LogsGrow, NEW id \in IDs, IsAutomatic(id), AdmittedWhile(id),
         intents[id].PolicyID \in Policies,
         intents'[id].PolicyID = intents[id].PolicyID,
         intents'[id].AdmissionEpoch = intents[id].AdmissionEpoch,
         facts'[id] = facts[id], admittedAt'[id] = admittedAt[id]
  PROVE  AdmittedWhile(id)'
<1> DEFINE log == policyLogs[intents[id].PolicyID]
           log2 == policyLogs'[intents[id].PolicyID]
           at == admittedAt[id]
<1>1. /\ facts[id] # Nil /\ facts[id].Class = "NEW" /\ at # Nil /\ at \in 1..Len(log)
      /\ IsOpening(log[at]) /\ log[at].Epoch = intents[id].AdmissionEpoch
      /\ \A i \in 1..at : IsOpening(log[i]) => After(facts[id].Position, log[i].Frontier)
  BY DEF AdmittedWhile
<1>2. /\ Len(log) \in Nat /\ Len(log2) \in Nat /\ Len(log) <= Len(log2)
      /\ \A i \in 1..Len(log) : log2[i] = log[i]
  BY DEF LogsGrow, StoreTypeOK
<1>3. policyLogs'[intents'[id].PolicyID] = log2
  OBVIOUS
<1> HIDE DEF log, log2
<1>4. at \in 1..Len(log2) /\ log2[at] = log[at]
  BY <1>1, <1>2
<1>5. \A i \in 1..at : IsOpening(log2[i]) => After(facts[id].Position, log2[i].Frontier)
  BY <1>1, <1>2
<1> HIDE DEF at
<1>6. admittedAt'[id] = at
  BY DEF at
<1> QED
  BY <1>1, <1>3, <1>4, <1>5, <1>6 DEF AdmittedWhile

LEMMA AdmissionKept ==
  ASSUME StoreTypeOK, StoreTypeOK', AdmissionHalf, FrozenStep, LogsGrow,
         committed \subseteq committed', UNCHANGED <<facts, admittedAt>>,
         \A id \in IDs : Exists(id)' => Exists(id)
  PROVE  AdmissionHalf'
<1>1. ASSUME NEW id \in IDs, Exists(id)'
      PROVE  /\ Exists(id) /\ IsAutomatic(id) = IsAutomatic(id)'
             /\ intents'[id].PolicyID = intents[id].PolicyID
             /\ intents'[id].PipelineRevision = intents[id].PipelineRevision
             /\ intents'[id].AdmissionEpoch = intents[id].AdmissionEpoch
  BY <1>1, FrozenKeepsFields DEF IsAutomatic
<1>2. AutomaticHasPolicy'
  BY <1>1 DEF AdmissionHalf, AutomaticHasPolicy, IsAutomatic
<1>3. OnCommittedRevisions'
  BY <1>1 DEF AdmissionHalf, OnCommittedRevisions
<1>4. AdmittedAfterFrontier'
  <2> SUFFICES ASSUME NEW id \in IDs, IsAutomatic(id)'
               PROVE  AdmittedWhile(id)'
    BY DEF AdmittedAfterFrontier, AdmittedWhile
  <2>1. IsAutomatic(id) /\ Exists(id)'
    BY <1>1 DEF IsAutomatic
  <2>2. AdmittedWhile(id) /\ intents[id].PolicyID \in Policies
    BY <2>1, AdmittedIsEach DEF AdmissionHalf, AutomaticHasPolicy
  <2> QED
    BY <1>1, <2>1, <2>2, AdmittedWhileGrows
<1> QED
  BY <1>2, <1>3, <1>4 DEF AdmissionHalf

LEMMA FrontiersChain ==
  ASSUME NEW f \in Positions, NEW a, NEW b, a.Frontier \in Positions, b.Frontier \in Positions,
         FrontierValid(f, a), FrontierValid(a.Frontier, b)
  PROVE  FrontierValid(f, b)
<1>1. f = a.Frontier \/ <<a.Frontier, f>> \in PublishedBefore
  BY DEF FrontierValid, Comparable, After
<1>2. a.Frontier = b.Frontier \/ <<b.Frontier, a.Frontier>> \in PublishedBefore
  BY DEF FrontierValid, Comparable, After
<1>3. f = b.Frontier \/ <<b.Frontier, f>> \in PublishedBefore
  BY <1>1, <1>2, PublicationOrder
<1>4. ~(<<f, b.Frontier>> \in PublishedBefore)
  BY <1>3, PublicationOrder
<1> QED
  BY <1>3, <1>4 DEF FrontierValid, Comparable, After

(***************************************************************************)
(* A transition.  entry is what it appends to the log of policy p.         *)
(***************************************************************************)
LEMMA AppendDoes ==
  ASSUME StoreTypeOK, NEW p \in Policies, NEW n \in Nat, NEW t \in PolicyTransition, NEW hold,
         AppendPolicyTransition(p, n, t, hold)
  PROVE  LET entry == [t EXCEPT !.Seq = n + 1]
             log == policyLogs[p]
             log2 == policyLogs'[p]
         IN  /\ entry \in PolicyTransition
             /\ entry.Seq = n + 1 /\ entry.Kind = t.Kind /\ entry.Epoch = t.Epoch
             /\ entry.Frontier = t.Frontier
             /\ Len(log) = n /\ log2 = Append(log, entry)
             /\ Len(log2) = n + 1 /\ log2[n + 1] = entry
             /\ \A i \in 1..n : log2[i] = log[i]
             /\ policies'[p] = Apply(policies[p], entry)
             /\ \A q \in Policies \ {p} :
                  policyLogs'[q] = policyLogs[q] /\ policies'[q] = policies[q]
<1> DEFINE entry == [t EXCEPT !.Seq = n + 1]
<1>1. /\ entry \in PolicyTransition
      /\ entry.Seq = n + 1 /\ entry.Kind = t.Kind /\ entry.Epoch = t.Epoch
      /\ entry.Frontier = t.Frontier
  BY DEF PolicyTransition
<1>2. /\ policyLogs' = [policyLogs EXCEPT ![p] = Append(policyLogs[p], entry)]
      /\ policies' = [policies EXCEPT ![p] = Apply(policies[p], entry)]
      /\ Len(policyLogs[p]) = n
  BY DEF AppendPolicyTransition, SeqIsCurrent
<1> HIDE DEF entry
<1>3. /\ policyLogs'[p] = Append(policyLogs[p], entry)
      /\ policies'[p] = Apply(policies[p], entry)
      /\ \A q \in Policies \ {p} :
           policyLogs'[q] = policyLogs[q] /\ policies'[q] = policies[q]
  BY <1>2 DEF StoreTypeOK
<1>4. policyLogs[p] \in Seq(PolicyTransition)
  BY DEF StoreTypeOK
<1>5. /\ Len(policyLogs'[p]) = n + 1 /\ policyLogs'[p][n + 1] = entry
      /\ \A i \in 1..n : policyLogs'[p][i] = policyLogs[p][i]
  BY <1>1, <1>2, <1>3, <1>4
<1> QED
  BY <1>1, <1>2, <1>3, <1>5 DEF entry

LEMMA AppendGrowsLogs ==
  ASSUME StoreTypeOK, NEW p \in Policies, NEW n \in Nat, NEW t \in PolicyTransition, NEW hold,
         AppendPolicyTransition(p, n, t, hold)
  PROVE  LogsGrow
<1>1. /\ Len(policyLogs[p]) = n /\ Len(policyLogs'[p]) = n + 1
      /\ \A i \in 1..n : policyLogs'[p][i] = policyLogs[p][i]
      /\ \A q \in Policies \ {p} :
           policyLogs'[q] = policyLogs[q] /\ policies'[q] = policies[q]
  BY AppendDoes
<1>2. \A q \in Policies : Len(policyLogs[q]) \in Nat
  BY LenTyped
<1> QED
  BY <1>1, <1>2 DEF LogsGrow

(* The record's frontier is a position once the policy has been activated. *)
LEMMA FrontierKnown ==
  ASSUME StoreTypeOK, PoliciesRecorded, LifecycleLegal, NEW p \in Policies, policies[p].Seq # 0
  PROVE  policies[p].Frontier \in Positions
<1>1. Len(policyLogs[p]) \in 1..Len(policyLogs[p])
  BY RecordActive
<1>2. 1 \in 1..Len(policyLogs[p])
  BY <1>1
<1>3. IsOpening(policyLogs[p][1])
  BY <1>2 DEF LifecycleLegal, LegalEntry, IsOpening, OpeningKinds
<1>4. policyLogs[p][1].Frontier \in Positions
      /\ FrontierValid(policies[p].Frontier, policyLogs[p][1])
  BY <1>2, <1>3 DEF PoliciesRecorded, RecordOf
<1> QED
  BY <1>4, PublicationOrder DEF FrontierValid, Comparable

(* What LegalNext says in terms of the log. *)
LEMMA NextInLog ==
  ASSUME StoreTypeOK, PoliciesRecorded, LifecycleLegal, NEW p \in Policies,
         NEW t, LegalNext(policies[p], t)
  PROVE  LET log == policyLogs[p]
             n == Len(log)
         IN  /\ n \in Nat /\ t.Epoch \in Nat
             /\ t.Kind \in {"ACTIVATE", "REENABLE", "DISABLE", "RETIRE"}
             /\ t.Kind = "ACTIVATE" <=> n = 0
             /\ t.Kind = "ACTIVATE" => t.Epoch = 1
             /\ n > 0 => log[n].Kind # "RETIRE"
             /\ t.Kind = "REENABLE" => log[n].Kind = "DISABLE" /\ t.Epoch = log[n].Epoch + 1
             /\ t.Kind \in StopKinds => t.Epoch = log[n].Epoch
             /\ t.Kind = "DISABLE" => IsOpening(log[n])
             /\ \A i \in 1..n : log[i].Epoch \in Nat /\ log[i].Epoch <= t.Epoch
             /\ IsOpening(t) =>
                  /\ t.Frontier \in Positions
                  /\ \A i \in 1..n : /\ log[i].Epoch < t.Epoch
                                     /\ IsOpening(log[i]) => FrontierValid(t.Frontier, log[i])
<1> DEFINE log == policyLogs[p]
           rec == policies[p]
           n == Len(log)
<1>1. /\ log \in Seq(PolicyTransition) /\ n \in Nat /\ rec \in PolicyRecord /\ rec.Seq = n
      /\ RecordOf(log, rec)
  BY LenTyped DEF PoliciesRecorded, RecordOf
<1>2. /\ \A i \in 1..n : log[i].Epoch \in Nat /\ log[i].Epoch <= rec.Epoch
      /\ rec.Epoch \in Nat
  <2>1. \A i \in 1..n : log[i] \in PolicyTransition
    BY <1>1
  <2>2. \A i \in 1..n : log[i].Epoch \in Nat
    BY <2>1 DEF PolicyTransition
  <2>3. \A i \in 1..n : log[i].Epoch <= rec.Epoch
    BY <1>1 DEF RecordOf
  <2> QED
    BY <1>1, <2>2, <2>3 DEF PolicyRecord
<1>3. n # 0 => /\ log[n].Epoch = rec.Epoch /\ rec.Frontier \in Positions
               /\ rec.State = "ACTIVE" => IsOpening(log[n])
               /\ rec.State = "DISABLED" => log[n].Kind = "DISABLE"
               /\ log[n].Kind = "RETIRE" => rec.State = "RETIRED"
               /\ rec # NoPolicy
  BY <1>1, RecordActive, FrontierKnown, FoundOrNot DEF RecordOf, LastOf
<1>4. n = 0 => rec = NoPolicy
  BY <1>1, FoundOrNot
<1>5. \A i \in 1..n : IsOpening(log[i]) =>
        log[i].Frontier \in Positions /\ FrontierValid(rec.Frontier, log[i])
  BY <1>1 DEF RecordOf
<1> HIDE DEF log, rec, n
<1>6. LegalNext(rec, t)
  BY DEF rec
<1>7. CASE t.Kind = "ACTIVATE" /\ rec = NoPolicy /\ t.Epoch = 1 /\ t.Frontier \in Positions
  <2>1. n = 0
    BY <1>1, <1>3, <1>7
  <2> QED
    BY <1>7, <2>1 DEF n, log, StopKinds
<1>8. CASE /\ t.Kind = "REENABLE" /\ rec.Seq # 0 /\ rec.State = "DISABLED"
           /\ t.Epoch = rec.Epoch + 1
           /\ t.Frontier \in Positions /\ FrontierValid(t.Frontier, rec)
  <2>1. n # 0 /\ log[n].Kind = "DISABLE" /\ rec.Frontier \in Positions /\ log[n].Epoch = rec.Epoch
    BY <1>1, <1>3, <1>8
  <2>2. \A i \in 1..n : IsOpening(log[i]) => FrontierValid(t.Frontier, log[i])
    BY <1>5, <1>8, <2>1, FrontiersChain
  <2>3. \A i \in 1..n : log[i].Epoch \in Nat /\ log[i].Epoch < t.Epoch /\ log[i].Epoch <= t.Epoch
    BY <1>2, <1>8
  <2> QED
    BY <1>1, <1>2, <1>8, <2>1, <2>2, <2>3 DEF n, log, StopKinds
<1>9. CASE /\ t.Kind \in {"DISABLE", "RETIRE"} /\ rec.Seq # 0
           /\ rec.State \in {"ACTIVE", "DISABLED"} /\ (t.Kind = "DISABLE" => rec.State = "ACTIVE")
           /\ t.Epoch = rec.Epoch
  <2>1. /\ n # 0 /\ log[n].Kind # "RETIRE" /\ log[n].Epoch = rec.Epoch
        /\ t.Kind = "DISABLE" => IsOpening(log[n])
    BY <1>1, <1>3, <1>9
  <2> QED
    BY <1>1, <1>2, <1>9, <2>1 DEF n, log, StopKinds, IsOpening, OpeningKinds
<1> QED
  BY <1>6, <1>7, <1>8, <1>9 DEF LegalNext

LEMMA AppendLegal ==
  ASSUME StoreTypeOK, PoliciesRecorded, LifecycleLegal, NEW p \in Policies,
         NEW t \in PolicyTransition, NEW hold, LegalNext(policies[p], t),
         NEW n, n = Len(policyLogs[p]), AppendPolicyTransition(p, n, t, hold)
  PROVE  PoliciesRecorded' /\ LifecycleLegal'
<1> DEFINE entry == [t EXCEPT !.Seq = n + 1]
           log == policyLogs[p]
           log2 == policyLogs'[p]
           rec == policies[p]
           rec2 == policies'[p]
<1>1. n \in Nat /\ n = Len(log) /\ log \in Seq(PolicyTransition)
  BY LenTyped
<1>2. /\ entry \in PolicyTransition
      /\ entry.Seq = n + 1 /\ entry.Kind = t.Kind /\ entry.Epoch = t.Epoch
      /\ entry.Frontier = t.Frontier
      /\ log2 = Append(log, entry)
      /\ Len(log2) = n + 1 /\ log2[n + 1] = entry
      /\ \A i \in 1..n : log2[i] = log[i]
      /\ rec2 = Apply(rec, entry)
      /\ \A q \in Policies \ {p} :
           policyLogs'[q] = policyLogs[q] /\ policies'[q] = policies[q]
  BY <1>1, AppendDoes
<1>3. /\ t.Epoch \in Nat
      /\ t.Kind \in {"ACTIVATE", "REENABLE", "DISABLE", "RETIRE"}
      /\ t.Kind = "ACTIVATE" <=> n = 0
      /\ t.Kind = "ACTIVATE" => t.Epoch = 1
      /\ n > 0 => log[n].Kind # "RETIRE"
      /\ t.Kind = "REENABLE" => log[n].Kind = "DISABLE" /\ t.Epoch = log[n].Epoch + 1
      /\ t.Kind \in StopKinds => t.Epoch = log[n].Epoch
      /\ t.Kind = "DISABLE" => IsOpening(log[n])
      /\ \A i \in 1..n : log[i].Epoch \in Nat /\ log[i].Epoch <= t.Epoch
      /\ IsOpening(t) =>
           /\ t.Frontier \in Positions
           /\ \A i \in 1..n : /\ log[i].Epoch < t.Epoch
                              /\ IsOpening(log[i]) => FrontierValid(t.Frontier, log[i])
  BY <1>1, NextInLog
<1>4. /\ \A i \in 1..n : IsOpening(log[i]) =>
           log[i].Frontier \in Positions /\ FrontierValid(rec.Frontier, log[i])
      /\ \A i, j \in 1..n : i < j /\ IsOpening(log[j]) => log[i].Epoch < log[j].Epoch
      /\ \A i \in 1..n : LegalEntry(log, i)
  BY <1>1 DEF PoliciesRecorded, RecordOf, EpochsGrow, LifecycleLegal
<1>5. /\ rec2.Seq = n + 1 /\ rec2.Epoch = t.Epoch
      /\ IsOpening(t) => rec2.State = "ACTIVE" /\ rec2.Frontier = t.Frontier
      /\ t.Kind = "DISABLE" => rec2.State = "DISABLED"
      /\ t.Kind = "RETIRE" => rec2.State = "RETIRED"
      /\ ~IsOpening(t) => rec2.Frontier = rec.Frontier
  BY <1>2, <1>3 DEF Apply, IsOpening, OpeningKinds
<1>6. log2 # <<>> /\ LastOf(log2) = entry
  BY <1>1, <1>2 DEF LastOf
<1>7. IsOpening(entry) = IsOpening(t)
  BY <1>2 DEF IsOpening
<1> HIDE DEF entry, log, log2, rec, rec2
<1>8. \A i \in 1..Len(log2) : i = n + 1 \/ i \in 1..n
  BY <1>1, <1>2
<1>9. RecordOf(log2, rec2)
  <2>1. ASSUME NEW i \in 1..Len(log2)
        PROVE  /\ log2[i].Epoch <= rec2.Epoch
               /\ IsOpening(log2[i]) =>
                    log2[i].Frontier \in Positions /\ FrontierValid(rec2.Frontier, log2[i])
    <3>1. CASE i = n + 1
      <4>1. IsOpening(t) => FrontierValid(t.Frontier, entry)
        BY <1>2, <1>3, PublicationOrder DEF FrontierValid, Comparable, After
      <4> QED
        BY <1>2, <1>3, <1>5, <1>7, <3>1, <4>1
    <3>2. CASE i \in 1..n
      <4>1. log2[i] = log[i] /\ log[i].Epoch <= rec2.Epoch
        BY <1>2, <1>3, <1>5, <3>2
      <4>2. IsOpening(log[i]) =>
              log[i].Frontier \in Positions /\ FrontierValid(rec2.Frontier, log[i])
        BY <1>3, <1>4, <1>5, <3>2
      <4> QED
        BY <4>1, <4>2
    <3> QED
      BY <1>8, <3>1, <3>2
  <2> QED
    BY <1>2, <1>5, <1>6, <1>7, <2>1 DEF RecordOf
<1>10. EpochsGrow(log2)
  <2> SUFFICES ASSUME NEW i \in 1..Len(log2), NEW j \in 1..Len(log2), i < j, IsOpening(log2[j])
               PROVE  log2[i].Epoch < log2[j].Epoch
    BY DEF EpochsGrow
  <2>1. i \in 1..n /\ log2[i] = log[i]
    BY <1>1, <1>2
  <2>2. CASE j = n + 1
    BY <1>2, <1>3, <1>7, <2>1, <2>2
  <2>3. CASE j \in 1..n
    BY <1>2, <1>4, <2>1, <2>3
  <2> QED
    BY <1>8, <2>2, <2>3
<1>11. \A i \in 1..Len(log2) : LegalEntry(log2, i)
  <2> SUFFICES ASSUME NEW i \in 1..Len(log2)
               PROVE  LegalEntry(log2, i)
    OBVIOUS
  <2>1. CASE i = 1 /\ i \in 1..n
    <3>1. LegalEntry(log, i) /\ log2[i] = log[i]
      BY <1>2, <1>4, <2>1
    <3> QED
      BY <2>1, <3>1 DEF LegalEntry, StopKinds
  <2>2. CASE i # 1 /\ i \in 1..n
    <3>1. LegalEntry(log, i) /\ log2[i] = log[i] /\ log2[i - 1] = log[i - 1]
          /\ \A j \in 1..(i - 1) : log2[j] = log[j]
      BY <1>1, <1>2, <1>4, <2>2
    <3> QED
      BY <3>1 DEF LegalEntry
  <2>3. CASE i = n + 1
    <3>1. n # 0 => log2[i - 1] = log[n]
      BY <1>1, <1>2, <2>3
    <3>2. \A j \in 1..(i - 1) : IsOpening(t) /\ IsOpening(log2[j]) => FrontierValid(t.Frontier, log2[j])
      BY <1>1, <1>2, <1>3, <2>3
    <3>3. t.Kind = "REENABLE" => IsOpening(t)
      BY DEF IsOpening, OpeningKinds
    <3> QED
      BY <1>1, <1>2, <1>3, <2>3, <3>1, <3>2, <3>3 DEF LegalEntry, StopKinds
  <2> QED
    BY <1>8, <2>1, <2>2, <2>3
<1>12. ASSUME NEW q \in Policies
       PROVE  /\ RecordOf(policyLogs'[q], policies'[q]) /\ EpochsGrow(policyLogs'[q])
              /\ \A i \in 1..Len(policyLogs'[q]) : LegalEntry(policyLogs'[q], i)
  <2>1. CASE q = p
    BY <1>9, <1>10, <1>11, <2>1 DEF log2, rec2
  <2>2. CASE q # p
    BY <1>2, <2>2 DEF PoliciesRecorded, LifecycleLegal
  <2> QED
    BY <2>1, <2>2
<1> QED
  BY <1>12 DEF PoliciesRecorded, LifecycleLegal

(***************************************************************************)
(* The holds: an intent whose policy stops is held, or has its RunID since *)
(* before.                                                                 *)
(***************************************************************************)
HeldNow(id) ==
  LET rec == policies[intents[id].PolicyID] IN
  rec.State # "ACTIVE" =>
    \/ intents[id].Blockers["POLICY_DISABLE"] # "CLEAR"
    \/ intents[id].RunID # Nil /\ attachedAt[id] < rec.Seq
    \/ releasedAt[id] # Nil /\ releasedAt[id] = rec.Seq

AttachNoted(id) ==
  intents[id].RunID # Nil =>
    attachedAt[id] \in Nat /\ attachedAt[id] <= Len(policyLogs[intents[id].PolicyID])

LEMMA HeldIsEach ==
  /\ HeldUntilReleased <=> \A id \in IDs : IsAutomatic(id) => HeldNow(id)
  /\ AttachedInLog <=> \A id \in IDs : IsAutomatic(id) => AttachNoted(id)
  BY DEF HeldUntilReleased, HeldNow, AttachedInLog, AttachNoted

(* A member of the policy that no hold is placed on is held or attached. *)
LEMMA StopHolds ==
  ASSUME StoreTypeOK, IndexesAgree, AutomaticHasPolicy, NEW id \in IDs, IsAutomatic(id),
         NEW p, p = intents[id].PolicyID, intents[id].RunID = Nil
  PROVE  id \in ToHold(p) \/ intents[id].Blockers["POLICY_DISABLE"] = "BLOCKED"
<1>1. p \in Policies /\ intents[id] \in IntentRecord
  BY DEF AutomaticHasPolicy, StoreTypeOK, IsAutomatic, Exists
<1>2. intents[id].Subject \in Subjects
  BY <1>1 DEF IntentRecord
<1>3. auto[<<p, intents[id].Subject>>] = id
  BY <1>1, <1>2 DEF IndexesAgree, AutoIndexAgrees, AutoKey
<1> QED
  BY <1>2, <1>3 DEF ToHold, Members

LEMMA AppendHolds ==
  ASSUME StoreHalf, StoreTypeOK', NEW p \in Policies, NEW t \in PolicyTransition,
         NEW hold \in BOOLEAN, t.Kind \in StopKinds => hold,
         NEW n, n = Len(policyLogs[p]), AppendPolicyTransition(p, n, t, hold),
         UNCHANGED historyVars
  PROVE  HeldUntilReleased' /\ AttachedInLog'
<1>1. /\ n \in Nat /\ StoreTypeOK /\ IndexesAgree /\ AutomaticHasPolicy
      /\ HeldUntilReleased /\ AttachedInLog
  BY LenTyped DEF StoreHalf
<1>2. SameButBlockers /\ LogsGrow
  BY <1>1, AppendOnlyBlockers, AppendGrowsLogs
<1>3. /\ Len(policyLogs'[p]) = n + 1
      /\ policies'[p] = Apply(policies[p], [t EXCEPT !.Seq = n + 1])
      /\ [t EXCEPT !.Seq = n + 1].Seq = n + 1
      /\ [t EXCEPT !.Seq = n + 1].Kind = t.Kind
      /\ \A q \in Policies \ {p} :
           policyLogs'[q] = policyLogs[q] /\ policies'[q] = policies[q]
  BY <1>1, AppendDoes
<1>4. policies'[p].Seq = n + 1 /\ (t.Kind \notin StopKinds => policies'[p].State = "ACTIVE")
  <2> DEFINE entry == [t EXCEPT !.Seq = n + 1]
  <2>1. t.Kind \in OpeningKinds \cup StopKinds
    BY DEF PolicyTransition
  <2>2. policies'[p] = Apply(policies[p], entry) /\ entry.Seq = n + 1 /\ entry.Kind = t.Kind
    BY <1>3
  <2> HIDE DEF entry
  <2> QED
    BY <2>1, <2>2 DEF Apply, OpeningKinds, StopKinds
<1>5. ASSUME NEW id \in IDs, IsAutomatic(id)'
      PROVE  /\ IsAutomatic(id) /\ intents[id].PolicyID \in Policies
             /\ intents'[id].PolicyID = intents[id].PolicyID
             /\ intents'[id].RunID = intents[id].RunID
             /\ intents[id] \in IntentRecord
             /\ HeldNow(id) /\ AttachNoted(id)
  <2>1. Exists(id) /\ intents'[id].RunID = intents[id].RunID
    BY <1>2, <1>5 DEF SameButBlockers, IsAutomatic, Exists
  <2>2. FrozenStep
    BY <1>2, BlockersKeepFrozen
  <2>3. intents'[id].Origin = intents[id].Origin /\ intents'[id].PolicyID = intents[id].PolicyID
    BY <1>1, <2>1, <2>2, FrozenKeepsFields
  <2>4. IsAutomatic(id) /\ intents[id] \in IntentRecord
    BY <1>1, <1>5, <2>1, <2>3 DEF IsAutomatic, Exists, StoreTypeOK
  <2> QED
    BY <1>1, <2>1, <2>3, <2>4, HeldIsEach DEF AutomaticHasPolicy
<1>6. ASSUME NEW id \in IDs, IsAutomatic(id)'
      PROVE  AttachNoted(id)'
  <2>1. UNCHANGED attachedAt
    BY DEF historyVars
  <2>2. AttachNoted(id) /\ intents'[id].PolicyID = intents[id].PolicyID
        /\ intents'[id].RunID = intents[id].RunID /\ intents[id].PolicyID \in Policies
    BY <1>5, <1>6
  <2>3. /\ Len(policyLogs[intents[id].PolicyID]) \in Nat
        /\ Len(policyLogs'[intents[id].PolicyID]) \in Nat
        /\ Len(policyLogs[intents[id].PolicyID]) <= Len(policyLogs'[intents[id].PolicyID])
    BY <1>1, <1>2, <2>2 DEF LogsGrow, StoreTypeOK
  <2> QED
    BY <2>1, <2>2, <2>3 DEF AttachNoted
<1>7. ASSUME NEW id \in IDs, IsAutomatic(id)'
      PROVE  HeldNow(id)'
  <2> DEFINE q == intents[id].PolicyID
  <2>1. /\ IsAutomatic(id) /\ q \in Policies /\ intents'[id].PolicyID = q
        /\ intents'[id].RunID = intents[id].RunID /\ intents[id] \in IntentRecord
        /\ HeldNow(id) /\ AttachNoted(id)
        /\ attachedAt' = attachedAt /\ releasedAt' = releasedAt
    BY <1>5, <1>7 DEF historyVars
  <2>2. CASE q # p
    <3>1. id \notin ToHold(p)
      BY <1>1, <2>2, MembersExist DEF ToHold
    <3>2. intents'[id] = intents[id]
      BY <3>1 DEF AppendPolicyTransition, WithHolds
    <3>3. policies'[q] = policies[q]
      BY <1>3, <2>1, <2>2
    <3> QED
      BY <2>1, <3>2, <3>3 DEF HeldNow
  <2>3. CASE q = p /\ t.Kind \notin StopKinds
    BY <1>4, <2>1, <2>3 DEF HeldNow
  <2>4. CASE q = p /\ t.Kind \in StopKinds
    <3>1. CASE intents[id].RunID # Nil
      <4>1. attachedAt[id] \in Nat /\ attachedAt[id] <= n
        BY <2>1, <2>4, <3>1 DEF AttachNoted
      <4>2. attachedAt'[id] < policies'[p].Seq
        BY <1>1, <1>4, <2>1, <4>1
      <4> QED
        BY <2>1, <2>4, <3>1, <4>2 DEF HeldNow
    <3>2. CASE intents[id].RunID = Nil
      <4>1. id \in ToHold(p) \/ intents[id].Blockers["POLICY_DISABLE"] = "BLOCKED"
        BY <1>1, <2>1, <2>4, <3>2, StopHolds
      <4>2. intents' = WithHolds(p)
        BY <2>4 DEF AppendPolicyTransition
      <4>3. CASE id \in ToHold(p)
        <5>1. intents'[id] = [intents[id] EXCEPT !.Blockers["POLICY_DISABLE"] = "BLOCKED"]
          BY <4>2, <4>3 DEF WithHolds
        <5>2. intents'[id].Blockers["POLICY_DISABLE"] = "BLOCKED"
          BY <2>1, <5>1, PolicyDisableIsAnOwner DEF IntentRecord, Blockers
        <5> QED
          BY <5>2 DEF HeldNow
      <4>4. CASE id \notin ToHold(p)
        <5>1. intents'[id] = intents[id]
          BY <4>2, <4>4 DEF WithHolds
        <5> QED
          BY <4>1, <4>4, <5>1 DEF HeldNow
      <4> QED
        BY <4>3, <4>4
    <3> QED
      BY <3>1, <3>2
  <2> QED
    BY <2>2, <2>3, <2>4
<1>8. HeldUntilReleased'
  BY <1>7 DEF HeldUntilReleased, HeldNow
<1>9. AttachedInLog'
  BY <1>6 DEF AttachedInLog, AttachNoted
<1> QED
  BY <1>8, <1>9

(* Both appends, of EnablePolicy and of stopPolicy. *)
LEMMA AppendKeepsStore ==
  ASSUME StoreHalf, NEW p \in Policies, NEW t \in PolicyTransition,
         NEW hold \in BOOLEAN, t.Kind \in StopKinds => hold,
         NEW n, n = Len(policyLogs[p]), LegalNext(policies[p], t),
         AppendPolicyTransition(p, n, t, hold), UNCHANGED <<committed, historyVars>>
  PROVE  StoreHalf' /\ Grows
<1>1. n \in Nat /\ StoreTypeOK /\ IndexesAgree /\ PoliciesRecorded /\ LifecycleLegal
  BY LenTyped DEF StoreHalf
<1>2. StoreTypeOK' /\ IndexesAgree' /\ SameButBlockers /\ LogsGrow
  BY <1>1, AppendKeeps, AppendOnlyBlockers, AppendGrowsLogs
<1>3. FrozenStep /\ ops' = ops /\ \A id \in IDs : Exists(id)' => Exists(id)
  BY <1>2, BlockersKeepFrozen DEF SameButBlockers, Exists
<1>4. Grows
  BY <1>1, <1>2, <1>3, FrozenGrows
<1>5. AdmissionHalf'
  BY <1>1, <1>2, <1>3, AdmissionKept DEF StoreHalf, AdmissionHalf, historyVars
<1>6. PoliciesRecorded' /\ LifecycleLegal'
  BY <1>1, AppendLegal
<1>7. HeldUntilReleased' /\ AttachedInLog'
  BY <1>2, AppendHolds
<1>8. HistoryTypeOK'
  BY DEF StoreHalf, HistoryTypeOK, historyVars
<1> QED
  BY <1>2, <1>4, <1>5, <1>6, <1>7, <1>8 DEF StoreHalf, AdmissionHalf

LEMMA EnableAppendKeepsStore ==
  ASSUME ServiceInv, NEW c \in Callers, EnableAppend(c)
  PROVE  StoreHalf' /\ Grows
<1> DEFINE p == req[c].PolicyID
           t == Opening(seen[c], req[c].Frontier)
<1>1. /\ pc[c] = "append" /\ req[c].Call = "EnablePolicy"
      /\ AppendPolicyTransition(p, seen[c].Seq, t, FALSE)
      /\ UNCHANGED <<committed, historyVars>>
  BY DEF EnableAppend, At
<1>2. p \in Policies /\ req[c].Frontier \in Positions /\ OfPolicy(req[c])
  BY <1>1, CallKnown, RequestTyped DEF ServiceInv, OfPolicy, PolicyCalls
<1>3. seen[c].Seq = Len(policyLogs[p]) /\ seen[c] \in PolicyRecord
  BY <1>1 DEF AppendPolicyTransition, SeqIsCurrent, ServiceInv, CallTypeOK
<1>4. seen[c] = policies[p]
  BY <1>1, <1>2, <1>3 DEF ServiceInv, CallsInv, CallInv, SeenInLog
<1>5. LegalNext(seen[c], t)
  BY <1>1 DEF ServiceInv, CallsInv, CallInv, AppendsLegally, Appends
<1>6. t \in PolicyTransition /\ t.Kind \notin StopKinds
  BY <1>2, <1>3 DEF Opening, PolicyTransition, PolicyRecord, OpeningKinds, StopKinds
<1> HIDE DEF t, p
<1> QED
  BY <1>1, <1>2, <1>3, <1>4, <1>5, <1>6, AppendKeepsStore DEF ServiceInv

LEMMA StopAppendKeepsStore ==
  ASSUME ServiceInv, NEW c \in Callers, StopAppend(c)
  PROVE  StoreHalf' /\ Grows
<1> DEFINE p == req[c].PolicyID
           t == Closing(req[c], seen[c])
<1>1. /\ pc[c] = "append" /\ req[c].Call \in {"DisablePolicy", "RetirePolicy"}
      /\ AppendPolicyTransition(p, seen[c].Seq, t, TRUE)
      /\ UNCHANGED <<committed, historyVars>>
  BY DEF StopAppend, StopCalls
<1>2. p \in Policies /\ OfPolicy(req[c])
  BY <1>1, CallKnown, RequestTyped DEF ServiceInv, OfPolicy, PolicyCalls
<1>3. seen[c].Seq = Len(policyLogs[p]) /\ seen[c] \in PolicyRecord
  BY <1>1 DEF AppendPolicyTransition, SeqIsCurrent, ServiceInv, CallTypeOK
<1>4. seen[c] = policies[p]
  BY <1>1, <1>2, <1>3 DEF ServiceInv, CallsInv, CallInv, SeenInLog
<1>5. LegalNext(seen[c], t)
  BY <1>1 DEF ServiceInv, CallsInv, CallInv, AppendsLegally, Appends
<1>6. t \in PolicyTransition
  BY <1>3 DEF Closing, PolicyTransition, PolicyRecord, OpeningKinds, StopKinds
<1> HIDE DEF t, p
<1> QED
  BY <1>1, <1>2, <1>3, <1>4, <1>5, <1>6, AppendKeepsStore DEF ServiceInv

(***************************************************************************)
(* The creates.                                                            *)
(***************************************************************************)
LEMMA FreshOnly ==
  ASSUME StoreTypeOK, NEW id \in IDs, NEW new, intents' = [intents EXCEPT ![id] = new]
  PROVE  intents'[id] = new /\ \A other \in IDs \ {id} : intents'[other] = intents[other]
  BY DEF StoreTypeOK

LEMMA ExplicitCreateKeepsStore ==
  ASSUME ServiceInv, NEW c \in Callers, NEW id \in IDs, ExplicitCreate(c, id)
  PROVE  StoreHalf' /\ Grows
<1> DEFINE draft == DraftOf(req[c])
           new == [draft EXCEPT !.ID = id]
<1>1. /\ pc[c] = "create" /\ req[c].Call = "CreateExplicit"
      /\ CreateExplicit(draft, id) /\ UNCHANGED <<committed, historyVars>>
  BY DEF ExplicitCreate, At
<1>2. /\ req[c].OperationID \in OperationIDs /\ req[c].Subject \in Subjects
      /\ req[c].PipelineRevision \in PipelineRevisions
      /\ req[c].PipelineRevision \in committed
  BY <1>1, CallKnown, RequestTyped DEF ServiceInv, CallsInv, CallInv, RevisionRead
<1>3. draft \in IntentRecord /\ draft.OperationID = req[c].OperationID
  BY <1>2 DEF DraftOf, ExplicitDraft, IntentRecord, Origins, Blockers, NoBlockers, BlockerStates
<1>4. /\ new.Origin = "EXPLICIT" /\ new.PipelineRevision = req[c].PipelineRevision
  BY DEF DraftOf, ExplicitDraft
<1> HIDE DEF draft
<1>5. /\ ~Exists(id) /\ intents' = [intents EXCEPT ![id] = new]
      /\ ops[draft.OperationID] = Nil /\ ops' = [ops EXCEPT ![draft.OperationID] = id]
      /\ UNCHANGED policyVars
  BY <1>1 DEF CreateExplicit
<1> HIDE DEF new
<1>6. StoreTypeOK /\ IndexesAgree /\ AdmissionHalf
  BY DEF ServiceInv, StoreHalf, AdmissionHalf
<1>7. StoreTypeOK' /\ IndexesAgree'
  BY <1>1, <1>3, <1>6, CreateExplicitTyped, CreateExplicitIndexed
<1>8. FrozenStep
  BY <1>5, <1>6, FreshKeepsFrozen
<1>9. LogsGrow /\ policyLogs' = policyLogs /\ policies' = policies
  BY <1>5, <1>6, LogsKept DEF policyVars
<1>10. \A o \in OperationIDs : ops[o] # Nil => ops'[o] = ops[o]
  BY <1>3, <1>5, <1>6 DEF StoreTypeOK
<1>11. Grows
  BY <1>1, <1>6, <1>7, <1>8, <1>9, <1>10, FrozenGrows
<1>12. intents'[id] = new /\ \A other \in IDs \ {id} : intents'[other] = intents[other]
  BY <1>5, <1>6, FreshOnly
<1>13. ASSUME NEW other \in IDs, IsAutomatic(other)'
       PROVE  other # id /\ IsAutomatic(other) /\ intents'[other] = intents[other]
  BY <1>4, <1>12, <1>13 DEF IsAutomatic, Exists
<1>14. UNCHANGED <<facts, admittedAt, attachedAt, releasedAt>>
  BY <1>1 DEF historyVars
<1>15. OnCommittedRevisions'
  BY <1>1, <1>2, <1>4, <1>12 DEF ServiceInv, StoreHalf, OnCommittedRevisions, Exists
<1>16. AutomaticHasPolicy'
  BY <1>13 DEF ServiceInv, StoreHalf, AutomaticHasPolicy
<1>17. AdmittedAfterFrontier'
  BY <1>9, <1>13, <1>14 DEF ServiceInv, StoreHalf, AdmittedAfterFrontier
<1>18. AttachedInLog' /\ HeldUntilReleased'
  BY <1>9, <1>13, <1>14 DEF ServiceInv, StoreHalf, AttachedInLog, HeldUntilReleased
<1>19. PoliciesRecorded' /\ LifecycleLegal' /\ HistoryTypeOK'
  BY <1>1, <1>9, <1>14 DEF ServiceInv, StoreHalf, PoliciesRecorded, LifecycleLegal, HistoryTypeOK
<1> QED
  BY <1>7, <1>11, <1>15, <1>16, <1>17, <1>18, <1>19 DEF StoreHalf

(* The one step that makes an automatic intent: the policy is ACTIVE in the
   epoch the gate was passed in, so the epoch's opening entry is the log's
   last and its frontier is at or after every earlier one.                 *)
LEMMA OpenEpochIsLast ==
  ASSUME StoreHalf, NEW p \in Policies, policies[p].Seq # 0, policies[p].State = "ACTIVE",
         NEW i \in 1..Len(policyLogs[p]), IsOpening(policyLogs[p][i]),
         policyLogs[p][i].Epoch = policies[p].Epoch
  PROVE  /\ i = Len(policyLogs[p])
         /\ \A j \in 1..Len(policyLogs[p]) : IsOpening(policyLogs[p][j]) =>
              \/ policyLogs[p][j].Frontier = policyLogs[p][i].Frontier
              \/ After(policyLogs[p][i].Frontier, policyLogs[p][j].Frontier)
<1> DEFINE log == policyLogs[p]
           n == Len(log)
<1>1. /\ StoreTypeOK /\ PoliciesRecorded /\ LifecycleLegal
      /\ RecordOf(log, policies[p]) /\ EpochsGrow(log)
  BY DEF StoreHalf, PoliciesRecorded
<1>2. /\ n \in 1..n /\ IsOpening(log[n]) /\ log # <<>>
      /\ log \in Seq(PolicyTransition) /\ n \in Nat
  BY <1>1, RecordActive, LenTyped DEF LastOf
<1>3. log[n].Epoch = policies[p].Epoch /\ log[n].Frontier = policies[p].Frontier
  BY <1>1, <1>2 DEF RecordOf, LastOf
<1>4. log[n].Epoch \in Nat
  <2>1. log[n] \in PolicyTransition
    BY <1>2
  <2> QED
    BY <2>1 DEF PolicyTransition
<1>5. i = n
  <2> SUFFICES ASSUME i # n PROVE FALSE
    OBVIOUS
  <2>1. i < n
    BY <1>2
  <2>2. log[i].Epoch < log[n].Epoch
    BY <1>1, <1>2, <2>1 DEF EpochsGrow
  <2> QED
    BY <1>3, <1>4, <2>2
<1>6. \A j \in 1..n : IsOpening(log[j]) =>
        log[j].Frontier = log[n].Frontier \/ After(log[n].Frontier, log[j].Frontier)
  BY <1>1, <1>3 DEF RecordOf, FrontierValid, Comparable, After
<1> QED
  BY <1>5, <1>6

LEMMA AdmitCreateKeepsStore ==
  ASSUME ServiceInv, NEW c \in Callers, NEW id \in IDs, AdmitCreate(c, id)
  PROVE  StoreHalf' /\ Grows
<1> DEFINE r == req[c]
           p == r.PolicyID
           draft == AdmitDraft(r, seen[c].Epoch)
           new == [draft EXCEPT !.ID = id]
<1>1. /\ pc[c] = "create" /\ r.Call = "AdmitAutomatic"
      /\ CreateAutomaticAdmitted(draft, seen[c].Epoch, id)
      /\ facts' = [facts EXCEPT ![id] = r.Facts]
      /\ admittedAt' = [admittedAt EXCEPT ![id] = Len(policyLogs[p])]
      /\ UNCHANGED <<committed, attachedAt, releasedAt>>
  BY DEF AdmitCreate, At
<1>2. /\ p \in Policies /\ r.PolicyRevision \in PolicyRevisions /\ r.Subject \in Subjects
      /\ r.PipelineRevision \in PipelineRevisions /\ r.PipelineRevision \in committed
      /\ r.Facts \in Facts /\ OfPolicy(r)
  BY <1>1, CallKnown, RequestTyped
     DEF ServiceInv, CallsInv, CallInv, RevisionRead, OfPolicy
<1>3. seen[c].Epoch \in Nat
  BY DEF ServiceInv, CallTypeOK, PolicyRecord
<1>4. draft \in IntentRecord
  BY <1>2, <1>3 DEF AdmitDraft, AutomaticDraft, IntentRecord, Origins, Blockers, NoBlockers,
     BlockerStates
<1>5. /\ draft.Origin = "AUTOMATIC" /\ draft.PolicyID = p /\ draft.RunID = Nil
      /\ new.Origin = "AUTOMATIC" /\ new.PolicyID = p /\ new.RunID = Nil
      /\ new.PipelineRevision = r.PipelineRevision /\ new.AdmissionEpoch = seen[c].Epoch
  BY DEF AdmitDraft, AutomaticDraft
<1> HIDE DEF draft
<1>6. /\ PolicyIsCurrent(p, seen[c].Epoch) /\ CreateAutomatic(draft, id)
      /\ ~Exists(id) /\ intents' = [intents EXCEPT ![id] = new]
      /\ ops' = ops /\ UNCHANGED policyVars
  BY <1>1, <1>5 DEF CreateAutomaticAdmitted, CreateAutomatic
<1> HIDE DEF new
<1>7. /\ StoreTypeOK /\ IndexesAgree /\ StoreHalf
      /\ policies[p].Seq # 0 /\ policies[p].State = "ACTIVE" /\ policies[p].Epoch = seen[c].Epoch
  BY <1>6 DEF ServiceInv, StoreHalf, PolicyIsCurrent, PolicyFound
<1>8. StoreTypeOK' /\ IndexesAgree'
  BY <1>2, <1>4, <1>5, <1>6, <1>7, CreateAutomaticTyped, CreateAutomaticIndexed
<1>9. LogsGrow /\ policyLogs' = policyLogs /\ policies' = policies
  BY <1>6, <1>7, LogsKept DEF policyVars
<1>10. Grows
  BY <1>1, <1>6, <1>7, <1>8, <1>9, FreshKeepsFrozen, FrozenGrows
<1>11. intents'[id] = new /\ \A other \in IDs \ {id} : intents'[other] = intents[other]
  BY <1>6, <1>7, FreshOnly
<1>12. /\ Len(policyLogs[p]) \in Nat
       /\ facts'[id] = r.Facts /\ admittedAt'[id] = Len(policyLogs[p])
       /\ \A other \in IDs \ {id} :
            facts'[other] = facts[other] /\ admittedAt'[other] = admittedAt[other]
  BY <1>1, <1>2, <1>7, LenTyped DEF StoreHalf, HistoryTypeOK
<1>13. HistoryTypeOK'
  BY <1>1, <1>2, <1>12 DEF ServiceInv, StoreHalf, HistoryTypeOK
<1>14. ASSUME NEW other \in IDs \ {id}, IsAutomatic(other)'
       PROVE  IsAutomatic(other) /\ intents'[other] = intents[other]
  BY <1>11, <1>14 DEF IsAutomatic, Exists
<1>15. OnCommittedRevisions' /\ AutomaticHasPolicy'
  <2>1. OnCommittedRevisions'
    BY <1>1, <1>2, <1>5, <1>11 DEF ServiceInv, StoreHalf, OnCommittedRevisions, Exists
  <2>2. AutomaticHasPolicy'
    BY <1>2, <1>5, <1>11, <1>14 DEF ServiceInv, StoreHalf, AutomaticHasPolicy
  <2> QED
    BY <2>1, <2>2
<1>16. AdmittedWhile(id)'
  <2> DEFINE log == policyLogs[p]
  <2>1. /\ r.Facts.Class = "NEW" /\ After(r.Facts.Position, seen[c].Frontier)
        /\ \E i \in 1..Len(log) :
             IsOpening(log[i]) /\ log[i].Epoch = seen[c].Epoch /\ log[i].Frontier = seen[c].Frontier
    BY <1>1 DEF ServiceInv, CallsInv, CallInv, PassedGate
  <2>2. PICK i \in 1..Len(log) :
          IsOpening(log[i]) /\ log[i].Epoch = seen[c].Epoch /\ log[i].Frontier = seen[c].Frontier
    BY <2>1
  <2>3. /\ i = Len(log)
        /\ \A j \in 1..Len(log) : IsOpening(log[j]) =>
             log[j].Frontier = log[i].Frontier \/ After(log[i].Frontier, log[j].Frontier)
    BY <1>2, <1>7, <2>2, OpenEpochIsLast
  <2>4. \A j \in 1..Len(log) : IsOpening(log[j]) => After(r.Facts.Position, log[j].Frontier)
    <3> SUFFICES ASSUME NEW j \in 1..Len(log), IsOpening(log[j])
                 PROVE  After(r.Facts.Position, log[j].Frontier)
      OBVIOUS
    <3>1. log[j].Frontier = seen[c].Frontier \/ After(seen[c].Frontier, log[j].Frontier)
      BY <2>2, <2>3
    <3> QED
      BY <2>1, <3>1, PublicationOrder DEF After
  <2>5. r.Facts # Nil /\ Len(log) # Nil
    BY <1>2, <1>12, NilIsNoHistory
  <2>6. policyLogs'[intents'[id].PolicyID] = log /\ intents'[id].AdmissionEpoch = seen[c].Epoch
    BY <1>5, <1>9, <1>11
  <2> HIDE DEF log
  <2>7. facts'[id] = r.Facts /\ admittedAt'[id] = Len(log)
    BY <1>12 DEF log
  <2> QED
    BY <2>1, <2>2, <2>3, <2>4, <2>5, <2>6, <2>7 DEF AdmittedWhile
<1>17. AdmittedAfterFrontier'
  <2>1. ASSUME NEW other \in IDs \ {id}, IsAutomatic(other)'
        PROVE  AdmittedWhile(other)'
    <3>1. IsAutomatic(other) /\ intents'[other] = intents[other] /\ AdmittedWhile(other)
      BY <1>7, <1>14, <2>1, AdmittedIsEach DEF StoreHalf
    <3> QED
      BY <1>9, <1>12, <3>1 DEF AdmittedWhile
  <2> QED
    BY <1>16, <2>1 DEF AdmittedAfterFrontier, AdmittedWhile
<1>18. AttachedInLog'
  BY <1>1, <1>5, <1>9, <1>11, <1>14 DEF ServiceInv, StoreHalf, AttachedInLog
<1>19. HeldUntilReleased'
  BY <1>1, <1>5, <1>7, <1>9, <1>11, <1>14 DEF ServiceInv, StoreHalf, HeldUntilReleased
<1>20. PoliciesRecorded' /\ LifecycleLegal'
  BY <1>9 DEF ServiceInv, StoreHalf, PoliciesRecorded, LifecycleLegal
<1> QED
  BY <1>8, <1>10, <1>13, <1>15, <1>17, <1>18, <1>19, <1>20 DEF StoreHalf

(***************************************************************************)
(* The calls that are one store call, and the revision store's.            *)
(***************************************************************************)
LEMMA BlockerKeepsStore ==
  ASSUME StoreHalf, NEW id \in IDs, NEW o \in BlockerOwners, NEW b \in BlockerStates,
         UpdateBlocker(id, o, b), UNCHANGED <<committed, facts, admittedAt, attachedAt>>,
         releasedAt' = releasedAt \/ releasedAt' = [releasedAt EXCEPT ![id] = LogLength(id)],
         o = "POLICY_DISABLE" /\ b = "CLEAR" =>
           releasedAt' = [releasedAt EXCEPT ![id] = LogLength(id)]
  PROVE  StoreHalf' /\ Grows
<1>1. StoreTypeOK /\ IndexesAgree /\ AutomaticHasPolicy /\ PoliciesRecorded
  BY DEF StoreHalf
<1>2. StoreTypeOK' /\ IndexesAgree' /\ SameButBlockers
  BY <1>1, UpdateBlockerTyped, UpdateBlockerIndexed, UpdateBlockerOnly
<1>3. LogsGrow /\ policyLogs' = policyLogs /\ policies' = policies
  BY <1>1, LogsKept DEF UpdateBlocker, policyVars
<1>4. FrozenStep /\ ops' = ops /\ \A x \in IDs : Exists(x)' => Exists(x)
  BY <1>2, BlockersKeepFrozen DEF SameButBlockers, Exists
<1>5. Grows
  BY <1>1, <1>2, <1>3, <1>4, FrozenGrows
<1>6. AdmissionHalf'
  BY <1>1, <1>2, <1>3, <1>4, AdmissionKept DEF StoreHalf, AdmissionHalf
<1>7. LogLength(id) \in Nat
  <2>1. IsAutomatic(id) => Len(policyLogs[intents[id].PolicyID]) \in Nat
    BY <1>1, LenTyped DEF AutomaticHasPolicy
  <2> QED
    BY <2>1 DEF LogLength
<1>8. HistoryTypeOK'
  BY <1>7 DEF StoreHalf, HistoryTypeOK
<1>9. ASSUME NEW x \in IDs, IsAutomatic(x)'
      PROVE  /\ IsAutomatic(x) /\ intents[x].PolicyID \in Policies
             /\ intents'[x].PolicyID = intents[x].PolicyID
             /\ intents'[x].RunID = intents[x].RunID
             /\ HeldNow(x) /\ AttachNoted(x)
  <2>1. Exists(x) /\ intents'[x].RunID = intents[x].RunID
    BY <1>2, <1>9 DEF SameButBlockers, IsAutomatic, Exists
  <2>2. intents'[x].Origin = intents[x].Origin /\ intents'[x].PolicyID = intents[x].PolicyID
    BY <1>1, <1>2, <1>4, <2>1, FrozenKeepsFields
  <2>3. IsAutomatic(x)
    BY <1>9, <2>1, <2>2 DEF IsAutomatic
  <2> QED
    BY <1>1, <2>1, <2>2, <2>3, HeldIsEach DEF AutomaticHasPolicy, StoreHalf
<1>10. AttachedInLog'
  BY <1>3, <1>9 DEF AttachedInLog, AttachNoted
<1>11. ASSUME NEW x \in IDs, IsAutomatic(x)'
       PROVE  HeldNow(x)'
  <2>1. x # id => intents'[x] = intents[x] /\ releasedAt'[x] = releasedAt[x]
    BY DEF UpdateBlocker, StoreHalf, StoreTypeOK, HistoryTypeOK
  <2>2. CASE x # id
    BY <1>3, <1>9, <1>11, <2>1, <2>2 DEF HeldNow
  <2>3. CASE x = id /\ o # "POLICY_DISABLE"
    <3>1. intents[id] \in IntentRecord
      BY <1>1, <1>9, <1>11, <2>3 DEF StoreTypeOK, IsAutomatic, Exists
    <3>2. intents'[id] = [intents[id] EXCEPT !.Blockers[o] = b]
      BY <1>1 DEF UpdateBlocker, StoreTypeOK
    <3>3. intents'[id].Blockers["POLICY_DISABLE"] = intents[id].Blockers["POLICY_DISABLE"]
      BY <2>3, <3>1, <3>2, PolicyDisableIsAnOwner DEF IntentRecord, Blockers
    <3>4. /\ HeldNow(id) /\ intents'[id].PolicyID = intents[id].PolicyID
          /\ intents'[id].RunID = intents[id].RunID /\ IsAutomatic(id)
          /\ intents[id].PolicyID \in Policies
      BY <1>9, <1>11, <2>3
    <3>5. policies[intents[id].PolicyID].Seq = LogLength(id)
      BY <3>4 DEF StoreHalf, PoliciesRecorded, RecordOf, LogLength
    <3>6. releasedAt'[id] = releasedAt[id]
          \/ (releasedAt'[id] # Nil /\ releasedAt'[id] = policies[intents[id].PolicyID].Seq)
      BY <1>7, <3>5, NilIsNoHistory DEF StoreHalf, HistoryTypeOK
    <3> QED
      BY <1>3, <2>3, <3>3, <3>4, <3>6 DEF HeldNow
  <2>4. CASE x = id /\ o = "POLICY_DISABLE" /\ b # "CLEAR"
    <3>1. intents[id] \in IntentRecord
      BY <1>1, <1>9, <1>11, <2>4 DEF StoreTypeOK, IsAutomatic, Exists
    <3>2. intents'[id] = [intents[id] EXCEPT !.Blockers[o] = b]
      BY <1>1 DEF UpdateBlocker, StoreTypeOK
    <3>3. intents'[id].Blockers["POLICY_DISABLE"] # "CLEAR"
      BY <2>4, <3>1, <3>2, PolicyDisableIsAnOwner DEF IntentRecord, Blockers
    <3> QED
      BY <2>4, <3>3 DEF HeldNow
  <2>5. CASE x = id /\ o = "POLICY_DISABLE" /\ b = "CLEAR"
    <3>1. IsAutomatic(id) /\ intents[id].PolicyID \in Policies
          /\ intents'[id].PolicyID = intents[id].PolicyID
      BY <1>9, <1>11, <2>5
    <3>2. policies[intents[id].PolicyID].Seq = LogLength(id)
      BY <3>1 DEF StoreHalf, PoliciesRecorded, RecordOf, LogLength
    <3>3. releasedAt'[id] = LogLength(id) /\ releasedAt'[id] # Nil
      BY <1>7, <2>5, NilIsNoHistory DEF StoreHalf, HistoryTypeOK
    <3> QED
      BY <1>3, <2>5, <3>1, <3>2, <3>3 DEF HeldNow
  <2> QED
    BY <2>2, <2>3, <2>4, <2>5
<1>12. HeldUntilReleased'
  BY <1>11 DEF HeldUntilReleased, HeldNow
<1>13. PoliciesRecorded' /\ LifecycleLegal'
  BY <1>3 DEF StoreHalf, PoliciesRecorded, LifecycleLegal
<1> QED
  BY <1>2, <1>5, <1>6, <1>8, <1>10, <1>12, <1>13 DEF StoreHalf, AdmissionHalf

LEMMA UpdateBlockerKeepsStore ==
  ASSUME StoreHalf, NEW id \in IDs, NEW u \in BlockerUpdates,
         ServiceUpdateBlocker(id, u.Owner, u.State)
  PROVE  StoreHalf' /\ Grows
<1>1. u.Owner \in BlockerOwners /\ u.State \in BlockerStates
  BY ServiceConstants
<1> QED
  BY <1>1, BlockerKeepsStore DEF ServiceUpdateBlocker

LEMMA AcceptanceBlockKeepsStore ==
  ASSUME ServiceInv, NEW c \in Callers, AcceptanceBlock(c)
  PROVE  StoreHalf' /\ Grows
<1>1. /\ pc[c] = "update" /\ req[c].Call = "RecordDisabledAcceptance"
      /\ UNCHANGED <<committed, historyVars>>
  BY DEF AcceptanceBlock, At
<1>2. req[c].ID \in IDs /\ StoreHalf /\ StoreTypeOK
  BY <1>1, CallKnown, RequestTyped DEF ServiceInv, StoreHalf
<1>3. CASE UpdateBlocker(req[c].ID, "POLICY_DISABLE", "BLOCKED")
  <2>1. "POLICY_DISABLE" \in BlockerOwners /\ "BLOCKED" \in BlockerStates
    BY PolicyDisableIsAnOwner DEF BlockerStates
  <2> QED
    BY <1>1, <1>2, <1>3, <2>1, BlockerKeepsStore DEF historyVars
<1>4. CASE UNCHANGED storeVars
  BY <1>1, <1>2, <1>4, ReadsGrow, ReadsKeepStore DEF Reads
<1> QED
  BY <1>3, <1>4 DEF AcceptanceBlock

LEMMA AttachKeepsStore ==
  ASSUME StoreHalf, NEW id \in IDs, NEW run \in RunIDs, ServiceAttachRunID(id, run)
  PROVE  StoreHalf' /\ Grows
<1>1. /\ AttachRunID(id, run) /\ attachedAt' = [attachedAt EXCEPT ![id] = LogLength(id)]
      /\ UNCHANGED <<committed, facts, admittedAt, releasedAt>>
  BY DEF ServiceAttachRunID
<1>2. StoreTypeOK /\ IndexesAgree /\ AutomaticHasPolicy
  BY DEF StoreHalf
<1>3. StoreTypeOK' /\ IndexesAgree' /\ FrozenStep
  BY <1>1, <1>2, AttachRunIDTyped, AttachRunIDIndexed, AttachKeepsFrozen
<1>4. LogsGrow /\ policyLogs' = policyLogs /\ policies' = policies /\ ops' = ops
  BY <1>1, <1>2, LogsKept DEF AttachRunID, policyVars
<1>5. Exists(id) /\ intents[id].RunID = Nil /\ intents[id] \in IntentRecord
  BY <1>1, <1>2 DEF AttachRunID, StoreTypeOK, Exists
<1>6. /\ intents'[id] = [intents[id] EXCEPT !.RunID = run]
      /\ \A x \in IDs \ {id} : intents'[x] = intents[x]
  BY <1>1, <1>2 DEF AttachRunID, StoreTypeOK
<1>7. \A x \in IDs : Exists(x)' => Exists(x)
  BY <1>5, <1>6 DEF Exists
<1>8. Grows
  BY <1>1, <1>2, <1>3, <1>4, FrozenGrows
<1>9. AdmissionHalf'
  BY <1>1, <1>2, <1>3, <1>4, <1>7, AdmissionKept DEF StoreHalf, AdmissionHalf
<1>10. LogLength(id) \in Nat
  <2>1. IsAutomatic(id) => Len(policyLogs[intents[id].PolicyID]) \in Nat
    BY <1>2, LenTyped DEF AutomaticHasPolicy
  <2> QED
    BY <2>1 DEF LogLength
<1>11. /\ HistoryTypeOK' /\ attachedAt'[id] = LogLength(id)
       /\ \A x \in IDs \ {id} : attachedAt'[x] = attachedAt[x]
  BY <1>1, <1>10 DEF StoreHalf, HistoryTypeOK
<1>12. /\ intents'[id].PolicyID = intents[id].PolicyID
       /\ intents'[id].Blockers = intents[id].Blockers
       /\ intents'[id].Origin = intents[id].Origin
  BY <1>5, <1>6 DEF IntentRecord
<1>13. ASSUME NEW x \in IDs, IsAutomatic(x)'
       PROVE  HeldNow(x)' /\ AttachNoted(x)'
  <2>1. IsAutomatic(x) /\ intents[x].PolicyID \in Policies
    BY <1>2, <1>5, <1>6, <1>12, <1>13 DEF IsAutomatic, Exists, AutomaticHasPolicy
  <2>2. HeldNow(x) /\ AttachNoted(x)
    BY <2>1, HeldIsEach DEF StoreHalf
  <2>3. CASE x # id
    BY <1>1, <1>4, <1>6, <1>11, <2>2, <2>3 DEF HeldNow, AttachNoted
  <2>4. CASE x = id
    <3>1. HeldNow(x)'
      BY <1>1, <1>4, <1>5, <1>12, <2>2, <2>4 DEF HeldNow
    <3>2. LogLength(id) = Len(policyLogs[intents[id].PolicyID])
      BY <2>1, <2>4 DEF LogLength
    <3>3. AttachNoted(x)'
      BY <1>4, <1>10, <1>11, <1>12, <2>4, <3>2 DEF AttachNoted
    <3> QED
      BY <3>1, <3>3
  <2> QED
    BY <2>3, <2>4
<1>14. HeldUntilReleased' /\ AttachedInLog'
  BY <1>13 DEF HeldUntilReleased, HeldNow, AttachedInLog, AttachNoted
<1>15. PoliciesRecorded' /\ LifecycleLegal'
  BY <1>4 DEF StoreHalf, PoliciesRecorded, LifecycleLegal
<1> QED
  BY <1>3, <1>8, <1>9, <1>11, <1>14, <1>15 DEF StoreHalf, AdmissionHalf

LEMMA CommitKeepsStore ==
  ASSUME StoreHalf, NEW rev \in PipelineRevisions, CommitRevision(rev)
  PROVE  StoreHalf' /\ Grows
<1>1. /\ committed' = committed \cup {rev} /\ UNCHANGED storeVars /\ UNCHANGED historyVars
  BY DEF CommitRevision
<1>2. UNCHANGED <<intents, auto, ops, runs, policyLogs, policies, facts,
                  admittedAt, attachedAt, releasedAt>>
  BY <1>1 DEF storeVars, historyVars
<1>3. StoreTypeOK' /\ HistoryTypeOK'
  BY <1>1, <1>2 DEF StoreHalf, StoreTypeOK, HistoryTypeOK
<1>4. IndexesAgree' /\ AutomaticHasPolicy' /\ OnCommittedRevisions'
  BY <1>1, <1>2 DEF StoreHalf, IndexesAgree, AutoIndexAgrees, LedgerAgrees, RunIndexAgrees,
     AutomaticHasPolicy, OnCommittedRevisions, IsAutomatic, Exists
<1>5. PoliciesRecorded' /\ LifecycleLegal'
  BY <1>2 DEF StoreHalf, PoliciesRecorded, LifecycleLegal
<1>6. AdmittedAfterFrontier' /\ AttachedInLog' /\ HeldUntilReleased'
  BY <1>2 DEF StoreHalf, AdmittedAfterFrontier, AttachedInLog, HeldUntilReleased,
     IsAutomatic, Exists
<1>7. Grows
  <2>1. LogsGrow
    BY <1>2, LogsKept DEF StoreHalf, policyVars
  <2> QED
    BY <1>1, <1>2, <2>1 DEF Grows
<1> QED
  BY <1>3, <1>4, <1>5, <1>6, <1>7 DEF StoreHalf

(***************************************************************************)
(* The invariant is inductive.                                             *)
(***************************************************************************)
LEMMA InitHolds == Init => ServiceInv
<1> SUFFICES ASSUME Init PROVE ServiceInv
  OBVIOUS
<1>1. StoreTypeOK /\ IndexesAgree
  BY InitTyped, InitIndexed DEF Init
<1>2. \A id \in IDs : ~Exists(id) /\ ~IsAutomatic(id)
  BY DEF Init, StoreInit, Exists, IsAutomatic
<1>3. HistoryTypeOK
  BY ServiceConstants DEF Init, HistoryTypeOK
<1>4. AutomaticHasPolicy /\ OnCommittedRevisions /\ AdmittedAfterFrontier
      /\ AttachedInLog /\ HeldUntilReleased
  BY <1>2 DEF AutomaticHasPolicy, OnCommittedRevisions, AdmittedAfterFrontier,
     AttachedInLog, HeldUntilReleased
<1>5. PoliciesRecorded /\ LifecycleLegal
  <2>1. ASSUME NEW p \in Policies
        PROVE  policyLogs[p] = <<>> /\ policies[p] = NoPolicy /\ Len(policyLogs[p]) = 0
    BY DEF Init, StoreInit
  <2>2. NoPolicy.Seq = 0 /\ 1..0 = {}
    BY DEF NoPolicy
  <2> QED
    BY <2>1, <2>2 DEF PoliciesRecorded, RecordOf, EpochsGrow, LifecycleLegal
<1>6. CallTypeOK
  <2>1. NoPolicy \in PolicyRecord /\ 0 \in 0..(MaxPolicyRetries - 1)
    BY ServiceConstants DEF NoPolicy, PolicyRecord
  <2> QED
    BY <2>1 DEF Init, CallTypeOK
<1>7. ASSUME NEW c \in Callers PROVE CallInv(c)
  <2>1. pc[c] = "idle" /\ tries[c] = 0
    BY DEF Init
  <2> QED
    BY <2>1 DEF CallInv, CallMatches, RevisionRead, SeenInLog, PassedGate, AppendsLegally,
       ExplicitAnswerMatches, Returned
<1> QED
  BY <1>1, <1>3, <1>4, <1>5, <1>6, <1>7 DEF ServiceInv, StoreHalf, CallsInv

(* A step of a call that only reads is one of these; the others write.     *)
LEMMA ReadKeeps ==
  ASSUME ServiceInv, Reads, NEW c \in Callers,
         \/ \E r \in Requests : Start(c, r)
         \/ Fail(c) \/ Finish(c)
         \/ AdmitLookup(c) \/ AdmitDecide(c) \/ RequireCommitted(c)
         \/ AdmitReplay(c) \/ AdmitStale(c) \/ \E id \in IDs : DuplicateID(c, id)
         \/ ExplicitLookup(c) \/ ExplicitLostRace(c)
         \/ EnableRead(c) \/ StopRead(c) \/ AppendStale(c) \/ AcceptanceGet(c)
  PROVE  ServiceInv'
<1>1. /\ StoreHalf /\ StoreTypeOK /\ PoliciesRecorded /\ CallTypeOK /\ CallsInv
      /\ StoreHalf' /\ StoreTypeOK' /\ Grows
  BY ReadsGrow, ReadsKeepStore DEF ServiceInv, StoreHalf
<1>2. CallTypeOK' /\ CallsInv'
  BY <1>1, StartKeeps, FailKeeps, FinishKeeps, AdmitLookupKeeps, AdmitDecideKeeps,
     RequireCommittedKeeps, AdmitReplayKeeps, AdmitStaleKeeps, DuplicateIDKeeps,
     ExplicitLookupKeeps, ExplicitLostRaceKeeps, EnableReadKeeps, StopReadKeeps,
     AppendStaleKeeps, AcceptanceGetKeeps
<1> QED
  BY <1>1, <1>2 DEF ServiceInv

LEMMA WriteKeeps ==
  ASSUME ServiceInv, NEW c \in Callers,
         \/ \E id \in IDs : AdmitCreate(c, id)
         \/ \E id \in IDs : ExplicitCreate(c, id)
         \/ EnableAppend(c) \/ StopAppend(c) \/ AcceptanceBlock(c)
  PROVE  ServiceInv'
<1>1. StoreHalf' /\ Grows
  BY AdmitCreateKeepsStore, ExplicitCreateKeepsStore, EnableAppendKeepsStore,
     StopAppendKeepsStore, AcceptanceBlockKeepsStore
<1>2. StoreTypeOK /\ StoreTypeOK' /\ CallTypeOK /\ CallsInv
  BY <1>1 DEF ServiceInv, StoreHalf
<1>3. CallTypeOK' /\ CallsInv'
  BY <1>1, <1>2, AdmitCreateKeeps, ExplicitCreateKeeps, EnableAppendKeeps, StopAppendKeeps,
     AcceptanceBlockKeeps
<1> QED
  BY <1>1, <1>3 DEF ServiceInv

LEMMA EnvironmentKeeps ==
  ASSUME ServiceInv, UNCHANGED callVars, StoreHalf', Grows
  PROVE  ServiceInv'
<1>1. StoreTypeOK /\ StoreTypeOK' /\ CallTypeOK /\ CallsInv
  BY DEF ServiceInv, StoreHalf
<1> QED
  BY <1>1, AllRest DEF ServiceInv

LEMMA StepKeeps == ServiceInv /\ [Next]_vars => ServiceInv'
<1> SUFFICES ASSUME ServiceInv, [Next]_vars
             PROVE  ServiceInv'
  OBVIOUS
<1>1. ASSUME NEW c \in Callers, NEW r \in Requests, Start(c, r)
      PROVE  ServiceInv'
  BY <1>1, ReadKeeps DEF Start
<1>2. ASSUME NEW c \in Callers, Fail(c) \/ Finish(c)
      PROVE  ServiceInv'
  BY <1>2, ReadKeeps DEF Fail, Finish
<1>3. ASSUME NEW c \in Callers, Advance(c)
      PROVE  ServiceInv'
  <2>1. CASE \/ AdmitLookup(c) \/ AdmitDecide(c) \/ RequireCommitted(c)
             \/ AdmitReplay(c) \/ AdmitStale(c) \/ \E id \in IDs : DuplicateID(c, id)
    <3>1. Reads
      BY <2>1 DEF AdmitLookup, AdmitDecide, RequireCommitted, AdmitReplay, AdmitStale, DuplicateID
    <3> QED
      BY <2>1, <3>1, ReadKeeps
  <2>2. CASE \/ ExplicitLookup(c) \/ ExplicitLostRace(c) \/ EnableRead(c) \/ StopRead(c)
             \/ AppendStale(c) \/ AcceptanceGet(c)
    <3>1. Reads
      BY <2>2 DEF ExplicitLookup, ExplicitLostRace, EnableRead, StopRead, AppendStale, AcceptanceGet
    <3> QED
      BY <2>2, <3>1, ReadKeeps
  <2>3. CASE \/ \E id \in IDs : AdmitCreate(c, id)
             \/ \E id \in IDs : ExplicitCreate(c, id)
             \/ EnableAppend(c) \/ StopAppend(c) \/ AcceptanceBlock(c)
    BY <2>3, WriteKeeps
  <2> QED
    BY <1>3, <2>1, <2>2, <2>3 DEF Advance
<1>4. ASSUME NEW id \in IDs, NEW run \in RunIDs, ServiceAttachRunID(id, run)
      PROVE  ServiceInv'
  BY <1>4, AttachKeepsStore, EnvironmentKeeps DEF ServiceAttachRunID, ServiceInv
<1>5. ASSUME NEW id \in IDs, NEW u \in BlockerUpdates, ServiceUpdateBlocker(id, u.Owner, u.State)
      PROVE  ServiceInv'
  BY <1>5, UpdateBlockerKeepsStore, EnvironmentKeeps DEF ServiceUpdateBlocker, ServiceInv
<1>6. ASSUME NEW rev \in PipelineRevisions, CommitRevision(rev)
      PROVE  ServiceInv'
  BY <1>6, CommitKeepsStore, EnvironmentKeeps DEF CommitRevision, ServiceInv
<1>7. CASE UNCHANGED vars
  <2>1. Reads /\ UNCHANGED callVars
    BY <1>7 DEF vars, Reads
  <2> QED
    BY <2>1, ReadsGrow, ReadsKeepStore, EnvironmentKeeps DEF ServiceInv, StoreHalf
<1> QED
  BY <1>1, <1>2, <1>3, <1>4, <1>5, <1>6, <1>7 DEF Next

LEMMA ServiceKeepsInv == Spec => []ServiceInv
  BY InitHolds, StepKeeps, PTL DEF Spec

(***************************************************************************)
(* What the service promises.                                              *)
(***************************************************************************)

(* Every reachable state of the service is well typed; in particular no call
   ever counts as many retries as it may make.                             *)
THEOREM ServiceTypeCorrect == Spec => []ServiceTypeOK
<1>1. ServiceInv => ServiceTypeOK
  BY DEF ServiceInv, StoreHalf, HistoryTypeOK, CallTypeOK, ServiceTypeOK
<1> QED
  BY <1>1, ServiceKeepsInv, PTL

(* The three indexes agree with the intents under concurrent calls too. *)
THEOREM ServiceIndexesAgree == Spec => []IndexesAgree
<1>1. ServiceInv => IndexesAgree
  BY DEF ServiceInv, StoreHalf
<1> QED
  BY <1>1, ServiceKeepsInv, PTL

(* No intent is created on a revision that is not committed: the read of
   GetRevision comes before every create of its call, retries included.    *)
THEOREM IntentsOnCommitted == Spec => []OnCommittedRevisions
<1>1. ServiceInv => OnCommittedRevisions
  BY DEF ServiceInv, StoreHalf
<1> QED
  BY <1>1, ServiceKeepsInv, PTL

(* Every lifecycle log is legal however the writers interleave: the
   compare-and-append of EnablePolicy and stopPolicy writes only what was
   decided on the very record it extends.                                  *)
THEOREM LifecyclesAreLegal == Spec => []LifecycleLegal
<1>1. ServiceInv => LifecycleLegal
  BY DEF ServiceInv, StoreHalf
<1> QED
  BY <1>1, ServiceKeepsInv, PTL

(* AdmitAutomatic admits only publications after the frontier of the epoch
   that is open when the intent is recorded, and of every earlier one.     *)
THEOREM AdmissionsAfterFrontier == Spec => []AdmittedAfterFrontier
<1>1. ServiceInv => AdmittedAfterFrontier
  BY DEF ServiceInv, StoreHalf
<1> QED
  BY <1>1, ServiceKeepsInv, PTL

(* A stop leaves no intent of its policy unheld, but for those with a RunID
   of before and those whose hold was released since.                      *)
THEOREM StoppedPoliciesHold == Spec => []HeldUntilReleased
<1>1. ServiceInv => HeldUntilReleased
  BY DEF ServiceInv, StoreHalf
<1> QED
  BY <1>1, ServiceKeepsInv, PTL

(* An EnablePolicy, stopPolicy or AdmitAutomatic that gives up as stale lost
   each of its MaxPolicyRetries attempts to a transition of another caller. *)
THEOREM StaleMeansProgress == Spec => []StaleNeedsProgress
<1>1. ServiceInv => StaleNeedsProgress
  <2> SUFFICES ASSUME ServiceInv, NEW c \in Callers, pc[c] = "done",
                      reply[c].Outcome = "POLICY_STALE"
               PROVE  Len(policyLogs[req[c].PolicyID]) >= startedAt[c] + MaxPolicyRetries
    BY DEF StaleNeedsProgress
  <2>1. OfPolicy(req[c]) /\ startedAt[c] + MaxPolicyRetries <= Len(policyLogs[req[c].PolicyID])
    BY DEF ServiceInv, CallsInv, CallInv, SeenInLog
  <2> QED
    BY <2>1
<1> QED
  BY <1>1, ServiceKeepsInv, PTL

(* A CreateExplicit is answered by its own semantics, whatever other callers
   bind its OperationID to while it runs and after it returned.            *)
THEOREM ExplicitCallsAnswered == Spec => []ExplicitAnswersMatch
<1>1. ServiceInv => ExplicitAnswersMatch
  BY DEF ServiceInv, CallsInv, CallInv, ExplicitAnswerMatches, Matches, ExplicitAnswersMatch
<1> QED
  BY <1>1, ServiceKeepsInv, PTL
=============================================================================
