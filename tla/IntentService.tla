---------------------------- MODULE IntentService ----------------------------
(***************************************************************************)
(* intent.Service over a Store: concurrent callers, each in the middle of  *)
(* one call.  A call is a sequence of store calls, and other callers'      *)
(* steps fall between any two of them; a value read by one store call is   *)
(* used by a later one.  pc[c] names the next store call of caller c.      *)
(*                                                                         *)
(* AttachRunID, SetBlocker and ReleaseBlocker are one store call each      *)
(* after a check of their arguments, so they are single steps of the       *)
(* environment.  CommitRevision is the revision store's: external here.    *)
(***************************************************************************)
EXTENDS IntentStore

CONSTANTS
  Callers,
  Requests,            \* the calls callers make, a subset of AllRequests
  BlockerUpdates,      \* the [Owner, State] pairs given to Set- and ReleaseBlocker
  MaxPolicyRetries,    \* maxPolicyRetries, 8 in the code
  InitiallyCommitted   \* pipeline revisions committed from the start

Facts == [Position : Positions \cup {Nil}, Class : Classes]

AllRequests ==
  [Call : {"AdmitAutomatic"}, PolicyID : Policies, PolicyRevision : PolicyRevisions,
   Subject : Subjects, PipelineRevision : PipelineRevisions, Facts : Facts]
  \cup [Call : {"CreateExplicit"}, OperationID : OperationIDs, Subject : Subjects,
        PipelineRevision : PipelineRevisions]
  \cup [Call : {"EnablePolicy"}, PolicyID : Policies, Frontier : Positions]
  \cup [Call : {"DisablePolicy", "RetirePolicy"}, PolicyID : Policies]
  \cup [Call : {"RecordDisabledAcceptance"}, ID : IDs,
        Observation : {"ACCEPTED", "NOT_ACCEPTED", "UNKNOWN"}]

ASSUME ServiceConstants ==
  /\ Requests \subseteq AllRequests
  /\ BlockerUpdates \subseteq [Owner : BlockerOwners, State : BlockerStates]
  /\ MaxPolicyRetries \in Nat \ {0}
  /\ InitiallyCommitted \subseteq PipelineRevisions

(* Nil in the history variables is no log length and no facts. *)
ASSUME NilIsNoHistory == Nil \notin Nat /\ Nil \notin Facts

VARIABLES
  committed,  \* the revisions GetRevision can read (external)
  pc,         \* the next store call of each caller
  req,        \* the request it serves
  seen,       \* the policy record it read last
  tries,      \* loop iterations already spent on stale writes
  reply,      \* what the call returned
  \* History, read by no action: what the properties compare with.
  facts,      \* the publication facts an intent was admitted on
  admittedAt, \* the length of its policy's log when it was recorded
  attachedAt, \* the length of its policy's log when the RunID was attached
  releasedAt, \* ... when POLICY_DISABLE was last released
  startedAt   \* the length of its policy's log when the call began

callVars == <<pc, req, seen, tries, reply, startedAt>>
historyVars == <<facts, admittedAt, attachedAt, releasedAt>>
vars == <<storeVars, committed, callVars, historyVars>>

ServiceTypeOK ==
  /\ StoreTypeOK
  /\ committed \subseteq PipelineRevisions
  /\ pc \in [Callers -> {"idle", "lookup", "policy", "revision", "create",
                         "append", "get", "update", "done"}]
  /\ req \in [Callers -> Requests \cup {Nil}]
  /\ seen \in [Callers -> PolicyRecord]
  /\ tries \in [Callers -> 0..(MaxPolicyRetries - 1)]
  /\ facts \in [IDs -> Facts \cup {Nil}]
  /\ admittedAt \in [IDs -> Nat \cup {Nil}]
  /\ attachedAt \in [IDs -> Nat \cup {Nil}]
  /\ releasedAt \in [IDs -> Nat \cup {Nil}]
  /\ startedAt \in [Callers -> Nat]

Init ==
  /\ StoreInit
  /\ committed = InitiallyCommitted
  /\ pc = [c \in Callers |-> "idle"]
  /\ req = [c \in Callers |-> Nil]
  /\ seen = [c \in Callers |-> NoPolicy]
  /\ tries = [c \in Callers |-> 0]
  /\ reply = [c \in Callers |-> Nil]
  /\ facts = [id \in IDs |-> Nil]
  /\ admittedAt = [id \in IDs |-> Nil]
  /\ attachedAt = [id \in IDs |-> Nil]
  /\ releasedAt = [id \in IDs |-> Nil]
  /\ startedAt = [c \in Callers |-> 0]

(***************************************************************************)
(* Control flow of a call.                                                 *)
(***************************************************************************)
Answer(outcome) ==
  [Outcome |-> outcome, Reason |-> "", Intent |-> Nil, Policy |-> NoPolicy,
   Members |-> Nil, Divergence |-> {}]

Return(c, answer) ==
  /\ pc' = [pc EXCEPT ![c] = "done"]
  /\ reply' = [reply EXCEPT ![c] = answer]
  /\ seen' = [seen EXCEPT ![c] = NoPolicy]
  /\ tries' = [tries EXCEPT ![c] = 0]
  /\ UNCHANGED <<req, startedAt>>

Goto(c, next) ==
  /\ pc' = [pc EXCEPT ![c] = next]
  /\ UNCHANGED <<req, seen, tries, reply, startedAt>>

(* Keep the policy record just read and go on with it. *)
GotoWith(c, rec, next) ==
  /\ pc' = [pc EXCEPT ![c] = next]
  /\ seen' = [seen EXCEPT ![c] = rec]
  /\ UNCHANGED <<req, tries, reply, startedAt>>

(* Mutants: one iteration too many; a retry that writes again without
   reading; and one that does not count itself either.                     *)
RetryOnceMore(c) ==
  IF tries[c] < MaxPolicyRetries
    THEN /\ pc' = [pc EXCEPT ![c] = "policy"]
         /\ tries' = [tries EXCEPT ![c] = @ + 1]
         /\ UNCHANGED <<req, seen, reply, startedAt>>
    ELSE Return(c, Answer("POLICY_STALE"))

RetryBlindly(c) ==
  IF tries[c] + 1 < MaxPolicyRetries
    THEN /\ tries' = [tries EXCEPT ![c] = @ + 1]
         /\ UNCHANGED <<pc, req, seen, reply, startedAt>>
    ELSE Return(c, Answer("POLICY_STALE"))

RetryForEver(c) == UNCHANGED callVars

(* A stale write: the next iteration reads the policy again; after
   MaxPolicyRetries of them the call gives up.                             *)
Retry(c) ==
  IF tries[c] + 1 < MaxPolicyRetries
    THEN /\ pc' = [pc EXCEPT ![c] = "policy"]
         /\ tries' = [tries EXCEPT ![c] = @ + 1]
         /\ UNCHANGED <<req, seen, reply, startedAt>>
    ELSE Return(c, Answer("POLICY_STALE"))

At(c, call, step) == pc[c] = step /\ req[c].Call = call
Reads == UNCHANGED <<storeVars, committed, historyVars>>

Entry(call) ==
  CASE call \in {"AdmitAutomatic", "CreateExplicit"} -> "lookup"
    [] call \in {"EnablePolicy", "DisablePolicy", "RetirePolicy"} -> "policy"
    [] call = "RecordDisabledAcceptance" -> "get"

(* Bound: no lifecycle call begins on a policy whose log has MaxLog entries. *)
LogFull(r) ==
  /\ r.Call \in {"EnablePolicy", "DisablePolicy", "RetirePolicy"}
  /\ Len(policyLogs[r.PolicyID]) >= MaxLog

Start(c, r) ==
  /\ pc[c] = "idle"
  /\ ~LogFull(r)
  /\ pc' = [pc EXCEPT ![c] = Entry(r.Call)]
  /\ req' = [req EXCEPT ![c] = r]
  /\ startedAt' = [startedAt EXCEPT
       ![c] = IF "PolicyID" \in DOMAIN r THEN Len(policyLogs[r.PolicyID]) ELSE 0]
  /\ UNCHANGED <<seen, tries, reply>>
  /\ Reads

(* Any store or revision read may fail, and any write may be aborted, with
   nothing written: a cancelled context, an unavailable reader, a fault.   *)
Fail(c) ==
  /\ pc[c] \notin {"idle", "done"}
  /\ Return(c, Answer("ERROR"))
  /\ Reads

(* The caller takes the answer; it may then make another call. *)
Finish(c) ==
  /\ pc[c] = "done"
  /\ pc' = [pc EXCEPT ![c] = "idle"]
  /\ req' = [req EXCEPT ![c] = Nil]
  /\ reply' = [reply EXCEPT ![c] = Nil]
  /\ startedAt' = [startedAt EXCEPT ![c] = 0]
  /\ UNCHANGED <<seen, tries>>
  /\ Reads

(***************************************************************************)
(* AdmitAutomatic.                                                         *)
(***************************************************************************)
Key(r) == <<r.PolicyID, r.Subject>>

AutomaticReplay(stored, r) ==
  [Answer("REPLAYED") EXCEPT
     !.Intent = stored,
     !.Divergence = Divergence(stored, r.PolicyRevision, r.PipelineRevision)]

AdmitLookup(c) ==
  LET id == auto[Key(req[c])] IN
  /\ At(c, "AdmitAutomatic", "lookup")
  /\ IF id # Nil THEN Return(c, AutomaticReplay(intents[id], req[c]))
                 ELSE Goto(c, "policy")
  /\ Reads

(* The gate, on the record as it is now.  The revision is read once, in the
   first iteration that passes the gate.                                   *)
AdmitDecide(c) ==
  LET rec == policies[req[c].PolicyID]
      reason == Reason(rec, req[c].Facts)
  IN
  /\ At(c, "AdmitAutomatic", "policy")
  /\ IF reason # ""
       THEN Return(c, [Answer("NOT_ADMITTED") EXCEPT !.Reason = reason, !.Policy = rec])
       ELSE GotoWith(c, rec, IF tries[c] = 0 THEN "revision" ELSE "create")
  /\ Reads

RequireCommitted(c) ==
  /\ pc[c] = "revision"
  /\ IF req[c].PipelineRevision \in committed
       THEN Goto(c, "create")
       ELSE Return(c, Answer("NOT_COMMITTED"))
  /\ Reads

AdmitDraft(r, epoch) ==
  AutomaticDraft(r.PolicyID, r.PolicyRevision, r.Subject, r.PipelineRevision, epoch)

AdmitReplay(c) ==
  LET id == auto[Key(req[c])] IN
  /\ At(c, "AdmitAutomatic", "create")
  /\ id # Nil
  /\ Return(c, AutomaticReplay(intents[id], req[c]))
  /\ Reads

AdmitStale(c) ==
  /\ At(c, "AdmitAutomatic", "create")
  /\ auto[Key(req[c])] = Nil
  /\ ~PolicyIsCurrent(req[c].PolicyID, seen[c].Epoch)
  /\ Retry(c)
  /\ Reads

AdmitCreate(c, id) ==
  LET draft == AdmitDraft(req[c], seen[c].Epoch) IN
  /\ At(c, "AdmitAutomatic", "create")
  /\ CreateAutomaticAdmitted(draft, seen[c].Epoch, id)
  /\ Return(c, [Answer("ADMITTED") EXCEPT
                  !.Intent = [draft EXCEPT !.ID = id], !.Policy = seen[c]])
  /\ facts' = [facts EXCEPT ![id] = req[c].Facts]
  /\ admittedAt' = [admittedAt EXCEPT ![id] = Len(policyLogs[req[c].PolicyID])]
  /\ UNCHANGED <<committed, attachedAt, releasedAt>>

(* The allocator draws an ID that is taken: CodeDuplicate, nothing written. *)
DuplicateID(c, id) ==
  /\ Exists(id)
  /\ \/ /\ At(c, "AdmitAutomatic", "create")
        /\ auto[Key(req[c])] = Nil
        /\ PolicyIsCurrent(req[c].PolicyID, seen[c].Epoch)
     \/ /\ At(c, "CreateExplicit", "create")
        /\ ops[req[c].OperationID] = Nil
  /\ Return(c, Answer("DUPLICATE"))
  /\ Reads

(***************************************************************************)
(* CreateExplicit.                                                         *)
(***************************************************************************)
DraftOf(r) == ExplicitDraft(r.OperationID, r.Subject, r.PipelineRevision)

ExplicitReplay(stored, draft) ==
  IF SameExplicitSemantics(stored, draft)
    THEN [Answer("CONVERGED") EXCEPT !.Intent = stored]
    ELSE Answer("OPERATION_CONFLICT")

(* Mutant: the revision is not read before the create. *)
ExplicitLookupOnly(c) ==
  LET id == ops[req[c].OperationID] IN
  /\ At(c, "CreateExplicit", "lookup")
  /\ IF id # Nil THEN Return(c, ExplicitReplay(intents[id], DraftOf(req[c])))
                 ELSE Goto(c, "create")
  /\ Reads

ExplicitLookup(c) ==
  LET id == ops[req[c].OperationID] IN
  /\ At(c, "CreateExplicit", "lookup")
  /\ IF id # Nil THEN Return(c, ExplicitReplay(intents[id], DraftOf(req[c])))
                 ELSE Goto(c, "revision")
  /\ Reads

(* Mutant: the loser of the race takes the winner's intent as its own. *)
ExplicitLostRaceUnchecked(c) ==
  LET id == ops[req[c].OperationID] IN
  /\ At(c, "CreateExplicit", "create")
  /\ id # Nil
  /\ Return(c, [Answer("CONVERGED") EXCEPT !.Intent = intents[id]])
  /\ Reads

ExplicitLostRace(c) ==
  LET id == ops[req[c].OperationID] IN
  /\ At(c, "CreateExplicit", "create")
  /\ id # Nil
  /\ Return(c, ExplicitReplay(intents[id], DraftOf(req[c])))
  /\ Reads

ExplicitCreate(c, id) ==
  LET draft == DraftOf(req[c]) IN
  /\ At(c, "CreateExplicit", "create")
  /\ CreateExplicit(draft, id)
  /\ Return(c, [Answer("CREATED") EXCEPT !.Intent = [draft EXCEPT !.ID = id]])
  /\ UNCHANGED <<committed, historyVars>>

(***************************************************************************)
(* EnablePolicy.                                                           *)
(***************************************************************************)
FrontierValid(frontier, rec) ==
  Comparable(frontier, rec.Frontier) /\ ~After(rec.Frontier, frontier)

(* Mutant: a retired policy is enabled like a disabled one. *)
EnableReadRetired(c) ==
  LET rec == policies[req[c].PolicyID] IN
  /\ At(c, "EnablePolicy", "policy")
  /\ CASE rec.State = "ACTIVE" ->
            Return(c, [Answer("UNCHANGED") EXCEPT !.Policy = rec])
       [] rec.State \in {"DISABLED", "RETIRED"} /\ ~FrontierValid(req[c].Frontier, rec) ->
            Return(c, Answer("FRONTIER_INVALID"))
       [] OTHER -> GotoWith(c, rec, "append")
  /\ Reads

EnableRead(c) ==
  LET rec == policies[req[c].PolicyID] IN
  /\ At(c, "EnablePolicy", "policy")
  /\ CASE rec.State = "ACTIVE" ->
            Return(c, [Answer("UNCHANGED") EXCEPT !.Policy = rec])
       [] rec.State = "RETIRED" -> Return(c, Answer("POLICY_RETIRED"))
       [] rec.State = "DISABLED" /\ ~FrontierValid(req[c].Frontier, rec) ->
            Return(c, Answer("FRONTIER_INVALID"))
       [] OTHER -> GotoWith(c, rec, "append")
  /\ Reads

Opening(rec, frontier) ==
  [Seq |-> 0, Kind |-> IF rec = NoPolicy THEN "ACTIVATE" ELSE "REENABLE",
   Epoch |-> rec.Epoch + 1, Frontier |-> frontier]

EnableAppend(c) ==
  LET p == req[c].PolicyID
      t == Opening(seen[c], req[c].Frontier)
  IN
  /\ At(c, "EnablePolicy", "append")
  /\ AppendPolicyTransition(p, seen[c].Seq, t, FALSE)
  /\ Return(c, [Answer("TRANSITION") EXCEPT !.Policy = policies'[p]])
  /\ UNCHANGED <<committed, historyVars>>

(***************************************************************************)
(* DisablePolicy and RetirePolicy.                                         *)
(***************************************************************************)
StopCalls == {"DisablePolicy", "RetirePolicy"}
Target(call) == IF call = "RetirePolicy" THEN "RETIRED" ELSE "DISABLED"

StopRead(c) ==
  LET p == req[c].PolicyID
      rec == policies[p]
  IN
  /\ pc[c] = "policy" /\ req[c].Call \in StopCalls
  /\ CASE ~PolicyFound(p) -> Return(c, Answer("NOT_FOUND"))
       [] PolicyFound(p) /\ rec.State = Target(req[c].Call) ->
            Return(c, [Answer("UNCHANGED") EXCEPT
                         !.Policy = rec, !.Members = Membership(intents, p)])
       [] rec.State = "RETIRED" /\ Target(req[c].Call) = "DISABLED" ->
            Return(c, Answer("POLICY_RETIRED"))
       [] OTHER -> GotoWith(c, rec, "append")
  /\ Reads

Closing(r, rec) ==
  [Seq |-> 0, Kind |-> IF r.Call = "RetirePolicy" THEN "RETIRE" ELSE "DISABLE",
   Epoch |-> rec.Epoch, Frontier |-> Nil]

(* Mutants: the membership is taken before the holds; no holds are asked for. *)
StopAppendEarly(c) ==
  LET p == req[c].PolicyID IN
  /\ pc[c] = "append" /\ req[c].Call \in StopCalls
  /\ AppendPolicyTransition(p, seen[c].Seq, Closing(req[c], seen[c]), TRUE)
  /\ Return(c, [Answer("TRANSITION") EXCEPT
                  !.Policy = policies'[p], !.Members = Membership(intents, p)])
  /\ UNCHANGED <<committed, historyVars>>

StopAppendUnheld(c) ==
  LET p == req[c].PolicyID IN
  /\ pc[c] = "append" /\ req[c].Call \in StopCalls
  /\ AppendPolicyTransition(p, seen[c].Seq, Closing(req[c], seen[c]), FALSE)
  /\ Return(c, [Answer("TRANSITION") EXCEPT
                  !.Policy = policies'[p], !.Members = Membership(intents', p)])
  /\ UNCHANGED <<committed, historyVars>>

StopAppend(c) ==
  LET p == req[c].PolicyID IN
  /\ pc[c] = "append" /\ req[c].Call \in StopCalls
  /\ AppendPolicyTransition(p, seen[c].Seq, Closing(req[c], seen[c]), TRUE)
  /\ Return(c, [Answer("TRANSITION") EXCEPT
                  !.Policy = policies'[p], !.Members = Membership(intents', p)])
  /\ UNCHANGED <<committed, historyVars>>

AppendStale(c) ==
  /\ pc[c] = "append"
  /\ ~SeqIsCurrent(req[c].PolicyID, seen[c].Seq)
  /\ Retry(c)
  /\ Reads

(***************************************************************************)
(* RecordDisabledAcceptance: an exact read, then a separate blocker write. *)
(***************************************************************************)
AcceptanceGet(c) ==
  LET id == req[c].ID IN
  /\ At(c, "RecordDisabledAcceptance", "get")
  /\ CASE ~Exists(id) -> Return(c, Answer("NOT_FOUND"))
       [] Exists(id) /\ (~IsAutomatic(id) \/ intents[id].RunID = Nil) ->
            Return(c, Answer("INVALID_TRANSITION"))
       [] OTHER ->
            IF req[c].Observation = "ACCEPTED"
              THEN Return(c, [Answer("UNCHANGED") EXCEPT !.Intent = intents[id]])
              ELSE Goto(c, "update")
  /\ Reads

AcceptanceBlock(c) ==
  LET id == req[c].ID IN
  /\ At(c, "RecordDisabledAcceptance", "update")
  /\ \/ UpdateBlocker(id, "POLICY_DISABLE", "BLOCKED")
     \/ intents[id].Blockers["POLICY_DISABLE"] = "BLOCKED" /\ UNCHANGED storeVars
  /\ Return(c, [Answer("UPDATED") EXCEPT !.Intent = intents'[id]])
  /\ UNCHANGED <<committed, historyVars>>

(***************************************************************************)
(* The calls that are one store call.                                      *)
(***************************************************************************)
LogLength(id) ==
  IF IsAutomatic(id) THEN Len(policyLogs[intents[id].PolicyID]) ELSE 0

ServiceAttachRunID(id, run) ==
  /\ AttachRunID(id, run)
  /\ attachedAt' = [attachedAt EXCEPT ![id] = LogLength(id)]
  /\ UNCHANGED <<committed, callVars, facts, admittedAt, releasedAt>>

(* SetBlocker (BLOCKED, UNKNOWN) and ReleaseBlocker (CLEAR). *)
ServiceUpdateBlocker(id, owner, state) ==
  /\ UpdateBlocker(id, owner, state)
  /\ releasedAt' = IF owner = "POLICY_DISABLE" /\ state = "CLEAR"
                     THEN [releasedAt EXCEPT ![id] = LogLength(id)]
                     ELSE releasedAt
  /\ UNCHANGED <<committed, callVars, facts, admittedAt, attachedAt>>

CommitRevision(rev) ==
  /\ rev \notin committed
  /\ committed' = committed \cup {rev}
  /\ UNCHANGED <<storeVars, callVars, historyVars>>

(***************************************************************************)
(* The specification.  Advance is the next step of a call already begun:   *)
(* a goroutine inside a call keeps running, and whether the caller makes   *)
(* another call is its own choice.                                         *)
(***************************************************************************)
Advance(c) ==
  \/ AdmitLookup(c) \/ AdmitDecide(c) \/ RequireCommitted(c)
  \/ AdmitReplay(c) \/ AdmitStale(c) \/ \E id \in IDs : AdmitCreate(c, id)
  \/ \E id \in IDs : DuplicateID(c, id)
  \/ ExplicitLookup(c) \/ ExplicitLostRace(c) \/ \E id \in IDs : ExplicitCreate(c, id)
  \/ EnableRead(c) \/ EnableAppend(c)
  \/ StopRead(c) \/ StopAppend(c) \/ AppendStale(c)
  \/ AcceptanceGet(c) \/ AcceptanceBlock(c)

Next ==
  \/ \E c \in Callers : \/ \E r \in Requests : Start(c, r)
                        \/ Advance(c) \/ Fail(c) \/ Finish(c)
  \/ \E id \in IDs, run \in RunIDs : ServiceAttachRunID(id, run)
  \/ \E id \in IDs, u \in BlockerUpdates : ServiceUpdateBlocker(id, u.Owner, u.State)
  \/ \E rev \in PipelineRevisions : CommitRevision(rev)

Spec == Init /\ [][Next]_vars

Fairness == \A c \in Callers : WF_vars(Advance(c))
FairSpec == Spec /\ Fairness

(***************************************************************************)
(* Properties.                                                             *)
(***************************************************************************)
Returned(c, call) == pc[c] = "done" /\ req[c].Call = call
IsOpening(t) == t.Kind \in OpeningKinds

(* A lifecycle log is legal however its writers interleave: it begins with
   the ACTIVATE of epoch 1; a DISABLE closes an open epoch; a REENABLE
   follows a DISABLE, opens exactly the next epoch, and never moves the
   frontier before any earlier one or to another domain; nothing follows a
   RETIRE.  The compare-and-append of EnablePolicy and stopPolicy is what
   ensures it.                                                             *)
LegalEntry(log, i) ==
  LET t == log[i] prev == log[i - 1] IN
  /\ t.Seq = i
  /\ (i = 1) = (t.Kind = "ACTIVATE")
  /\ i = 1 => t.Epoch = 1
  /\ i > 1 => prev.Kind # "RETIRE"
  /\ i > 1 /\ t.Kind = "REENABLE" =>
       /\ prev.Kind = "DISABLE" /\ t.Epoch = prev.Epoch + 1
       /\ \A j \in 1..(i - 1) : IsOpening(log[j]) => FrontierValid(t.Frontier, log[j])
  /\ t.Kind \in StopKinds => t.Epoch = prev.Epoch
  /\ t.Kind = "DISABLE" => IsOpening(prev)

LifecycleLegal ==
  \A p \in Policies : \A i \in 1..Len(policyLogs[p]) : LegalEntry(policyLogs[p], i)

(* Every automatic intent was recorded while the epoch it carries was open,
   on a publication of class NEW strictly after that epoch's frontier and
   every earlier one: a backlog published before an activation, or while the
   policy was disabled, is never replayed, although AdmitAutomatic decides on
   a record read before the write.                                         *)
AdmittedAfterFrontier ==
  \A id \in IDs : IsAutomatic(id) =>
    LET log == policyLogs[intents[id].PolicyID]
        at == admittedAt[id]
    IN  /\ facts[id] # Nil /\ facts[id].Class = "NEW"
        /\ at # Nil /\ at \in 1..Len(log)
        /\ IsOpening(log[at]) /\ log[at].Epoch = intents[id].AdmissionEpoch
        /\ \A i \in 1..at :
             IsOpening(log[i]) => After(facts[id].Position, log[i].Frontier)

(* While a policy is not ACTIVE each of its intents is held, unless its
   RunID was attached before the policy stopped or the hold's own authority
   released it since: no admission or attach slips past a disable or retire
   unheld (DisablePolicy's atomic hold, the conditional create).           *)
HeldUntilReleased ==
  \A id \in IDs : IsAutomatic(id) =>
    LET rec == policies[intents[id].PolicyID] IN
    rec.State # "ACTIVE" =>
      \/ intents[id].Blockers["POLICY_DISABLE"] # "CLEAR"
      \/ intents[id].RunID # Nil /\ attachedAt[id] < rec.Seq
      \/ releasedAt[id] # Nil /\ releasedAt[id] = rec.Seq

(* The membership a stop returns is the one of the record it returns: it
   names no intent of a later epoch, and accounts for every intent of this
   and the earlier epochs, unless its hold was released.                   *)
StopAccountsForMembers ==
  \A c \in Callers : pc[c] = "done" /\ reply[c].Members # Nil =>
    LET listed == reply[c].Members.Held \cup reply[c].Members.RunIDAttached IN
    \A id \in IDs : IsAutomatic(id) /\ intents[id].PolicyID = req[c].PolicyID =>
      IF intents[id].AdmissionEpoch <= reply[c].Policy.Epoch
        THEN id \in listed \/ releasedAt[id] # Nil
        ELSE id \notin listed

(* A policy record a call returns was the policy's record at some moment
   between the call's start and its return, never an older one, and it is
   a state the log really went through.                                    *)
ReturnedRecordIsOfThisCall ==
  \A c \in Callers : pc[c] = "done" /\ reply[c].Policy # NoPolicy =>
    LET rec == reply[c].Policy
        log == policyLogs[req[c].PolicyID]
    IN  /\ startedAt[c] <= rec.Seq /\ rec.Seq <= Len(log)
        /\ rec = FoldLeft(Apply, NoPolicy, SubSeq(log, 1, rec.Seq))

(* A call gives up with POLICY_STALE only if other callers completed at
   least MaxPolicyRetries transitions of that policy during the call: no
   attempt fails without somebody else's progress.                         *)
StaleNeedsProgress ==
  \A c \in Callers : pc[c] = "done" /\ reply[c].Outcome = "POLICY_STALE" =>
    Len(policyLogs[req[c].PolicyID]) >= startedAt[c] + MaxPolicyRetries

SameDomain(r, q) ==
  \/ r.Call = "AdmitAutomatic" /\ q.Call = "AdmitAutomatic" /\ Key(r) = Key(q)
  \/ r.Call = "CreateExplicit" /\ q.Call = "CreateExplicit"
       /\ r.OperationID = q.OperationID

(* Concurrent answers agree: two calls for one automatic domain, or for one
   OperationID, return the same intent, with the frozen content the store
   has; at most one of them created it; and an automatic call that reports
   no divergence got the pipeline revision it asked for.                   *)
AnswersAgree ==
  \A c, d \in Callers :
    /\ pc[c] = "done" /\ reply[c].Intent # Nil
    /\ pc[d] = "done" /\ reply[d].Intent # Nil
    /\ SameDomain(req[c], req[d])
    => /\ Frozen(reply[c].Intent) = Frozen(intents[reply[d].Intent.ID])
       /\ reply[c].Outcome \in {"ADMITTED", "CREATED"} /\ reply[d].Outcome = reply[c].Outcome
            => c = d
       /\ reply[c].Divergence = {} /\ req[c].Call = "AdmitAutomatic"
            => reply[d].Intent.PipelineRevision = req[c].PipelineRevision

(* An explicit call is answered by its own semantics: it succeeds only with
   an intent that carries the subject and revision it asked for, and it
   conflicts only with an OperationID that is bound to other ones.         *)
ExplicitAnswersMatch ==
  \A c \in Callers : Returned(c, "CreateExplicit") =>
    LET id == ops[req[c].OperationID]
        same == id # Nil /\ SameExplicitSemantics(intents[id], DraftOf(req[c]))
    IN  /\ reply[c].Outcome \in {"CREATED", "CONVERGED"} => same
        /\ reply[c].Outcome = "OPERATION_CONFLICT" => id # Nil /\ ~same

(* No intent ever exists on a pipeline revision that is not committed,
   although the revision is read once, before the create and its retries.  *)
OnCommittedRevisions ==
  \A id \in IDs : Exists(id) => intents[id].PipelineRevision \in committed

(* Every call returns: retries are bounded and no step waits for another
   caller.                                                                 *)
CallsReturn ==
  \A c \in Callers : pc[c] \notin {"idle", "done"} ~> pc[c] = "done"

(* The comment on AdmitAutomatic: an intent that exists when the admission
   decision is made is replayed, not decided on again.                     *)
NoDecisionOnExisting ==
  [][\A c \in Callers :
       reply'[c] # reply[c] /\ reply'[c] # Nil /\ reply'[c].Outcome = "NOT_ADMITTED"
         => auto[Key(req[c])] = Nil]_vars
=============================================================================
