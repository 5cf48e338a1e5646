# A verification of PipelineStore in TLA+

PipelineStore keeps immutable revisions of pipeline contracts, and, in package
`intent`, the intents to run them.  This directory holds TLA+ models of the parts
whose correctness depends on the order in which things happen, TLC
configurations that check them on small instances, and TLAPS proofs of the
results that matter most.  `PROJECT.json` lists the components, the runs, the
hazards, the theorems, and for every definition that models code the source
lines it stands for.

To check a module: `tlc -config X.cfg M.tla`.  To check proofs: `tlapm M.tla`.

## Inventory

| Part | State it keeps | Operations | What makes it correct |
|---|---|---|---|
| `sqlitestore.Store` (`src/sqlitestore`, `src/store.go`, `src/digest.go`) | tables `revisions`, `operations`, `digest_index` | `Open`, `Commit`, `GetRevision`, `Close` | three tables move together; one revision per body and pipeline; a retry is answered like the first call, whatever the catalog says now; a damaged row is refused |
| `intent` data and gate rules (`intent.go`, `admission.go`) | none | semantic checks, fold of a transition, admission rules | only NEW publications strictly after the frontier pass |
| `intent.MemoryStore` (`store.go`) | intents, the (policy, subject) index, the operation ledger, the RunID index, lifecycle logs, folded records | `createAutomatic`, `createAutomaticAdmitted`, `createExplicit`, `AttachRunID`, `UpdateBlocker`, `AppendPolicyTransition`, reads | indexes and intents agree; intents are frozen; records fold their logs |
| `intent.Service` (`service.go`, `admission.go`) | none: only calls in progress | `AdmitAutomatic`, `CreateExplicit`, `EnablePolicy`, `DisablePolicy`, `RetirePolicy`, `RecordDisabledAcceptance`, `SetBlocker`, `ReleaseBlocker`, `AttachRunID`, reads | one decision per domain, taken on the policy as it is; stopped policies hold; lifecycles are legal; calls return |
| `intent.SQLiteStore` (`sqlite_store.go`) | one table of intents with unique indexes, a version record; a pool of connections | open (check or create the schema), the create, attach and blocker methods in `BEGIN IMMEDIATE` transactions; refuses the policy methods | implements the same store, across crashes; a schema that would later fail or mislead a write is refused at the open |
| contract validation (`validate.go`) | none | `Validate`, `detectCycle` | commits exactly the well-formed contracts, none with a cycle |
| parsing, canonical form (`parse.go`, `canonical.go`) | none | `Parse`, `Canonicalize` | a body that is read says one thing; two orders of one contract are one form |
| lowering (`src/lowering`) | none | `Lower`, `CheckSpec` | the spec has the contract's edges, under the declarations frozen for it |
| errors, test doubles | none | | |

How they interact.  A `Service` call is a sequence of calls of a `Store` (each one
atomic: a mutex in `MemoryStore`, a transaction in `SQLiteStore`) and of
`GetRevision` of a revision reader; other callers' store calls fall between any
two.  `Commit` asks two external resolvers, through `Validate`, inside its
transaction.  Publication positions are an interface of the caller: a strict
partial order in which positions of different admission domains do not compare.
Nothing calls back into the stores.  A contract is parsed, gated and canonicalised before
`Commit` knows whether it is new; only a new one is validated; a committed revision is
lowered later, with declarations resolved again by then.

What is hard here: decisions taken on a record that another caller may replace
before they are written; compare-and-append with bounded retries; rewriting the
blockers of many intents in one step; idempotent creates that race; transactions
of several processes on one file; crashes, lost answers and retries; pooled connections
whose TEMP schema other code can change; a catalog that drifts between validation, commit
and lowering; checks spread over sections that each rely on the others.  The list with lines is under `hazards` in `PROJECT.json`.

## Modules

| Module | Models |
|---|---|
| `Intent` | records, drafts, checks, `apply`, the gate's reason |
| `IntentStore` | `MemoryStore`: one action per writing method; alone, under any caller of the package |
| `IntentService` | `Service` over `IntentStore`: concurrent callers, one step per store call |
| `IntentPromise` | what the service promises: every call one atomic step, no IDs, indexes, logs or retries |
| `IntentRefinement` | the mapping under which `IntentService` implements `IntentPromise` |
| `IntentSchema` | the durable store's schema as a value, the open-time checks of it, and SQLite's rules for rows, indexes and queries |
| `IntentSQLite` | `SQLiteStore`: pooled connections of several processes, transactions step by step, crashes, errors, triggers and TEMP objects |
| `IntentSQLiteRefinement` | the mapping under which `IntentSQLite` implements `IntentStore` |
| `RevisionStore` | `sqlitestore.Store`: goroutines, processes, transactions, crashes, damage |
| `RevisionPromise` | what it promises: a ledger on which every call takes effect in one step |
| `RevisionRefinement` | the mapping under which `RevisionStore` implements `RevisionPromise` |
| `Parse` | `Parse`: the surrogate scan, the token walk, what the decoder adds |
| `Contract` | `Validate` up to its cycle search, the canonical form, the reserved-capability gate |
| `CycleSearch` | `detectCycle` and `findCycle`, which are one algorithm, as a machine of single steps |
| `Lowering` | `Lower` and `CheckSpec` |
| `PipelineFlow` | the life of a contract: submit, validate, commit, submit again, lower; composes the four above |
| `IntentStoreProofs`, `IntentServiceProofs`, `IntentAnswersProofs`, `IntentSQLiteProofs`, `RevisionStoreProofs`, `CycleSearchProofs`, `ParseProofs`, `PipelineFlowProofs` | the proofs |
| `MCIntentStore`, `MCIntentService`, `MCIntentSQLite`, `MCRevisionStore`, `MCPipelineFlow` | values for TLC |

`IntentService` EXTENDS `IntentStore`, which EXTENDS `Intent`, as `IntentSchema` does;
`IntentRefinement` instantiates `IntentPromise`, `RevisionRefinement` instantiates
`RevisionPromise`, `IntentSQLiteRefinement` instantiates `IntentStore`.  Definitions called *mutant* in a comment are not
part of any specification: they are plausible mistakes, next to the definition
they get wrong, and each property of a run is violated when one of them is put in
that definition's place.

### Correspondence with the code

*Intents.*  `intents`, `auto`, `ops`, `runs`, `policyLogs`, `policies` are the maps of
`MemoryStore` (`byID`, the three indexes, the logs, the records); an absent entry is
`Nil`.  A method that refuses or replays writes nothing and is no step of the store;
what the caller is told then is decided by `IntentService` from the same
conditions.  The staged writes of `MemoryStore` are one step because the mutex
covers them and nothing fails between them.  The store's own specification offers
every transition and every epoch at any time, also ones `Service` never builds, and
malformed explicit drafts: that is what its unexported methods allow.

*Calls.*  `pc[c]` names the next store call of caller `c`; `seen[c]` is the local
`rec`, `tries[c]` the loop counter.  `Start` is the call with its argument checks,
`Advance(c)` any step of a call in progress, `Fail` an error of any read or an
aborted write (cancelled context, injected fault), after which nothing is written.
`AttachRunID`, `SetBlocker` and `ReleaseBlocker` are one store call, so one step.
`facts`, `admittedAt`, `attachedAt`, `releasedAt`, `startedAt` are history: no action
reads them.  `CommitRevision` stands for the revision store: `RevisionStore` shows
that a revision, once readable, stays.

*Revisions.*  `db` holds the committed tables, `tx[c]` what a transaction sees: its
snapshot, then its staged rows; the commit puts `tx[c]` in place of `db`.  `conn[h]`
is the one connection of a handle (`SetMaxOpenConns(1)`): `BeginTx` waits for it, and
the deferred rollback gives it back.  External: SQLite's rule for deferred
transactions (`MayWrite`: a write is refused when someone else is writing or has
committed since the snapshot; this covers the rollback journal, where a reader's
lock stops the commit, and WAL, where the snapshot is stale), and the resolvers,
whose verdict `Prepare` leaves open each time.  A body is mapped to its canonical
form by the constant `Canonical` (`Nil`: parsing or the capability check fails);
digests are injective on forms; the digest index is keyed by form.  The ledger's
`pipeline_id` column is left out, as no statement reads it back.  The primary keys of the
ledger and of the digest index (`sqlite.go:50` and `:60`) are no guards of `Mint`: it writes on
the snapshot in which `Lookup` missed both, so they never refuse.  `DamageRow` changes one cell of a
stored row while no transaction runs.

*The ledger.*  `RevisionPromise` has a map from contents to revisions, one from operations to
contents, the set of damaged revisions, and what each caller has asked.  The digest index is the
first, the fingerprints of ledger rows are the second, and the third is what `Load` refuses.  A
call begins to be one of the promise's with `Start`, and takes effect when its transaction
commits or when it reads what it answers with.  `New`, drawn when it begins, is what a refusal
needs: a call that finds its content committed in the meantime may still be refused, one that
began after the commit may not.

*The durable intent store.*  `schema` and `rows` are the committed file, `lock` the connection
whose `BEGIN IMMEDIATE` holds the write lock, `work` what its transaction has done.  `write`
is `Begin`, `VerifyNoTriggers`, a body, then `Commit` or `Fail`; `Abort` is an error of any
statement, `Crash(h)` the death of a process with all its connections.  `open[h]` says that
`NewSQLiteStore` returned.  A connection belongs to a pool (`HandleOf`) and has a TEMP schema of
its own, in which other code can create a trigger or a table; `MainTrigger` creates and drops a
trigger in the file.  `initSchema` is the body `InitSchema`, `createSchema` the three steps from
there to `CreateRecord`.  A schema is a record: the version record, the table with its columns,
the indexes with keys and predicate.  The checks are translated one by one in `IntentSchema`;
next to them stands what SQLite does with a schema they let through (`Refuses`, `WhereAuto`,
`AsStored`), which is how a missing check shows.  A statement that fails in SQLite, and not in
the contract, answers `RAW`.

*Contracts.*  A submission is the text of its string literals, its JSON tokens, the kind of bytes
that follow them and are no token, and the contract the decoder makes of it.  In a text a character stands for the class the scan tells apart
(backslash, `u`, four digits of a high, low or other code unit); in the tokens a key is its
name.  `Submit` is `PrepareUnvalidated`, the convergence on a committed form, and `Validate` up
to its search; the search then runs in steps (`PickRoot`, `Reach`, `Finish`) because its order is
left open: Go's order of nodes and edges is one of those covered.  The canonical form is the bag
of each list's elements: the sorted lists of two contracts are equal exactly when the bags are,
since elements that compare alike and differ are refused by `Validate`.  `Handed` are the
revisions a caller can hand to `Lower`: read back from the store, or put together.

## Runs

| Run | Instance | Shows |
|---|---|---|
| `store` (`MCIntentStore.cfg`) | 2 IDs, 1 policy, 2 subjects, 2 operations, 2 RunIDs, 2 owners, logs to 2 | indexes agree, records fold logs, intents are frozen, transitions only hold |
| `admission_gate` (`ServiceGate.cfg`) | 2 callers, enables, disables and retirements, positions `a1 < a2 < a3` and `b1` of another domain, logs to 4 | `AdmittedAfterFrontier`, `ReturnedRecordIsOfThisCall`, `StaleNeedsProgress`, `LifecycleLegal`, `ImplementsPromise` |
| `stop_holds` (`ServiceHolds.cfg`) | 2 callers, 2 subjects, 1 RunID, releases, logs to 3 | `HeldUntilReleased`, `StopAccountsForMembers`, `ImplementsPromise` |
| `identity` (`ServiceExplicit.cfg`) | 2 callers, 2 operations, 2 subjects, 2 revisions, one of them committed late | `AnswersAgree`, `ExplicitAnswersMatch`, `OnCommittedRevisions`, `ImplementsPromise` |
| `termination` (`ServiceTermination.cfg`) | 2 callers, every call | `CallsReturn` |
| `replay_race` | as above, small | the first finding below |
| `revision_commit` (`RevisionCommit.cfg`) | 2 processes, 2 pipelines, 2 operations, 2 bodies and one that does not parse, a body that becomes another contract's | `TablesAgree`, `AcknowledgedIsDurable`, `ReturnsWhatWasMinted`, `ImplementsLedger` |
| `revision_returns` (`RevisionReturns.cfg`) | 3 callers, 2 handles | `CallsReturn` |
| `intent_sqlite` (`IntentSQLite.cfg`) | 2 processes with a connection each, 2 IDs, 1 domain, 2 OperationIDs of which one spells the other under NOCASE and INTEGER affinity, 2 RunIDs; a file that is empty or of one of 25 altered schemas | `LockHeldByCall`, `SchemaTakesTheContract`, `AnswersStand`, `OpenOnlyCreates`, `ImplementsStore` |
| `contract` (`PipelineFlow.cfg`) | all graphs of up to 3 edges on 3 nodes, of up to 2 on 2 nodes with 2 outputs; a contract with every feature and its single defects; an edge of a port without a name; 4 catalogs; texts of up to 6 escapes, objects of up to 3 members, bytes after the value | `EscapesDecide`, `StructureDecides`, `AcceptedIsAcyclic`, `CycleIsReal`, `ValidateDecides`, `ConvergedIsValid`, `LoweredIsSameSource`, `LowersWhatIsRepresentable` |
| `parse_keys`, `parse_trailing` (`ParseKeys.cfg`, `ParseTrailing.cfg`) | the same | the other two findings below |

### Bounds, and why they are enough

- `MaxPolicyRetries` is 2, 8 in the code: the loop treats all iterations but the last
  alike, and with 2 both the retry and the giving up happen.
- `MaxLog` bounds a log: `Start` begins no lifecycle call on a log of that length.
  Three entries are the shortest log with a second epoch, four the shortest in which
  that epoch has been stopped again.  Calls already begun may still append, so logs
  exceed the bound by up to the number of callers.
- Two callers are enough for every race of the code, since each is between one reader
  of a record and one writer.  One of them can complete several calls during one call
  of the other, so a loser also loses twice and reaches the end of the retry loop.
- Two positions can be ordered or not; three in a row let a frontier advance between a
  publication before and one after it, and a lone fourth does not compare.
- `IDs` are drawn freely, so a taken ID is drawn too; when all are taken each create
  ends in `DUPLICATE`.
- One policy: the store's actions never relate two, except through IDs and RunIDs,
  which the subjects of one policy share in the same way.
- In the revision runs two revisions and two operations let an operation be replayed,
  conflict, converge and be minted in one behaviour.  A row is damaged in one cell
  only: a body and a digest replaced together would agree, which no digest can show.

- In `intent_sqlite` the lock admits one transaction, so two connections show every order of
  two calls and of a call and a crash; a third would wait like the second.  A schema departs
  from version 1 in one point, and each check has a schema only it refuses.  Foreign objects
  appear one at a time: two would be refused, or do harm, as one does.
- In `contract` three nodes and three edges hold a cycle of each length, a shared node, a cycle
  reached through a finished node, and fan-in and fan-out; the proofs lift the search to every
  graph.  A defect is single, so an error of a section is seen apart from the others; a few
  combine two sections (an edge and a slot on one input).

Symmetry is over callers, IDs, subjects, operations and RunIDs where no definition
tells them apart, and never in a run with liveness.  The deadlock check is off in
`MCIntentStore.cfg`, where the store has writes only and the bounded instance can use them up,
and in `PipelineFlow.cfg`, `ParseKeys.cfg` and `ParseTrailing.cfg`, where a contract's life ends.

`LowersWhatIsRepresentable` names two cases in which `Lower` itself accepts a committed
contract and `CheckSpec`, which takes no spec on trust, refuses what it built: no nodes, and an
edge of a port whose declared name is empty (`lowering/check.go:84`).  `Validate` looks a port up
by its name and never asks whether the name is empty, so a tool that declares such a port makes
the second case reachable.  The attempt to prove the property without it failed there; tool `g`
and the contract `Unnamed` of the instance now show it.

### Fairness

`termination` assumes weak fairness of `Advance(c)` for each caller: a goroutine inside a
call keeps running, and the mutex and the reads it waits for are granted.  Beginning a call
and taking its answer are the caller's choice, and `Fail` is never fair.  The retries are
bounded by the code, so no further assumption is needed: with the mutant that retries for
ever the property fails.  `MaxLog` also bounds how often the policy changes: the run has a
policy that changes up to the retry limit, never one that changes without end.

`revision_returns` assumes that each statement, and each resolver, returns with a result
or an error (weak fairness of every step inside a transaction, failures among them), and
that the handle's connection is given to those who wait for it in turn (strong fairness of
`Begin`): `database/sql` keeps waiting requests in order.  A crash ends the calls of its
process.

### Where code and comments differ

- `replay_race`: the comment on `AdmitAutomatic` (`src/intent/admission.go:352-354`) says
  that an existing intent is replayed without a new admission decision.  The domain is
  looked up once, before the retry loop.  If another caller records the intent after that,
  and the policy is stopped before this call reads it, this call answers `NOT_ADMITTED`.
  Nothing is written, and a repeat is replayed.
- `parse_keys`: `src/parse.go:14` says duplicate keys are rejected, "no silent last-wins", and
  line 19 that byte-distinct strings remain distinct.  The walk compares keys exactly, but
  `encoding/json` matches a key with a field without regard to letter case, also under
  `DisallowUnknownFields`.  A body with `nodes` and `Nodes` passes, and the later member
  overwrites the earlier.
- `parse_trailing`: `src/parse.go:17` says trailing data after the JSON value is rejected.  Two
  calls look for it, and each leaves something to the other: after the walk, an error of `Token`
  counts as the end of the data (line 65), which is what an unmatched closing bracket gives; and
  `Decoder.More` (line 49) says that nothing comes before a closing bracket.  A contract followed
  by `}` or `]`, and by anything after that, is read and committed.  `StructureDecides` states
  what does hold.

`src/intent/store.go:16` says stored intents are immutable except for the one-time attach of a
RunID; their blockers change too.  Everything else is immutable, which `FrozenOnceStored` states
and `StoreFreezesIntents` proves.

## Proofs

All theorems hold for arbitrary constants that satisfy the named assumptions, which TLC evaluates
in every run.

- Intents: `PublicationOrder` (a strict partial order), `PolicyDisableIsAnOwner`, `NilIsFresh`,
  `StoreConstants`, `ServiceConstants`, `NilIsNoHistory` (the value of an empty history variable
  is neither a log length nor facts); for the refinement `NilIsNoDecision`.
- Durable store: `SQLiteConstants`; `NilIsNull` (no column or predicate is NULL);
  `RequestsOfTheStore` (calls of the `Store` interface, with drafts as `Service` builds them);
  `SchemasOfTheStore`, which says that a file with nothing of the store in it is the empty schema,
  and that any other obeys SQLite's own rules (`MadeBySQLite`: names of indexes are unique, and the
  index of a PRIMARY KEY is unique, without predicate, on the key's columns).  It does not say that a schema is any of the altered ones of
  the run.
- Revisions: `RevisionConstants`, `NoRowIsNil`, `DamageIsInARow`; for the refinement
  `NilIsNoContent`.
- Contracts: `SubmissionsAreContracts`, which says what the Go types say: the fields, and that
  the lists are finite lists of records with theirs.  Any names, numbers of entries, declarations
  and answers of the resolvers are allowed, well formed or not.
  `SubmissionsAreTexts`: a text is a finite list of characters of any kind, and the tokens are
  those of JSON values (what closes was opened, everything is closed in the end, keys are in
  objects), because `Token` gives an error for anything else.

`IntentStoreProofs`:

- `StoreTypeCorrect`, `StoreIndexesAgree`, `StoreFreezesIntents`.  The inductive invariant
  is `StoreInv == StoreTypeOK /\ IndexesAgree`.  Neither half is inductive alone: a
  transition rewrites the blockers of every ID the policy's index holds, which is a
  well-typed update only because each of them is a stored intent; and the agreement of the
  indexes needs the types to know that a fresh record is not `Nil`.  Each method has a
  lemma for types and one for the indexes.  Updates of blockers and the holds of a
  transition share one argument: `SameButBlockers` disturbs no index.
- The action property uses the same invariant: a create writes where nothing was stored,
  an attach changes `RunID` from `Nil` only, everything else changes blockers only.
- `StoreTransitionsOnlyHold`: an appended transition places `POLICY_DISABLE` holds only, on
  unattached intents of its policy only, and only if it is a stop.  That an index entry leads to
  an intent of the policy it is filed under is `IndexesAgree`.
- `StorePolicyFoldsLog`: a record is the fold of its whole log.  A fold is a recursive function,
  and the induction theorems of the library cannot be used.  The lemmas get by with two facts
  instead.  A set of numbers that is not empty has a least member (`LeastNat`), so two folds of a
  prefix, or a fold and a value of it, that differ anywhere differ at a first place, where one
  more entry would make them equal (`FoldsAgree`, `FoldExists`); and `FoldOfMore`, which follows,
  is the one step the invariant needs.

`IntentServiceProofs`:

- `ServiceTypeCorrect`, `ServiceIndexesAgree`, `IntentsOnCommitted`, `LifecyclesAreLegal`,
  `AdmissionsAfterFrontier`, `StoppedPoliciesHold`, `StaleMeansProgress`,
  `ExplicitCallsAnswered`, for any number of callers, policies, positions and retries.  The
  inductive invariant `ServiceInv` has two halves.  `StoreHalf` relates the store, the logs
  and the history.  `CallInv(c)` says what the store calls `c` has made let it rely on later:
  the revision it read is still committed; the record in `seen[c]` is the policy's for as long
  as the log has the length it had; the publication passed the gate in an epoch the log has
  opened; the transition it is about to append is one a log with that record can take; each
  retry was somebody else's transition.  None of the eight properties is inductive without
  it: a create is right only because of what an earlier step of the same call read.
- Another caller's step disturbs a `CallInv` only through `Grows`: committed revisions, log
  prefixes and ledger entries are never taken back.  So each action has one lemma for its own
  call, and all others are covered by `RestKeeps`.
- `RecordOf` states the part of a record that the gate and the lifecycle need, without the fold:
  the last entry decides state and epoch, and the frontier is at or after every earlier one.

`IntentAnswersProofs`:

- `ConcurrentAnswersAgree` and `StopsAccountForMembers` are about answers a caller holds while
  the state goes on.  The invariant adds to `ServiceInv` what each answer claims: the index or
  ledger still names its intent, with the frozen content; the log still has the closing entry
  of the membership it returned.  `Evolves` is all that any step may do to the state the
  claims are about; the clause that matters is that a new automatic intent carries the epoch of
  a record that is ACTIVE now.  An epoch that a stop has closed therefore gets no intent any
  more (`NoneAfterStop`, from `EpochsGrow`), and a membership cannot become incomplete.
- `ReturnedRecordsAreCurrent`: a record in an answer is the fold of a prefix of its log, no shorter
  than the log was when the call began.  `RecordsHalf` says it of the record a call has read too,
  since an answer is either that record or one `Apply` more.  Logs only grow, so the prefix stays
  one.
- `ServiceImplementsPromise`: `Spec => ImplementsPromise`.  Each action has a lemma that it is a
  step of the promise or none.  A create is the promise's admission, and the gate that this call
  evaluated earlier must pass now: the create finds the policy ACTIVE in the epoch that was gated,
  the entry that opened an epoch still open is the last one (`OpenEpochIsLast`), so the frontier is
  the one that was gated (`GateStillPasses`).  The attach of a RunID is an attach of the promise
  because the index holds a RunID exactly if some decision does (`UnusedIsFree`).  A stop rewrites the blockers of the index's members; that these
  are all decisions of the policy without a RunID, no others, and that holding what is held
  changes nothing, makes it the promise's one step (`StopHoldsDecisions`).

`IntentSQLiteProofs`:

- `LockNeverOutlivesCall` and `OpenCreatesOrLeaves`, for any number of processes and
  connections, any file and any request.  `TxInv` adds to the lock that the transaction under
  way has the schema it began with, or, between the steps of `createSchema`, exactly what these
  have made of an empty file.  Without it a commit could publish a schema nobody checked.  A
  crash or an error drops the work and the lock in one step.
- `AcceptedSchemasTakeTheContract`: each check of `verifySchemaObjects` excludes one way in which
  SQLite would refuse or change a row, or a query find another one.  The theorem is about every
  schema `MadeBySQLite`, so it shows that no check is missing for a kind of alteration the run
  does not have.
- `SQLiteTypes`, `AnswersStandInTheFile`, `SQLiteImplementsStore` share `FileInv`: an open handle
  has a verified schema; the rows are what a store of the contract can hold (`RowsGood`: a
  row is under its ID and clashes with no other); the work of a transaction is the
  committed rows before its body and one `Change` of them after it; an answer about to be
  committed is in the work, and one given is in the file (`StandsIn`: it may have got a RunID or
  other blockers since).  Without the verified schema a row could come out as something else, and
  without the exclusive transaction `Change` could be relative to rows that are gone.

`CycleSearchProofs`, `ParseProofs` and `PipelineFlowProofs`:

- `SearchIsTyped`, `SearchMissesNoCycle`, `SearchReturnsCycles`, for every graph and every order
  of its nodes and edges.  `SearchInv`: a node is gray exactly when its visit is on the stack,
  the stack spells out a path, what a frame has passed is black (or the visit it waits for), and
  black nodes lead to black nodes only, among which there is no cycle.  The lemmas are about the
  steps of the search alone.
- `NothingCyclicPasses`: no committed contract and no lowered spec has a cycle.  `FlowInv` adds
  that the graph of the search under way is the one of the contract or the spec being checked,
  which the checks before it make a graph on its nodes.
- `CommittedIffWellFormed`: every section has a lemma that it passes exactly if a conjunct of
  `WellFormed` holds, given the sections before it (`NodesDecide` to `ProvidersDecide`, together
  `SectionsDecide`).  The sections look for an earlier equal entry, the reference counts distinct
  ones (`CountsDistinct`); they count the providers of an input list by list, the reference
  looks at one set of all of them (`ProvidersCount`).  The two agree only because duplicates
  were refused before.  The last section is the search, right in both directions.
- `ConvergedContractsAreValid`: equal bags have equal sets of entries and equal numbers of
  them (`BagsAgree`), so a contract with the form of a well-formed one is well formed
  (`CanonicalWellFormed`), but for the reserved field, which the form leaves out and the gate
  before it requires empty.
- `LoweringKeepsTheSource`: what passed `Lower`'s checks determines `SpecOf`, whose bindings and
  dependencies are the contract's (`SpecSaysEdges`, `SpecDependsOnEdges`); the ports fit the
  frozen declarations although the catalog drifted, because each edge was tested against them
  again.  `VerdictInv` carries the lowering through the search.
- `RepresentableContractsAreLowered`: without drift `Lower` passes exactly the representable
  contracts (`LoweringDecides`: what `Validate` accepted cannot fail against the same
  declarations), and `CheckSpec` the specs of those with nodes and named ports (`ShapeDecides`);
  the search of the spec's dependencies finds nothing because the contract's found nothing
  (`SpecGraphIsGraph`).
- `EscapesOfAnyTextDecide`, `StructureOfAnyBodyDecides`: what a call reads, for texts and token
  streams of every length.  The scan, the decoding of a string and the walk are recursive functions
  of a position; each exists, and agrees with its reference, because a first position at which it
  did not would follow one at which it does (`Least`, `Greatest`).  `EscapesAreDecided` relates the
  scan, which jumps over runs of backslashes and over pairs, to a decoding from the left, position
  by position.  `WalkFits` says of the walk after each token that it has an error exactly if what
  was read breaks a rule, and otherwise one set per open object, with the keys of that very object
  (`KeyIsInnermost`, `SeenKept`, `NoneSeen`).  `ReadInv` carries the texts and the verdict through
  the flow.

`RevisionStoreProofs`:

- `RevisionTypeCorrect`, `RevisionTablesAgree`, `RevisionAcksDurable`.  `TablesAgree` says
  nothing of transactions, so `RevisionInv` adds: a call in a transaction owns its handle's
  connection; the body's absence that a call has read is still in its view; what a call
  about to commit has staged is the committed tables plus one ledger row, or plus one row
  in each table for a body that has none; and at most one call is about to commit.  The
  last two are what a deferred `BEGIN` must give, and all that it must give.
- `AckInv`, an invariant relative to `RevisionInv`, carries every acknowledged commit: its
  operation is bound, and a bound operation's body is indexed (`BoundIndexed`), so that no
  later commit can mint it again.
- `StoreImplementsLedger`: `Spec => ImplementsLedger`, one lemma per action that it is a step of
  the promise or none.  The mapping is right only under `MapInv`, next to `RevisionInv`: a row
  that loads is the row that was minted (`RowsGood`), so a serving of the store is one of the
  ledger; what a call knew of its content when it began is never taken back (`KnownStays`), and
  only a call that knew nothing asks the resolvers (`AsksOfNew`), so a refusal is of something
  new; and a row that a convergence has read cannot go bad before that transaction commits
  (`ConvergesOnGood`), since a cell goes bad between transactions only, as `DamageRow` assumes.
- `RevisionReturnsMinted`: an answer is the minted row of its revision.  `ReturnInv` ties it to
  `minted`, which never changes, because the stored row may go bad after the answer was given.

Only model-checked: liveness (`CallsReturn` in both modules), which is out of the prover's reach.
Every other property of a passing run is a theorem.

## Not modelled, and why

- `errors.go` holds names and wording; the
  codes are values of the models.  Test doubles serve tests only.
- Of the parser: a body that is no JSON before its first value ends, which the walk refuses at the
  first error of `Token`; the characters of a string other than those of an escape, the decoder's
  mismatches of type, and the printed form of the canonical writer (its sorting is covered, as
  bags).  `StructureDecides` and its theorem hold modulo those mismatches.  Image and metadata
  scalars are carried and never compared.
- Of validation: the check for an empty pin of its own, which is an unresolved tool with the same
  code; presence checks of `CheckSpec` that a spec built by `Lower` always passes; and, where a
  contract has several defects, which of them the error names.
- Of the durable intent store: epochs that are negative or above 2^63-1, which `AdmissionEpoch`
  cannot reach by counting from 1; a `ROLLBACK` that itself fails and
  a `BEGIN` that returns an error, so `LockHeldByCall` speaks of calls whose `BEGIN`
  succeeds and whose `ROLLBACK`, where there is one, does too; changes of the schema by others
  after the open, other than triggers and TEMP objects; the tokenizer of SQL text, of which
  only its verdict on a definition is modelled.
- Validation of empty coordinates in requests: requests here carry non-empty ones.
- `createAutomatic` appears in the store only; no public call of `Service` reaches it.
- Pure reads of `Service` (`Get`, `Policy`, `PolicyLog`, `MaterializationEligible`) change
  nothing.
- The resolvers, RunID allocation, and what a caller does with an eligible intent are
  outside the repository.

## Plan

Done: all components with a state or a decision of their own; the service and the revision
store against their promises; the durable store against the store; the life of a contract; the
proofs above.  Next: `PipelineSystem`, which is `IntentService` with `committed` read from
`RevisionStore`, and intents handed on to `Lower`.
