# QueryArgus in TLA+

Specifications of QueryArgus, the agent that audits the data quality of a MongoDB
collection: TLA+ modules translated from `src/queryargus`, TLC configurations that check
them on small instances, and theorems about them that TLAPS proves for every instance.

    tlc -workers 2 -config MCAuditLoop.cfg MCAuditLoop      # model-check
    tlapm AuditSafetyProofs.tla                             # prove

`PROJECT.json` maps every definition to the lines it translates, and lists the runs, the
mutants that show each property can fail, the hazards, the findings and the theorems.

## 1. The system

| component | state it keeps | operations |
|---|---|---|
| ReAct loop (`agent/loop.py`, `state.py`, `planner.py`) | one `AgentState` per run: history, schema, queries run, fields investigated and concluded, evaluation records, last observation, last critique | `run`: propose, gate, dispatch, critique, until `conclude` is accepted or the budget is spent |
| findings collector (`tools/write_finding.py`) | an entry per (field, category), the list of dismissed findings | `write` (insert or update in place), `dismiss` |
| evaluation (`agent/evaluation/`) | none | thirteen rules, composite chains, the factory, the LLM evaluators |
| schema sampling (`tools/schema_sample.py`) | an accumulator per path while it runs | one walk over sampled documents: counts, types, distinct and sample values |
| other read tools (`tools/run_query.py`, `get_stats.py`) | none | reads of the collection |
| report store (`storage/postgres.py`, `schema.sql`) | tables `argus_reports`, `argus_findings`, `argus_dismissed`; every label twice, in a column and inside the document `raw_report` | `save`, `update_user_label`, `get`, `load_history`, `get_previous`, `list_reports` |
| cross-run memory (`models/history.py`) | none (built from the store) | aggregation of runs and verdicts, `render` for the prompt |
| report (`models/report.py`) | the report itself | `diff_against` |
| CLI (`cli/main.py`) | none | `run`: load history, audit, compare, save, emit; `diff`: the two newest reports; `inspect`, `reports`, `accounts`, ... |
| Azure discovery (`azure_service.py`), connection (`models/connection.py`) | three TTL caches | listing subscriptions and accounts, resolving a name, fetching connection strings, pinging |
| LLM clients (`llm/`), observers and cost (`observability/`) | tokens of a call; the buckets of `CostTracker`, the run id of `StructuredLogObserver` | one retry after a malformed answer; eight hooks, dispatched to every observer |

**How they interact.** The CLI process is the only composer. It loads a
`HistoricalContext` from the store (one transaction), hands it to `ArgusAgent.run`, and
compares and saves the report that comes back (two more transactions). The loop calls the
planner's LLM, the gates and the tools synchronously; what a step tells the next one goes
through `last_observation` and `last_critique`. Processes know each other only through
PostgreSQL: audits of the same collection share history and previous reports, and
reviewers label findings while audits run (`update_user_label` is the store's interface for a
review tool; nothing in this repository but its tests calls it).

**What is hard, and what makes each part correct.**

- *Loop.* Many paths lead back to the top (a gate's FAIL, an exception of a tool, a
  rejected finding, a rejected conclude), each leaving some critique or observation, and
  every one must still use up budget. Correct means: the run ends; nothing the finding
  gate should stop is in the report, however often a key is rewritten; every dismissed
  finding can be explained from the trail; the planner hears of what went wrong with its
  last action, an exception included, and never of another's; a failed run gate is only
  accepted for want of budget.
- *Report store.* Two copies of one fact, two tables locked in opposite orders, READ
  COMMITTED. Correct means: the copies agree, or differ only when calls really raced;
  a read document never outlives a re-save; every call returns.
- *Cross-run memory.* Sessions and reviewers interleave between transactions, and a
  session may die anywhere. Correct means: a reviewer's verdict reaches every later
  planner; what no earlier report has is reported as new; the report a run is compared
  with is no older than the history its planner was shown.
- *Schema sampling.* Everything the planner concludes rests on its counts, which are kept
  by path while one document may spell a path twice, mix types, or nest below the limit. Correct
  means: each statistic is the number it says it is, and what is left out is named.
- *Azure discovery.* Three caches of one hour over a world that goes on, filled by several
  requests of which each may fail and takes its time, and of whose answers one page is read.
  Correct means: nothing stale is used for longer than an hour and the making of a list, what
  has settled is found as far as it is on a first page, a read-only preference holds, and the
  caches catch up to that extent.
- *Telemetry.* Tokens are spent in four places and reported in three; observers share state
  across runs. Correct means: report, cost and log of a run agree with what it did,
  whatever an earlier run or another observer does.

## 2. The modules

| module | models | how |
|---|---|---|
| `Evaluation` | `agent/evaluation`: rules, `_aggregate`, `_merge`, composites, factory | pure operators; an LLM evaluator may answer anything in `LLMResults` or raise |
| `AuditLoop` (extends `Evaluation`) | `ArgusAgent.run`, the collector | state machine, one action per outcome of a step |
| `AuditContract` | what a caller may count on | abstract specification, refined by `AuditLoop` |
| `ReportStore` | `save`, `update_user_label` | state machine, one action per SQL statement |
| `AuditHistory` | `load_history`, `HistoricalContext`, `render`, `get_previous`, `list_reports`, `diff_against`, the `diff` command | pure operators over a set of stored reports |
| `AuditMemory` (extends `AuditHistory`) | `queryargus run` as concurrent processes, reviewers | state machine, one action per transaction, and per snapshot in `load_history` |
| `SchemaSample` | `schema_sample` with its accumulator | state machine, one action per document and per entry of one |
| `AzureDiscovery` | `azure_service.py`, `from_default_credential` | state machine: requests and cache accesses of one process, a world that changes between them, a clock that also runs while one is under way |
| `Telemetry` | token totals, the retry in `llm/gemini.py`, `CostTracker`, `StructuredLogObserver`, `MultiObserver` | state machine: `ArgusAgent.run` reduced to its LLM calls and hooks, over runs that share observers |
| `MCAuditLoop`, `MCReportStore`, `MCAuditMemory`, `MCSchemaSample`, `MCAzureDiscovery`, `MCTelemetry` | | instances for TLC |
| `AuditLoopProofs`, `AuditSafetyProofs`, `AuditTrailProofs` | | theorems about `AuditLoop` and `AuditContract`, each extending those before |
| `ReportStoreProofs`, `AuditMemoryProofs`, `SchemaSampleProofs`, `AzureDiscoveryProofs`, `TelemetryProofs` | | theorems about the module each is named after |

`AuditMemory` treats a label as one step: `ReportStore` is what looks inside one. Both
talk about the same tables, `ReportStore` about how a row gets its label, `AuditMemory`
about who reads it afterwards.

### AuditLoop against the code

`pc` is the position in the body of `run`'s loop: `"propose"` is its top (or the code
after it, once the budget is spent), `"gate"` is `_evaluate_action`, `"dispatch"` is
`_dispatch`. `critique`, `observation` and `runEvaluation` are the locals and fields of
those names, reduced to what the properties tell apart: which step set them, in which
iteration, and whether an observation contains the word `REJECTED` that `_commit_finding`
looks for. `Echoes` says whether text quoted from the data may itself contain it; the runs
use `{FALSE}`, so no result depends on that coincidence, and the proofs cover both.

| action | code |
|---|---|
| `Propose`, `PlannerRaises` | the planner's call and the bookkeeping after it; no handler surrounds it, so an exception ends the run without a report |
| `SkipActionGate`, `GateAction` | `_evaluate_action`; on FAIL, `continue` with the critique |
| `ActionGateRaises` | the same when a rule raises: `rules.py:127` looks the operation of a `get_stats` up in a set, which a list or an object makes a `TypeError`; no handler surrounds the gate |
| `SchemaSample`, `RunQuery`, `GetStats` | `_dispatch`; the database answers anything |
| `ToolRaises` | the `except Exception` of `run`, from any tool but conclude |
| `RejectFinding`, `CommitFinding`, `DemoteFinding` | the outcomes of `_commit_finding` under the three policies, collector included |
| `RejectConclusion` | a failed run gate that goes on |
| `EndRun`, `RunGateRaises` | every other end of `run`, by conclude or by the budget |

An iteration writes at most one finding, so ids are `<<"candidate", i>>` for the `uuid4` of
the candidate built in iteration *i* and `<<"finding", i>>` for that of a new collector
entry. `affected_pct` is in thousandths, scores in tenths. A description is empty, short
(under ten characters) or full, which is all the rules read of it.

### ReportStore against the code

A call is a transaction; `call[c]` is the statement client `c` is at and, for a label, the
document it has read. Row locks are explicit; writes become visible at commit. `save`
locks the report's row and then, one at a time and in any order, the old finding rows;
`update_user_label` locks a finding's row, reads `raw_report` without a lock, and locks
the report's row to write the whole document back. A label statement waiting for a row
that a re-save has deleted finds none and returns False (`"gone"`), or, when its scan
starts later, finds the new row. `Aborts` is a lost connection or a dead process;
`DeadlockDetected` is PostgreSQL's detector. `overlapped` and `past` are history variables
that no guard reads.

### AuditMemory against the code

`step[s]` is the position in the CLI's `run` command. `load_history` is four SELECTs of one
READ COMMITTED transaction, each with a snapshot of its own. The first, for the last runs, is
`ReadRuns` (or `NoRuns`); the others are `LoadHistory`: what the second and third read of
those runs never changes once they are saved, so that the snapshot that matters is the
fourth's, for the verdicts, and reports saved and labels given in between are in it and not
among the runs. `LoadFails` is the caught `OperationalError`, after which the audit goes on
without history; `Fails` is everything nothing catches. `AuditEnds` stands for the whole loop:
the report it builds is any of `Contents`, stamped by one clock. A report has at most
one finding per (field, category), which the collector guarantees.

The `diff` command (`DiffCommand`) lists the two newest reports and then gets each. It is an
operator and no action: of a stored report only labels ever change, which it does not show,
so its three reads amount to one.

### SchemaSample against the code

A document is the sequence of its entries in the order `_walk_document` reaches them, each
with the keys that lead to it; a path is the keys' segments concatenated, so that
`{"a.b": 1}` and `{"a": {"b": 1}}` share one, as they do in the code. A value is what the
accumulator can tell: its type, its class under Python's `==`, and whether it is hashable.
`NextDocument` is the cursor (`$sample` may yield a document twice), `Visit` is
`record_present` for one entry, `PassBelow` what the depth limit hides, `Finalize` the
`FieldStats`. `RejectSize`, `CursorFails` and `RefuseEmptyPath` are the three ways to raise;
the last is `FieldStats(path="")`, by which one empty top-level key fails the whole sample.

### AzureDiscovery against the code

`call` is the one call the process is in and what it has so far; each action is one request
or one access to a cache, and `ChangeSubscription`, `ChangeAccount`, `MoveAccount` and
`RotateKeys` may come between any two. An answer is of the world when it arrives, and of a
list it is the first page (`FirstPages`): `azure_service.py:108` and `:138` take the `value` of
one answer and never follow `nextLink`. Any `PageSize` of the entries or more may be on it, in
any selection. A cache entry knows how many ticks it has left, from the moment it is stored.
`Tick` lets them go by between calls and while a request is under way; the requests of one
list take no more than `Lag` of them together (each has a timeout of 15 seconds, so `Lag`
grows with the number of subscriptions). `SkipSubscription` is a listing that answers with an
error status, which is logged and left out; `RequestRaises` is what ends the call. `since`,
`outdated` and `skipped` are history variables that no guard reads; `skipped` is also reset
for a subscription of which only a page was taken, or that was itself behind one.

### Telemetry against the code

Every answer of an LLM costs one token. The loop is left to its choices (`AuditLoop` has
the decisions), and kept are the calls that cost, in `GeminiClient.propose_action` with its
retry and in the evaluators, and the hooks in the order in which they are called. A run's
`pc` is where it is between two of them; steps of several runs interleave, as threads that share
one observer do. An evaluator of the action gate may raise and end the run, as in `AuditLoop`.
`planned`, `judged` and `overlapped` are history variables.

## 3. What the runs check

Every property of a passing run has a mutant in `PROJECT.json`: a plausible bug in one
mapped definition under which TLC finds that property violated.

**`audit_loop`** (880 thousand states, under two minutes).
Five configurations: the three profiles of `models/config.py` with the three rejection
policies and the run-fail policies spread over them, one that asks an LLM before or
instead of rules, and one without gates. Eleven proposals hit every rule and every error path. It shows

- `CommittedMeetRules`, `CriticalIsBroad`: what rules in the finding gate keep out of the
  collector, under which policies;
- `DismissedAreExplained`: `save` can look up the FAIL of each dismissed finding by its id;
- `ConcludedHaveFindings`, `FindingsKeepTheirIds`: the collector and the state agree, and
  an entry outlives every rewrite;
- `NoRepeatedFilter`, `SampledFirst`: what the action gate guarantees about the database;
- `CritiqueIsCurrent`: the planner is prompted with a critique exactly when its last action was
  failed by a gate, was dismissed, or raised, and the critique is of that; `TrailMatchesTrace`:
  the report's trail has one record of each action, in order, and its trace marks exactly the
  rejected conclusions that went on;
- `FailedRunUsedItsBudget`, `RunEnds`: when the run may end, and that it does;
- `ImplementsContract`, `EffectsWithinBudget`: the refinement of `AuditContract` and what
  follows from it.

Bounds: a budget of four is the smallest in which the three-iteration rule of the run gate
can fail, be put right and still leave an iteration; it also fits a sample, a
commit, a rewrite of the same key and a conclude. Two fields are enough for coverage to be
none, half and all. The two schema results (empty, and both fields with 2,000 documents)
are on either side of every threshold that reads them.

**`report_store`** (13 thousand states). Two clients, one report with two findings.
`MirrorAgreesUnlessRaced`: the two
copies of a label differ only if two label transactions on one report have been open at
once since it was last saved. `MirrorIsPast`: even then the mirror shows only labels the finding
really had since that save. `CallsReturn`: every call ends, those in the deadlock of a
label and a re-save included. Both hazards need exactly two transactions and two findings
of one report: a second report shares no row with the first, and a third client adds no
kind of conflict: every cycle of waits holds a save and a label that wait for each other. One label besides "none" is enough because the code never compares labels.

**`audit_memory`** (2.5 million states, under symmetry). Three sessions of one collection, a
window of one run and two label operations, over two audit results that differ in every
way `diff_against` tells apart. `VerdictsReachPlanner`: an audit that loads its history has
the majority verdict on every labelled pattern in its prompt, also when the labelled report
has left the window and the pattern no longer comes up, unless `max_findings` others of its
block may come before it (`Rivals`), which is all that `render` may cut; and no other verdict.
`NovelFindingsAreNew`: a finding no
older stored report has is marked new, whatever the sessions did concurrently.
`ComparedWithHistory`: the previous report is at least as new as all that the planner was shown.
`DiffAgreesWithReport`: `queryargus diff` shows the diff the newest report has stored, or
compares it with a newer one that was saved out of turn. A window of
one makes reports leave it after one more run, so three sessions suffice. `MaxFindings` is
one, so that `render` cuts every block with two entries: with three patterns blocks are
empty, full and too long. The symmetry set permutes the sessions,
which are interchangeable; no liveness property is checked with it.
A session may end anywhere, and when all have ended nothing is left to do: deadlock is not
checked there.

**`schema_sample`** (35 thousand states). Ten documents, in any order and number up to four:
every kind of value, `True` next to 1, objects up to and beyond the limit, a path spelled
twice, an empty key. `CountsAreExact`: present, null and per-type counts at every point of the
walk. `MissingAreAbsent`: `missing_count`, for paths no document spells twice.
`CardinalityIsExact`: cardinality up to the cap, and its flag. `SamplesAreDistinct`: the sample
values. `NothingIsLost`: every entry is counted or below a truncated path. Depth two and caps
of two are on both sides of each limit with values one, two and three; four documents are one more than the
values that fill a cap.

**`azure_discovery`** (1.6 million states). Two subscriptions and one account name, so that a
listing takes two requests of which one may fail, the account may move between them, the name
can be ambiguous, and a page of one entry need not hold both subscriptions; callers give the
name or one of its IDs; an hour of two ticks, a lag of one, room for one connection string.
`StaleForAnHourAtMost`: a listed account has been there within the hour and the lag, a cached
string was valid within the hour. `SettledAreListed`: an account there for two lives of a list
and a lag is listed, unless its subscription was left out, or only a page of it taken, within
that time. `ReadOnlyIsKept`. `CachesCatchUp`: once the world rests the caches agree with it for
good, as far as it is on one page.
With TTL 2 an entry can be fresh, old and gone, and with a lag of one the making of a list can
take time or none; one change and one failure are what a list or a string needs to be stale
or partial, and each property is about how long that may last; two changes exceed what TLC
can search, and so does a second name: accounts behind the first page of their own subscription
are those of the run `all_accounts`, and of the theorem, which is for any page size. The bounds
are sharp: with a tick less in any of them TLC finds a counterexample.

**`telemetry`** (1.7 million states). Two runs, one after the other or at a time, three sets of
gates, with a broken observer first and with the log before the cost.
`ReportCountsAllCalls`: the report's tokens are those of every answer, unparsed ones
included. `CostIsOfTheRun`, `LogMatchesReport`: cost and log of a run that was
alone are its own and agree with its report, whatever ran before it and whatever raises.
A budget of two fits a commit and a conclude; the second run needs only to start where the
first one ended, failed, or is.

**Six runs end in a violation**, each of one claim of the documentation or a docstring that the
code does not keep; the traces are short and are described under "findings".

| run | claim | what happens |
|---|---|---|
| `stale_observation` | a tool's result is fed back into the next prompt (`docs/agent-loop.md`) | after a rejected finding, a finding committed next leaves the old REJECTED text as the observation |
| `zero_evidence` | `affected_count` must be > 0 to commit (`rules.py`) | `demote_severity` commits it one severity lower |
| `lost_verdict` | both copies of a label are written (`update_user_label`) | of two concurrent labels on one report one is lost from `raw_report` |
| `last_label` | `last_label` is the most recent verdict (`models/history.py`) | it is the label on the newest labelled run |
| `critique_lost` | the critique of a FAIL is in the planner's next prompt (`docs/agent-loop.md:160`) | under `drop` and `demote_severity` it is not |
| `all_accounts` | every visible account is listed (`azure_service.py:113`) | those behind the first page are not |

## 4. Fairness

`AuditLoop!FairSpec` is weak fairness of `Step`: `run` is one thread whose calls either
return or raise; the LLM and database clients are assumed to return in the end.
`ReportStore!FairSpec` is strong fairness of each client's `Progress` and weak fairness of
`DeadlockDetected`: PostgreSQL queues the waiters of a row, so a statement that is
able to run time and again is not passed over for ever, and its detector runs in every wait that lasts
past `deadlock_timeout`. `Aborts` is never required to happen. `AzureDiscovery!FairSpec` is
weak fairness of `Proceed` (every request has a timeout, so calls end) and strong fairness of
`Tick`: time goes by whatever calls are made. Nothing obliges
anyone to make a call. `AuditMemory`, `SchemaSample` and `Telemetry` are checked for safety
only: nothing obliges anyone to finish an audit.

## 5. What is proved

For every budget, set of fields, categories, filters, proposals, configurations and LLM
answers, finite or not, TLAPS proves of `AuditLoop!Spec`:

| theorem | module |
|---|---|
| `TypeCorrect` | `AuditLoopProofs` |
| `CommittedMeetRulesAlways`, `CriticalIsBroadAlways` | `AuditSafetyProofs` |
| `FailedRunUsedItsBudgetAlways`, `ConcludedHaveFindingsAlways`, `FindingsKeepTheirIdsAlways`, `NoRepeatedFilterAlways`, `SampledFirstAlways` | `AuditSafetyProofs` |
| `LoopImplementsContract`, `EffectsWithinBudgetAlways` | `AuditSafetyProofs` |
| `DismissedAreExplainedAlways`, `CritiqueIsCurrentAlways`, `TrailMatchesTraceAlways` | `AuditTrailProofs` |

That is every property of the run `audit_loop` but its liveness, and the same is proved of the
other components:

| specification | for any | theorems |
|---|---|---|
| `ReportStore!Spec` | clients, reports, findings | `TypeCorrect`, `MirrorAgreesUnlessRacedAlways`, `MirrorIsPastAlways` |
| `AuditMemory!Spec` | finite number of sessions and patterns, contents, window, `max_findings` | `TypeCorrect`, `NovelFindingsAreNewAlways`, `ComparedWithHistoryAlways`, `DiffAgreesWithReportAlways`, `VerdictsReachPlannerAlways` |
| `SchemaSample!Spec` | documents, sizes, depths, caps | `TypeCorrect`, `CountsAreExactAlways`, `MissingAreAbsentAlways`, `CardinalityIsExactAlways`, `SamplesAreDistinctAlways`, `NothingIsLostAlways` |
| `AzureDiscovery!Spec` | subscriptions, names, what callers ask for, offers, hour, cache size, page size, lag, number of changes and failures | `TypeCorrect`, `StaleForAnHourAtMostAlways`, `SettledAreListedAlways`, `ReadOnlyIsKeptAlways` |
| `Telemetry!Spec` | runs, budgets, retries, gates, lists of observers | `TypeCorrect`, `ReportCountsAllCallsAlways`, `CostIsOfTheRunAlways`, `LogMatchesReportAlways` |

*Assumptions.* `LLMAssumption` (answers have a verdict and a score; an evaluator can approve
and object), `LoopAssumption` (the budget is positive, the other constants have their
types, no field or category is the empty string), two `NoneAssumption`s (`None` is none of the
values it is told apart from), `StoreAssumption` (every finding has a report, and reports
are not findings), `MemoryAssumption` (finitely many sessions and patterns, patterns have a field),
`SampleAssumption` (documents are sequences of entries, no key is without a segment, before what
is in an object at any depth comes the object, the limits are positive; the walk reaches
entries in that order, for an entry is pushed by the visit of the object it is in),
`DiscoveryAssumption` (the hour, the cache and the page have room for something, what callers ask for is a name or an id, and names are not ids)
and `TelemetryAssumption` (budgets are positive, no observer is listed twice). TLC
evaluates all of them in the runs.

*The argument.* `TypeOK` is inductive by itself; its one hard case is `Candidate`, whose
percentage is a quotient that must be clamped into range. `RuledFailIsFinal` is the lemma
the finding gate rests on: rules come first in every chain that has them, a chain stops at
its first FAIL and the worst verdict wins, so no LLM can let in what the rules reject.
Collector invariants then follow from `Write` alone. `NoRepeatedFilter` and `SampledFirst`
are not inductive: the gate and the tool are two steps. The strengthening `Admitted` says
that what is dispatched has passed the gate *and* that what the gate read has not changed
since. `EffectsWithinBudget` needs `Solvent`: committed plus dismissed findings plus the
iteration under way do not exceed the iterations begun, with the ledger finite.
`DismissedAreExplained` needs `Dismissals`: a dismissed finding has the id of a candidate of
an iteration that is over, so the next candidate's id is new. `CritiqueIsCurrent` needs
`Heard`: no record and no observation is of an iteration to come, nor of the current one before
its gate was asked or its tool ran, and nothing is owed for an action being dispatched. `TrailMatchesTrace` needs
`Traced`, which with `Heard` says that only the action at the gate lacks its record. The
refinement maps each action to `Begin`, `Spend`, `Report`, `Lose` or a stutter.

In `ReportStore`, a lemma says that rows are locked exactly by the open transactions that wrote
them (`LocksAreHeld`, in the proofs only), inductive with `TypeOK`; `OwnLocks` reduces each step to
the locks of the client that takes it. The two copies need `Copies`: a label with a document
in hand has its own label in it, on the other findings labels they have had, and their
current ones unless two labels have overlapped (`DocsAreSound`); two labels that hold rows of
one report have overlapped (`OverlapsAreKnown`); rows held by labels belong to saved reports
(`HeldAreSaved`). The case that matters is `SaveCommits`, which ends the overlap and cuts the
past: by `LocksAreHeld` the save then holds every row of its report, so no label of that
report has a document left to write.

In `AuditMemory`, `MemoryInv` says of each session that its report was compared with one that
is in the store to stay (`ComparedOk`), that the runs it was shown are in the store and older
than its own report (`ShownAreStored`), and that once the comparison is made it is with a
run as new as those (`ComparedWithShown`). `SavedStay` is the monotonicity all of it rests on:
only a session writes its report, and never once it is saved. That `get_previous` has a newest
report to find (`NewestExists`) follows from the strict subset order on the finite sets of the reports newer than
each. The clock's bound needs that an audit ends once, and `RunsDiffer` that a new report is newer
than all there are.

In `SchemaSample`, the walk is an induction over the entries met: `CountInv`, `FieldsInv` and
`DistinctInv` tie each accumulator to the set of entries met at its path, and `Visit` adds
one entry to exactly one of these sets. The distinct values are the classes met until the
cap is reached, and cap many from then on; sample values likewise. `NothingIsLost` is
about the paths of entries, which the code joins from keys that may themselves contain
dots: `PathsNest` says that more keys make a longer path that begins with the shorter one's, so an
entry below the limit is below the object at the limit, whose visit has marked its path
truncated (`LimitInv`). Joining is a fold over a sequence of any length, and what it yields is
shown by the least counterexample (`Least`, `JoinsExist`, `FlattenJoins`), for the theorem of
induction the library has takes an operator as its parameter.

In `AuditMemory`, `VerdictsReachPlanner` is an action property: only `LoadHistory` and `NoRuns`
hand an audit a history it did not have, and the runs of the former are still in the store
(`RunsAreStored`, part of `MemoryInv`). A store that is not empty has a newest report and so a
window that is not empty (`WindowFilled`); the labels counted over rows are those of saved
reports, one to one (`LabelsCounted`), so an aggregated verdict is the majority of what was
given (`VerdictIsMajority`). Every labelled pattern is in a block, which shows it or has
`max_findings` others before it (`ShownOrBehind`), and what comes before a pattern in its block
is among its `Rivals` (`NeighboursAreRivals`); `VerdictsTold` puts these together.

In `AzureDiscovery`, each cache entry is related to the history of what is in it: a key
in a cached string has been outdated for no longer than the entry is old (`KeysAge`); an
account wrongly in a list has been gone for no longer than the list is old and took to make
(`ListsAge`); and one wrongly missing has been there no longer than that list and the list of
subscriptions it was made from are old together, and took to make, unless its subscription was
left out or cut to a page within that time (`ListsCatchUp`). The last two have a clause for the
list being made, whose ticks are counted in `late`. `StringsKept` says of each string, cached or
in hand, that no read-only one was offered with it when a reader asked, by `FirstExists` and
`SelectSound`, what `_select_connection_string` returns for any answer of ARM.

In `Telemetry`, `TokensCounted` says that no tokens are pending outside a call to the planner, so
the totals are of the answers at every hook. The others rest on `AloneInv`: a run that
is under way and has not overlapped is alone (`OverlapsKnown`), so what is in the shared buckets
is its own (`BucketsOwn`), the log writes under its id (`LogOwn`), and the records so far are one
per proposal, verdict and commit (`RecordsMatch`), whichever of its observers raise.

*Only model-checked.* `RunEnds`, `CallsReturn` and `CachesCatchUp`: liveness under fairness and
ENABLED are beyond the prover. Every invariant and every action property of a passing run is
stated by a theorem. The six violations are TLC's, each a
trace.

## 6. What is not modelled

- Prompts, wording, reasons and critiques as text, timestamps, durations, prices, and what a log
  record says besides its event.
- `run_query` and `get_stats`: one or two reads of the collection and no state. In `AuditLoop`
  they answer anything or raise, which covers a count and a cursor that disagree.
- Parsing of LLM answers: any answer that parses, and an exception.
- `init_schema` and the CLI commands other than `run` and `diff`: idempotent DDL, or reads
  followed by printing. `--cache-report` and option parsing: wiring.
- In Azure discovery the emulator's constants, `check_auth`, the credential and its tokens, and
  redaction in logs; in `connection.py` everything after the ping.
- The pass thresholds of `EvaluatorConfig`: no code reads them.
- Two reports with the same `run_at`: the store's order is then PostgreSQL's choice.
- The prompt baseline script, a developer's tool.

Divergences met while modelling that no run states, most of which need no interleaving
to see:

- `null_rate` is nulls over all sampled documents (`tools/schema_sample.py:54`);
  `docs/tools.md:46` has "(null + missing) / total".
- `missing_count` is declared `ge=0` (`tools/schema_sample.py:42`); `finalize` assigns it without
  validation, and one document that spells a path twice, `{"a": {"b": 1}, "a.b": null}`, makes
  it -1.
- `cardinality_capped` is set with exactly as many values as the cap, once one recurs.
- `list_cosmos_accounts` (`azure_service.py:113`) promises every visible account; besides what is
  behind a first page (`all_accounts`), a subscription that answers with an error is left out, and
  the short list is kept for an hour.
- `docs/agent-loop.md:195` and `docs/evaluation.md:22` have `run_fail_policy` "abort" raise an
  error, and `docs/agent-loop.md:196` an unrecoverable error of a tool raise `ArgusError`.
  `loop.py:198` tests for "continue" only, so that under "abort" the report is returned as under
  "warn_only", and `loop.py:208` makes every exception of a tool a critique.
- `evaluation/rules.py:19-21` says of WARN that the planner sees the critique: a WARN proceeds like
  a PASS, and its critique is in the trail and in no prompt.
- `evaluation/rules.py:120` promises to catch mistakes of shape "before the tool errors loudly";
  at `:127` an operation that is a list or an object raises `TypeError`, and the action gate is
  outside the `try` of `run`, so the audit is lost (`ActionGateRaises`).
- `update_user_label` (`storage/postgres.py:371-372`) returns False when the finding does not
  exist; a label that waited for a row which a re-save deleted and inserted again returns False
  for a finding that exists before and after (`LabelMisses` from `"gone"`).
- `docs/memory.md:72` has the history of an account; `load_history` and `get_previous`
  (`storage/postgres.py:213`, `:417`) look for collection and database only, so audits of another
  Cosmos account share it.
- `observability/cost.py:1` and `HANDOFF.md:94` have the cost of every LLM call; `on_llm_call` is
  called for the planner's only (`loop.py:163`), so what the evaluators use is in the report's
  tokens and not in its cost (`CostIsOfTheRun` says what is).
- `HANDOFF.md:87` lists the logger before the tracker; `on_run_complete` is dispatched in that
  order, so the logged event has no cost yet (`logging_observer.py:119`).
- `docs/agent-loop.md:202` calls two agents in parallel safe; with one `CostTracker` or logger
  given to both, the start of one run empties the buckets of the other and renames its records,
  which is why `CostIsOfTheRun` and `LogMatchesReport` are about runs that were alone.

## 7. Plan

What would come next, in order of importance.

1. *Composition* of `Telemetry` with `AuditLoop`, whose decisions it leaves open.
2. A run of the audit loop with `Echoes = BOOLEAN`, which the proofs cover already.
3. Liveness of `AuditMemory`: under which fairness a session that starts ends with an emitted
   report.
