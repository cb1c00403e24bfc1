# TLA+ models of Unblock

Unblock keeps a graph of tasks for people and agents: tasks have a lifecycle and
a parent, depend on each other, are queued for actors, and are mirrored to
external trackers. The rules live in `packages/core`; a command line, an HTTP
server and a web interface call it, and it stores its rows in SQLite, Postgres,
memory or a Prism database.

This directory holds TLA+ modules that model the state-changing and the deriving
parts of the program, TLC configurations that model-check them on small
instances, and proofs that TLAPS checks. `PROJECT.json` maps every definition to
the lines it models and lists components, runs, hazards and theorems. Paths
below are relative to `src/`, and `core/` stands for `packages/core/src/`.

- [Inventory](#inventory)
- [Modules](#modules)
- [Runs](#runs)
- [Fairness](#fairness)
- [Proofs](#proofs)
- [Where code and documents disagree](#where-code-and-documents-disagree)
- [Not modelled](#not-modelled)
- [What could come next](#what-could-come-next)

## Inventory

Requests reach a service object (`core/services.ts`). A service method opens
`store.transaction(...)`, reads rows through repositories, validates, writes rows
plus one activity record, and returns or throws; throwing rolls the transaction
back. Reads for users go through `QueryService`, which builds a snapshot of the
project and caches it under the version of the activity log. Connectors hang on
the side: an outbox of changes to send to a flow engine, an inbox of changes to
apply, and a review queue for fields on which both sides differ.

| Component | State | Operations | What is hard | What makes it correct | Module |
| --- | --- | --- | --- | --- | --- |
| Tasks (`services.ts` 273-598, `graph.ts`) | row per task: lifecycle, parent, archived, version | add, addMany, edit, start, finish, reopen, release, archive, restore, delete | every method checks the hierarchy rules in its own way, archived tasks are invisible to some checks | parents form a forest, finished parents have finished children, a task is finished only with its scope | `TaskGraph` |
| Dependencies (`services.ts` 600-768) | set of edges | add, addMany, remove, set | three cycle checks over three edge sets; edges meet the hierarchy | no cycle, somebody can always work | `TaskGraph` |
| Core stores (`sqlite-store.ts`, `postgres-store.ts`, `memory-store.ts`) | tables, open transactions | begin, read, write, commit, roll back | SQLite runs one transaction at a time, Postgres READ COMMITTED, memory restores a snapshot of everything | methods take effect as if one at a time; updates are not lost; links lead to rows | `TaskTransactions`, `ProjectRecords` |
| Connector outbox (`connector-flows.ts` 85-200, `postgres-store.ts` 2280-2420) | row per event: status, attempts, available_at | enqueue, listReady, claim, markProcessed, markFailed, markDead, the publisher loop | concurrent publishers, lost answers on both sides, death while holding a claim | one holder per event, every event settles, what is recorded happened | `ConnectorOutbox` |
| Connector inbox and GitHub flows (`connector-flows.ts` 224-620, `postgres-store.ts` 206-345, `packages/connector-flows-app`) | row per received event, cursor, run of the flow | receiveForApply, apply, markApplied, the fast path, list, post, observe the cursor | replays, races for one key, a fast path in one SQL statement next to a slow path through the services that can refuse, a listing of one page | each event is applied once, the cursor passes no change that was on its page, a lost webhook is made up for | `GitHubSync` |
| Actor queues (`services.ts` 1139-1231) | tracks, assignments with a position | add, rename, archive, assign, unassign | finish or archive while assigning; an import that asks less | a task is in one queue, only allowed or imported assignments are stored | `ProjectRecords` |
| Tags, instructions, views, feeds, comments (`services.ts` 770-1584) | keyed rows, tag links | add, addMany, edit, archive, restore, assign, remove | a name is checked in one statement and written in another | names are unique, links lead to rows, archived is archived | `ProjectRecords` |
| JSON import (`services.ts` 2338-2530) | none of its own | plan, apply | merges a file into a live project, by rules of its own | the merged project obeys the rules of tasks and dependencies, names and links | `TaskGraph`, `ProjectRecords` |
| Markdown import (`markdown-import.ts`, `services.ts` 2275-2337) | none of its own | parse, apply | one transaction per step, can stop half way | running it again finishes the job | - |
| Read side (`services.ts` 1585-2273) and Prism's caches (`packages/prism-app/src/store.ts`) | snapshot cache; promises and values per surface | list, ready, blocked, rollups | seven reads are separate statements; a cache that is asked for before it is answered; hand-written invalidation tables | what a request was told is written shows in later reads, where the tables are complete | `StoreReads`, `PrismSurfaces` |
| Graph derivations (`graph.ts` 139-330) | none | depths, transitive dependents, rollups | recursion over a graph that writers keep acyclic | equal to their definitions | `TaskViews` |
| Matcher queries (`matcher-query.ts`, `postgres-matcher.ts`, `matcher-fragment.ts`) | none | evaluate, lower to SQL, lower to Prism | three evaluators of one language | what a lowering accepts lists what the service lists | `MatcherQueries` |
| Connector sync (`connector-sync.ts`, `jira-connector.ts`) | policies, review queue | put a policy, resolve, decide, plan, store items, set a status | overlapping policies, items stored one by one under an identity that leaves the decision out | one decision per field that is not disabled, explained by its source | `SyncReview` |
| Responsibility and delegation (`responsibility-mapping.ts`, server identity routes) | identities, responsibilities, rules | map, assign, resolve | two statements per assignment next to operators' writes | a responsible principal was mapped, one rule delegates | `Responsibility` |
| Hosted server (`packages/server/src`) | rate-limit windows, identity cache | admit, authenticate, sync | windows at their edge, concurrent identity sync | at most the limit per window | - |
| CLI, web, simulator, benchmarks, migrations | - | - | - | - | - |

How they interact:

- services call repositories inside one store transaction; the store decides
  what the reads of that transaction see (`TaskTransactions`, `ProjectRecords`);
- task methods and dependency methods share the task rows: a reparent can break
  a rule of dependencies and an archive can hide a task from a rule of parents
  (`TaskGraph`);
- tasks are finished, archived and deleted under the tags, comments and
  assignments that refer to them (`ProjectRecords`);
- connector code enqueues outbox events (`core/connector-reconciliation.ts:133`);
  publishers take them from the table and start flows in an engine outside this
  repository (`ConnectorOutbox`);
- webhook and reconciliation flows post events to the inbox, which applies them
  by calling the task services, or on Postgres by one statement that goes around
  them, while users edit the same tasks (`GitHubSync`);
- reads run beside commits of the same process and of others (`StoreReads`).

The hazards of this code, each at its line and with the properties that are for
it, are listed in `PROJECT.json` under `hazards`.

## Modules

```
TaskGraph  <--EXTENDS--  TaskTransactions          DeliveryPromise      InboxPromise
    ^                          ^                         ^                   ^
    |                          |                         | INSTANCE          | INSTANCE
TaskGraphProofs <--EXTENDS-- TaskTransactionsProofs      |                   |
                                                  ConnectorOutbox       GitHubSync
                                                         ^                   ^
                                            ConnectorOutboxProofs    GitHubSyncProofs

ProjectRecords        StoreReads <--EXTENDS-- MCStoreReads --INSTANCE--> PrismSurfaces
    ^                     ^
ProjectRecordsProofs  StoreReadsProofs

TaskViews <--EXTENDS-- MatcherQueries      SyncReview <--EXTENDS-- Responsibility
                             ^                                          ^
                   MatcherQueriesProofs                        ResponsibilityProofs
```

`TaskTransactions` has `TaskGraph`'s `Spec` as a property: serial transactions
implement it. `MC...` modules extend a specification with the symmetry set and
the tables, files and forms TLC uses. Operators whose comment begins with
"Faulty" are variants with a plausible bug; a run's properties are known to
notice them (`PROJECT.json`, `mutants`).

### TaskGraph

Services and rules as the code means them: one action per service method, run to
completion. The variables are columns: `tasks` (ids that have a row),
`lifecycle`, `archived`, `parent`, `deps`. Ids without a row keep `open`/`None`
in the functions, so that equal tables are equal states.

| Action | Code |
| --- | --- |
| `Add`, `AddMany` | `TaskService.add`, `addMany`, and `upsertFromImport` of a new id |
| `Edit` | `edit`; `start`, `finish`, `reopen` are edits; `Keep` is an absent `parentTaskId` |
| `Release`, `Archive`, `Restore`, `Delete` | the methods of those names; what `Delete` does to children depends on `Store` |
| `DependencyAdd`, `DependencyAddMany`, `DependencyRemove`, `DependencySet` | `DependencyService` |

A method that throws leaves the tables as they were (transaction rollback), so a
refused request is no step: the guards are the validations, in the code's order
where order matters. The walks of `graph.ts` keep a stack and a visited set;
`Reach` is what they visit, stated as the least closed set. That definition is
not recursive, so proofs can use it.

Two details where a method's check looks different from another's are kept,
since they are where the rules could fall apart: the finished-parent rule looks
at the direct parent only, the finish rule looks at all active descendants,
including those below an archived task; `add` and `edit` refuse an archived
parent only when the request names it; `set` walks the edges without those it
replaces; `hasHierarchyPath` sees archived tasks.

Left out because no rule of these two services reads them: titles, sources,
priorities, timestamps, the activity log. Versions belong to
`TaskTransactions`.

### TaskTransactions

The same methods as transactions of concurrent clients. `TaskGraph`'s variables
become the committed rows; `version` and `tx` (per client: what its transaction
has read and done) are added. A method is `Load` (begin, read the row it names),
`Check` (its validations), and a commit: `CommitAdd`, `CommitRow` (edit, release,
archive, restore: all columns are written from the row that was loaded, under
`WHERE version = ...`), `CommitDepend`, or `Detach` followed by `CommitDelete`.
`Rollback` may end a transaction at any step.

`Isolation` is `"serial"` for SQLite (`begin immediate`, `sqlite-store.ts:213`)
or `"read_committed"` for Postgres (plain `begin`, `postgres-store.ts:189`).

Three reductions, and why they are sound for the properties checked:

- *The statements of one validation are one read.* Splitting them would add
  behaviours in which one check sees several states. The properties that hold
  here hold because of what the write statement itself tests (the version
  compare, the primary key, the foreign keys), not because of a check; those
  that fail, fail already with the coarser read.
- *A write and its commit are one step.* Between the two the row is locked for
  other writers, and readers at READ COMMITTED see the old row, as if the write
  had not happened. Hard delete has two writes, so it keeps both and the lock
  between them (`LockedByOthers`).
- *addMany, dependency addMany, set and remove are not split.* They add no new
  kind of statement: `addMany` inserts rows as `add` does, the others insert and
  delete edges.

### ConnectorOutbox and DeliveryPromise

`ConnectorOutbox` has the `outbox_events` rows (`status`, `attempts`, and of
`available_at` only whether it has come, `due`), one process per call of
`publishConnectorOutboxToPrismFlows` (`pub`: its program counter, the rest of
its list, the event it holds), and the flow engine as the set of start requests
under way and the set of events that have a run. Every repository statement is
one step, and so is each stretch of the publisher between two awaits.

| Action | Code |
| --- | --- |
| `Enqueue` | `enqueue`, `ON CONFLICT DO NOTHING` on the idempotency key |
| `List`, `Claim`, `Return` | `listReady`, then `claim` per listed event, skipping those no longer ready |
| `StartFlow`, `FlowStarted`, `FlowFails` | `client.startFlow`, its answer, a throw from it or from parsing the payload |
| `EngineStarts`, `EngineRefuses` | external: mode `attach_or_start` with the event's idempotency key; a request may be taken up after its caller gave up waiting |
| `MarkProcessed`, `MarkProcessedThrows` | `markProcessed`; its answer may be lost before or after the commit, and it stands inside the `try` |
| `Catch` | the catch block: `markDead` when attempts are used, else `markFailed` with a later `available_at` |
| `Crash` | the process dies, or a repository call throws out of the function |

`DeliveryPromise` is what a caller of `enqueue` may expect: each accepted event
is delivered or given up, the outcome is recorded once and stands, "done" is
recorded only of a delivered event, and every accepted event settles. The promise
lapses (`lapsed`) with the first crash or lost answer of the database, after
which nothing is asked of the outcomes any more.
`ConnectorOutbox!KeepsPromise` states that the outbox implements it under

    outcome[e]  <-  none / waiting / done / given_up, from the status column
    delivered   <-  runs
    lapsed      <-  faults > 0

### JSON import (in TaskGraph)

`Import` is `ImportService.json`: the rows of a file replace or join the stored
ones in one transaction, its edges join the stored edges, and the rules are
checked once, on the merged project. It takes what the single requests refuse
(archived parents, archived ends of dependencies). The files are a constant,
since a file can say anything; `MCTaskGraph!SmallFiles` has files of one
task and files of a parent, its child and dependencies on a third task. The same
method's merge of tags, tracks, instructions and comments is in `ProjectRecords`.
The file's `version` overwrites the stored one without a compare
(`sqlite-store.ts:297`, `postgres-store.ts:1491`); versions are not in this
module.

### GitHubSync and InboxPromise

Issues coming into a hosted project: GitHub as the repository's simulator has
it, the webhook flow, the reconciliation flow, the inbox endpoints and the
Postgres transactions that apply an event.

| Action | Code |
| --- | --- |
| `Change`, `Tick`, `Pages` | external: an issue is created, edited, closed or reopened at the clock's second; the listing is newest first, one page of `PageSize` |
| `FastApply` | `applyConnectorTaskUpsert`: inbox row, mapping, task and activity in one statement, for upserts with a mapping |
| `Begin`, `LoadAgain`, `Commit`, `Refuse` | `applyConnectorInboxEvent` in a transaction: the key is claimed by the insert, `add` falls back to `edit`, the version is compared; a missing task, a finished parent or a changed version rolls everything back |
| `Wait`, `Proceed`, `LosesRace` | `receiveForApply` of a key another transaction holds: the insert waits, claims the key if the other is rolled back, and finds no row, hence a 500, if it commits |
| `Duplicate` | a committed row with the key: answered, nothing done |
| `HandlerDies`, lost answers in `Answered` | the flow posts again, the reconciliation flow its whole batch |
| `ReconcileStart`, `Listed`, `PostCursor`, `ObserveCursor` | `github-issues-reconcile`: read the cursor, list, post each event and then the cursor event; the server stores the cursor in statements after the inbox transaction |
| `UserEdits`, `UserMoves` | a user's edit of the task while a handler has it loaded; edits that bring the task under a finished parent or out of it |

`InboxPromise` is what a flow may count on: an event takes effect at most once,
and one reported as applied or duplicate has taken effect.
`GitHubSync!KeepsInboxPromise` states the refinement (the variables have the
same names: `effects` and `acked` are history variables of `GitHubSync`).

A task is reduced to the revision of the issue it shows, whether it is archived
and whether its parent is finished (`barred`). Connection records, sync runs,
activity and other columns are left out. A handler reads what `barred` says when
it loads the task, since the parent is another row, whose change leaves the
task's version alone. `leftOut` is a history variable: the changes the listing
had no room for on its one page.

### ProjectRecords

Tags, actor queues, matcher records (instructions, saved views and queue feeds,
three services of one pattern) and comments, and the links of tags and queues to
tasks. A behaviour is about one table (`table`) under one isolation
(`isolation`); both are chosen in `Init`, so that one run covers all
combinations. A method is a request that reads and validates, and a commit that
writes every column as it was read: no table here has a version. What the
database adds is in the commits: the primary key and the unique indexes
(`IndexAccepts`, `QueueIndexAccepts`), foreign keys (`CommentTasksStored`, the
first conjunct of `CommitLink`), `on conflict do nothing` for tags, cascades of
a task's deletion (`LinksAfterDelete`, `TaskDeleted`).

A JSON import is one of the requests: `BeginImport` has the validations of the
file against what is stored, `CommitImport` writes tasks, then rows, then links.
It updates rows whole, with the file's `archivedAt`, and stores assignments and
tags without asking whether the task is finished or the record archived
(`services.ts:2415-2505`). Rows are updated one by one, so that a name is free
for a row only if its holder comes earlier in the file (`place`). The files are
the constant `Files`; `MCProjectRecords!SmallFiles` has a tag or queue with a
link, a link alone or with a task the file closes, a comment alone or with its
task, and two records of which one may take the name the other gives up.

The positions of assignments are left out: nothing keeps them apart or dense
(see [below](#where-code-and-documents-disagree)), and no rule reads them.

### PrismSurfaces and StoreReads

`PrismSurfaces` is data: what each surface of `app.ts` derives from, and what
`invalidateReadCaches` forgets after a write of each kind. `AppDependsOn`
follows the derivations down to stored facts. `CachedReads` is everything the
repositories read through a cache, in either read mode. Of these `Forgotten`
holds where every write of a fact the read derives from makes the store forget
it; `MCStoreReads!FreshReads` is those, and `StaleReads` names the others: the
two closures, the dependency summary and the instruction matches.

`StoreReads` is the protocol, for any such tables. A behaviour watches one kept
read. A write is submitted, lands in the database, and is answered, at which
point the store forgets what its table says; a read puts a promise into the
cache before it is answered, the answer replaces it only if it is still there.
Commits of other processes, failed writes and reads, and times to live are
actions too. `Entry` is all cached reads and `Fresh` those whose tables are
complete; the protocol runs for all of them, and `AnsweredCommitsShow` is asked
of `Fresh`. The Postgres half is `projectSnapshot`: the version is read first,
the lists afterwards and one by one, and the snapshot is kept under the version.
A value is the number of commits it was computed from, so that "older" is a
comparison of numbers.

### TaskViews and MatcherQueries

Pure functions, checked against reference definitions over all small worlds and
proved to agree with them over all worlds.
`TaskViews` has what a listing derives: blocked, ready, computed status, depths,
transitive dependents, rollups. `MatcherQueries` evaluates the tree of a query
in three ways: as the service does, as the SQL of `postgres-matcher.ts` does
(three truth values, `EXISTS` over walks), and as the Prism fragment does over
the surfaces of `app.ts` (closures that include walks through archived tasks).
The service is the meaning, as `docs/matcher-lowering-contract.md:15` says. The
antecedents of `PostgresAgrees` and `PrismAgrees` list exactly where the
lowerings are known to differ; see
[below](#where-code-and-documents-disagree). Parsing is left out: a query is the
tree the parser builds, as the sequence of its nodes with the operands of a node
before it, so that an evaluation is one recursive function over positions.

Two assumptions say what the stored states are (`IsWorld`) and what the parser
builds (`IsQuery`). Hierarchy and dependencies have no cycle, which is
`TaskGraph`'s `ParentForest` and `DependencyDAG`; `root` is no task's id, since
it is how a query names the absent parent. The parser lets any field be compared by
any operator, and so do the queries considered; where the SQL lowering throws
(`Untranslatable`), the listing is an error (`None`).

### SyncReview and Responsibility

`SyncReview`: policies with priorities and scopes, their resolution field by
field (a recursive function over the records still to apply, the last one by
`comparePolicyRecordForApplication` on top of the others), the
decision, and a run that plans once and then stores one item a statement while
policies, both sides and reviewers' verdicts change, or dies in between. A value
is reduced to whether it differs, a timestamp to a small number, or none. A
scope is a query that matches the issue's task or not; those in `Invalid` do not
parse. Nothing parses a scope before it is stored, and evaluating one throws, so
a run that meets one among the enabled policies for its issues ends without
storing an item (`Breaks`, `PlanFails`).

`Responsibility`: a run that sees an assignee looks the account up, stores its
identity row, and then stores the responsibility; operators store identities,
responsibilities and delegation rules directly. `TaskDelegations` resolves the
rules; a rule whose scope does not parse makes that throw, and is left out. Its
rows have only the task in common with those of `SyncReview`, so a
behaviour of `PeopleSpec` is about one of the two (`part`).

No flow in the repository calls these planners yet; the sequence of calls that
makes up a run is taken from their exports and from `connector-product.test.ts`.

## Runs

| Run | Question | Bounds | States | Result |
| --- | --- | --- | --- | --- |
| `postgres` | Do the rules of tasks and dependencies survive every sequence of requests and imports? | 3 ids, batches of 2, Postgres deletes, files of 1 or 2 rows | 12,364 | holds |
| `serial` | Is `TaskGraph` a sound abstraction of SQLite transactions? | 2 ids, 2 clients, all methods, version <= 4 | 108,952 | holds |
| `rows` | Are updates lost on Postgres? | 2 ids, 2 clients, add, edit, release, archive, restore, version <= 2 | 1,329,231 | holds |
| `tx_dependencies` | Does the dependency graph stay acyclic on Postgres? | 2 ids, 2 clients, add, depend | - | violated |
| `tx_deletes` | Do dependencies lead to rows when inserts and hard deletes overlap on Postgres? | 2 ids, 2 clients, add, depend, delete, version <= 2 | 14,022 | holds |
| `outbox` | What does the outbox keep through crashes and lost answers, and does it implement `DeliveryPromise`, liveness included, until the first? | 2 events, 2 publishers, 3 attempts, 2 faults | 218,476 | holds |
| `github_inbox` | Does the inbox keep its promise, is the cursor sound, is a lost webhook made up for? | 2 issues, 2 handlers, page of 1, window 1, 2 changes, 2 seconds, 1 fault | 251,248 | holds |
| `github_reconcile` | Does every issue that stays open get its task? | 2 issues, 1 handler, page of 2, 4 changes, 1 second, no faults | - | violated |
| `records` | Do names, links, assignments and archives survive concurrent requests and imports? | 2 tasks, 2 rows, 2 names, 2 clients, every table, both isolations, small files | 702,474 | holds |
| `reads` | Does what was answered show in later reads? | every cached read of the Prism store, every kind of write, 2 writers, 2 readers, 2 commits | 2,748,733 | holds |
| `matcher` | Do the lowerings agree with the service, and the derivations with their definitions? | 3 tasks; all forests and acyclic dependencies, one finished and one archived at most; rows with every column; graph queries and row queries, those SQL refuses among them | 188,115 | holds |
| `review` | Is every decision the ranking policy's, and is accountability traceable? | 2 fields, 2 policies, 5 forms, 1 scope that is read and 1 that is not, 2 runs, 1 change and 1 tick; 1 account, 2 principals, 2 roles, 2 rules, 2 workers, 2 requests | 1,756,414 | holds |

Which properties a run checks is in its `.cfg`; each property is explained where
it is defined.

Why the bounds are enough to be interesting:

- *Three task ids.* The shortest hierarchy in which a finished task has a
  grandchild behind an archived task, the shortest cycle that no single
  request's edge closes alone in a batch of two, and a dependency cycle through
  a hierarchy line all need three tasks. The state space is closed: no bound
  cuts a behaviour short except `MaxBatch` and the files.
- *Batches of two* let a parent come later in the batch than its child and let
  two new edges close a cycle only together.
- *Two ids, two clients* in `TaskTransactions`: what one transaction can do to
  another, and to a row or its one relative. `MaxVersion = 2` allows, per row,
  two clients to load version 1, one to commit, and the other to be refused;
  4 (serial) allows chains such as finish, archive, restore. With `delete`
  among the methods a row can come back, and version 1 with it.
- *Two events, two publishers* let an event be on two lists at once and a
  publisher come back to the second event after failing with the first. With
  three attempts faults can hit the first, the middle and the last one.
- *Two issues, two handlers*: an issue can change between the listing and the
  post of the other's event, and two posts of one event can be under way, one
  of which waits for the other. A page of one has no room for the second of two
  issues that changed, which is what a page of 100 does to the 101st; in
  `github_reconcile` a batch has a first and a second event. Two seconds
  and a window of one let changes share a second and fall before, on and after
  the cursor.
- *Two rows, two clients* in `ProjectRecords`: two requests that take the same
  name, two assignments of one task to two queues, an edit over an archive, a
  request that was checked before an import. Nothing is bounded beyond the sets
  and the files.
- *Two commits* in `StoreReads`: one that matters to a pending read and one that
  lands before or after it is computed. The protocol compares numbers only with
  each other, and the proof covers any number.
- *Four forms of policy* overlap at equal and at different priorities, one is
  disabled, one has a scope, so that each key of the ranking decides somewhere.
  A policy with the scope that cannot be read can come in before, between and
  after the runs.

Deadlock checking is on for the task modules (a request can always be made) and
off elsewhere, where the system may rest: every event settled, every bounded
change used up, a query answered.

Symmetry is used in runs without liveness, for sets whose members nothing in the
code treats specially. Policies and rules are not symmetric: their ids break
ties.

## Fairness

`ConnectorOutbox!FairSpec`:

- `WF(Step(p))`: the publisher is called again and again while there is work,
  and it never waits for ever: a call of the engine ends with an answer or an
  error. This is an assumption about the deployment: the repository exports the
  publisher and leaves calling it to "a hosted publisher" and "retry workers"
  (`docs/hosted-unblock-architecture.md:493`, `docs/core-storage-contract.md:90`),
  and the engine client is passed in. Within one call the loop has no other
  wait: each `await` is a repository statement or `startFlow`.
- `WF(BecomeDue(e))`: time passes, so `available_at` comes.

Nothing is assumed of the engine (it may never take a request up, or refuse
every one) nor of `Enqueue`, `Crash` or the loss of answers. Weak fairness of
`Step` as one disjunction is enough: no publisher can be kept from an enabled
step by another for ever except by having its claim refused, which is itself a
step.

`GitHubSync!FairSpec`: the reconciliation flow is scheduled again and again and
takes its steps, its posts are repeated until they are answered (the `retryOn`
of `flows/github-issues.ts`), and each handler goes on with the transaction it
has begun. Webhooks are owed nothing, neither delivery nor an answer: the point
of `MissedWebhookRepaired` is that the flow makes up for them. Weak fairness is
stated per kind of work and not per event; a handler that is kept busy with
webhooks for ever is impossible since changes are bounded, which is the case the
code means ("missed webhooks" after a burst has ended).

## Proofs

TLAPS checks the following for every value of the constants, under the `ASSUME`s
in the modules (ids differ from `None` and `Keep`, at least one attempt, bounds
are naturals; policies, fields and rules are finite sets of ids that have an
order, as the rows of a table are; the forms of policies and the instances of
queries have the columns of their types) and the assumptions a theorem names.

**TaskGraphProofs** (any set of ids, any store, any batch size, any files)

- `TypeCorrect`: `Spec => []TypeOK`. `TypeOK` is inductive as it stands: besides
  types it says that dependencies join rows, that archived ids have rows, and
  that outside the memory store a parent link leads to a row. The last part is
  what makes `delete` and the guards of `edit` fit together.
- `ParentForestInvariant`: `Spec => []ParentForest`. The argument is one lemma
  about graphs, proved from the least-closed-set definition of `Reach`: if a
  graph has no cycle and `x` cannot be reached from `y`, adding `x -> y` makes
  no cycle. `add` and `edit` use it with the old link removed first. `addMany`
  checks the complete new graph, each new link separately: a cycle in it would
  have to pass a new link, since the stored links are acyclic. In the memory
  store the links of deleted ids stay, and the proof covers that too: the walk
  in `assertNoParentCycle` follows stored values, not rows. An import checks
  every link of the merged project, so its case needs no old link at all.
- `DependencyDAGInvariant`: `Spec => []DependencyDAG`, by the same lemma for
  `add`; `set` adds several edges that share their source, and a walk that
  comes back to the source closes the cycle with one of them alone.
- `FinishedParentsInvariant`: `Store # "memory"` and `Spec` give
  `[]FinishedParentsClosed`. It needs `TypeOK` (in the memory store, a link to
  a deleted id may meet a later row of that id).
- `FinishingClosesScopeTheorem`, `OverlapTheorem`: the two action properties,
  again outside the memory store. For a batch, the finished tasks among the new
  ones are closed downwards, since a new task has no stored child (`TypeOK`) and
  `addMany` compares each new child with its parent. For overlaps, new rows
  bring no stored task into a stored scope (`ScopeKept`), rows that go only
  shrink one.
- `SomeTaskUnblockedInvariant`: with finitely many ids, `Spec` gives
  `[]SomeTaskUnblocked`. It follows from `DependencyDAG` by a lemma about
  finite graphs, `AcyclicHasSink`: of the sets of tasks reached from the
  unfinished ones, one is minimal under inclusion (strict inclusion of finite
  sets is well-founded), and its task waits for no unfinished one, since what
  such a dependency reaches would be a smaller set, the graph having no cycle.

**TaskTransactionsProofs** (any number of clients, ids and versions)

- `TxTypeCorrect`; it needs *RowRead*, that a request that rewrites a row has
  one.
- `DependencyEndsStoredInvariant`, under either isolation: inductive as it
  stands, because the foreign keys are tested in the very steps that write.
- `SerialImplementsTaskGraph`: `Isolation = "serial"` and `TxSpec` give `Spec`.
  The invariant `SerialInv` says that one transaction is open (*Alone*), what it
  has read is still so (*Fresh*), what it has checked would pass now (*Passed*),
  and a delete still holds the children (*Held*). Each commit is then the
  `TaskGraph` action of its request; a row written from a loaded copy is the
  same as a row edited in place. `SerialKeepsGraphs` carries both acyclicity
  theorems over.
- `NoLostUpdate`: without deletes, `ColumnsChangeOnlyAsAsked` under either
  isolation. The invariant: a loaded row is older than the stored one, or has
  its version and then its columns. Deletes are left out because they reset the
  version, and then it is false.

**ConnectorOutboxProofs** (any set of events and publishers, any number of
attempts and faults)

- The inductive invariant `IInv` is `TypeOK`, `OneHolder`, `ProcessedHasRun`,
  `DeadOnlyWhenExhausted` and the links between a publisher's program counter
  and the row it holds. `OneHolder` alone is not inductive: a claim by a second
  publisher is refused only because the row of a held event is `claimed` (or
  `processed`, when an answer was lost), hence *HeldIsClaimed*.
  `ProcessedHasRun` needs *StartedHasRun* (a publisher past `FlowStarted` has
  seen the run). The others are *NewIsUntried* and *RequestedIsStored*.
- `OutboxTypeCorrect`, `OneHolderInvariant`, `ProcessedHasRunInvariant`,
  `DeadOnlyWhenExhaustedInvariant` follow from it.
- `OutboxKeepsPromise`: `Spec => Promise!PromiseSafety`: the initial states map
  to initial states, every step to a step of `DeliveryPromise` or to none, and a
  crash or a lost answer to `Lapse`. After the first one every step is a `Lapse`
  again, since nothing is promised any more.

**GitHubSyncProofs** (any issues, handlers, page size, window and bounds)

- The inductive invariant has the types, *HandlersApart* (an open transaction
  holds a key that is neither in the table nor held by another), *Counted* (a
  key has taken effect as often as it is in the table) and *BatchProgress* (the
  events of the batch before the current one are in).
- `SyncTypeCorrect`, and `InboxKeepsPromise`: `Spec => Promise!Spec`. The step
  simulation is *Counted*: a key that takes effect was not in the table.
- `CursorSoundTheorem`: `Spec => []CursorSound`, for pages of any size. The
  additional invariant *ListingComplete* says that while a run works on its
  listing, whatever GitHub shows as changed before the cursor to come is in the
  inbox, or in the listing as it is now, or was left out of a full page. The
  last case is the code's: the flow asks for one page of 100, newest first, and
  moves the cursor to the newest (`helpers/github-connector.ts:93`).

**StoreReadsProofs** (any facts, reads, writers, readers, number of commits)

- `ReadsTypeCorrect`, `SnapshotCurrentTheorem`, and `AnsweredCommitsShowTheorem`,
  the last from *TablesComplete*: a write of a fact makes the store forget each
  read of `Fresh` that derives from it. The theorem reduces the safety of the
  caches to a property of two tables, and TLC evaluates for the tables of
  `app.ts` and `store.ts` that `FreshReads` are just the reads that have it
  (`MCStoreReads!TablesAssumption`). The invariant adds to the types that an
  answered commit that matters is in the value kept, or in what the pending
  promise has computed.

**ProjectRecordsProofs** (any tasks, rows, names, clients, both isolations)

- `RecordsTypeCorrect`, `NamesUniqueInvariant`, `LinksSoundInvariant` from
  `RInv`: *RequestsOK* (what an open request holds: its new rows have names of
  their own, its links lead to rows or to what its file brings, the row it
  writes was there) and *RowsOK*
  (only comments are ever deleted). They hold at READ COMMITTED too, because
  the indexes and foreign keys are tested in the steps that write.
- `AssignmentsAllowedTheorem`, `ArchivedForGoodTheorem` from `SInv` on top: under
  SQLite one request is open and what it has checked is still so. What an
  imported file says is exempt in both, since an import checks neither; at READ
  COMMITTED both fail.

**ResponsibilityProofs** (any accounts, principals, roles, rules, workers,
policies, fields, connector runs, any number of edits)

- `PeopleTypeCorrect`, `ResponsibleWasMappedInvariant`, from *SavedBefore*: a
  worker about to store a responsibility has stored the row that maps the
  account.
- `ReviewTypeCorrect`, `ExplainedBySourceInvariant`, `ReviewCompleteInvariant`,
  from `ReviewInv`: the types, also of what a run holds (*RunsOK*), *FormsStored*
  (a policy in the table has its form in the history), *PlansExplained* (a plan
  under way names sources that existed, which `ExplainedBySource` needs because
  the items of a plan are stored later than they were decided) and *CalmRuns*
  (what an undisturbed run still has to store is what it would plan now, and
  what else it would plan now is stored).
- `ReviewComplete` asks for nothing where the deciding mode is `disabled`, on
  which the code and a document disagree
  (see [below](#where-code-and-documents-disagree)). A run that meets a scope it
  cannot read ends as one that died does, with nothing stored.
- The heart of `ReviewComplete` is `ResolveIsResolution`: applying the records
  that fit one over the other, in the order of the code, leaves each field with
  the mode of the last record that names it, or of the base. The property asks
  for the decision of the record that ranks highest; the code never looks for
  it. The lemma is an induction over sets of records, done as a least
  counterexample: among the sets for which it fails one is minimal under strict
  inclusion, and taking away its last record gives a smaller one.
- `PeopleKeepReview`: `PeopleSpec => Spec`, so the three hold in the composition
  the run `review` checks.
- `DelegationsSoundInvariant`: the rules in the order in which they are tried are
  the stored rules, each once (`RulesCanBeOrdered`: such a sequence exists), and
  the first that fits is the one no other that fits comes before.

**MatcherQueriesProofs** (any tasks, any acyclic worlds, queries of any size and
nesting)

- `DerivationsSoundInvariant`: the recursion for depths gives the length of a
  longest path, and the one for dependents the tasks from which the task can be
  reached, for active tasks. The recursive functions are shown to satisfy their
  defining equations by a least counterexample along the (acyclic) edges;
  `PathIsShort` says that a path in a finite acyclic graph repeats no task, so
  that its length is a bounded number and a longest path exists.
- `RollupsSoundInvariant`: a rollup is the sum over the children, and counts
  each active leaf below exactly once because the branches below two children
  of a forest are disjoint (`BranchesApart`).
- `PrismAgreesInvariant`: when nothing is archived, no condition is on the
  parent, `!=` is on no field with several values and a tag is only asked to be
  equal or in a list, each leaf means the same
  (`FragmentAgrees`), and the connectives are the same. The property excludes
  walks that return to their start, which a task that depends on its own child
  or parent can have and only the closures of Prism show.
- `PostgresAgreesInvariant`, for the queries SQL accepts: a node is true in SQL
  exactly when the service matches it, and null only where `Nullable` says a
  value may be missing. The second half makes the first inductive: the negation
  of a null is null,
  so the operand of a `not` must not be null, and `PlainInSql` excludes it by
  what the operand is built from (`Within`). A depth rule with `<` or `<=` may
  look at any simple path, since the shortest is one.

Every invariant of every passing run is stated by a theorem; the action
properties are too.

Only model-checked:

- liveness (`KeepsPromise` has it, `MissedWebhookRepaired` is it): fairness and
  `ENABLED` are out of the prover's reach. `OutboxKeepsPromise` is the safety
  part of the first, through faults;
- the two violated runs, which are counterexamples and need no proof;
- that the tables of the fresh reads have *TablesComplete*, and that the worlds and
  queries of the run `matcher` have `IsWorld` and `IsQuery`: TLC evaluates both
  for the given constants.

## Where code and documents disagree

Two disagreements have a run that exhibits them (`findings` in `PROJECT.json`
quotes the texts).

- *Write skew on Postgres* (`tx_dependencies`). Two inserts, each checked before
  the other commits, close a cycle.
- *A closed issue stops reconciliation* (`github_reconcile`). The batch posts an
  archive event for a closed issue that never had a task; it is answered 404,
  the flow run fails, the cursor stays, and issues listed behind it never get a
  task. The positive side is `MissedWebhookRepaired`, which assumes that it does
  not happen, nor its sibling: the slow path reopens the task by an edit, which
  is refused while users keep the task under a finished parent
  (`services.ts:468-472`), and the batch fails with it.

The others were met while modelling. The models reach them, and no run states
them, so that nobody should take the silence of the runs for an answer.

Tasks and dependencies (`TaskGraph`):

- *Edges inside a hierarchy line* (`docs/design.md:215`). `edit` reparents
  without looking at dependencies. The positive side is
  `OverlapOnlyByReparenting`: no other single request makes one. An export of
  such a project is refused when it is imported again.
- *Open work under a finished task* (`docs/design.md:218`). Archive the middle
  one of three finished tasks and reopen the lowest: the rule looks at the
  direct parent. The positive side is `FinishedParentsClosed` and
  `FinishingClosesScope`.
- *Nobody can finish anything* (`docs/hosted-unblock-architecture.md:1081`). `p`
  waits for its child `c`, `c` depends on `x`, `x` is or contains something that
  depends on `p`: each check walks its own graph, the waits go through both. The
  positive side is `SomeTaskUnblocked`: dependencies alone cannot do it.
- *SQLite refuses to delete a parent* (`migrations.ts:160` against
  `docs/hosted-unblock-architecture.md:966`, `docs/design.md:457`). The composite
  foreign key nulls the `NOT NULL` `project_id` of the children too.

Transactions (`TaskTransactions`, `ProjectRecords`):

- with `Ops = {"add", "edit"}` and READ COMMITTED two reparents break
  `ParentForest`, and finishing a parent while a child is added breaks
  `FinishedParentsClosed`;
- with `delete` and `add` a child committed between `Detach` and `CommitDelete`
  keeps a parent without a row (Postgres has no foreign key on
  `parent_task_id`), and `Detach` does not move the version of the children it
  updates;
- with `delete`, an id that comes back starts at version 1 again, so a version
  compare can succeed against another row (`ColumnsChangeOnlyAsAsked` fails);
- at READ COMMITTED a rename or edit writes back an `archived_at` it read before
  an archive, and a task that is finished while it is being assigned stays
  assigned ("Finished tasks cannot be assigned", `docs/core-storage-contract.md`);
- after an unassign positions repeat: the next one is the number of assignments
  plus one (`services.ts:1208-1211` against
  `docs/hosted-unblock-architecture.md:1082` and `docs/design.md:347`), and an
  import brings the positions of its file. Positions are not in the model;
- an import assigns finished tasks and archived queues, and an archived tag or
  queue comes back when a file has it as active (`services.ts:2415-2505`). The
  properties name that exception;
- `TagService.assign` and `remove` ignore that a task is archived, and `assign`
  of tracks does not ask whether the task is blocked, which `docs/design.md`
  requires;
- the memory store has no unique indexes, and a transaction that fails restores
  a snapshot of everything, what others have written meanwhile included
  (`memory-store.ts:113`).

Connectors (`ConnectorOutbox`, `GitHubSync`, `SyncReview`, `Responsibility`):

- *A claimed event is lost* (`connector-flows.ts:157` against
  `docs/hosted-unblock-architecture.md:830`): no statement returns an event
  whose publisher died. A lost answer of `markProcessed` also leads the catch
  block to record `failed` or `dead` over `processed`. This is why
  `DeliveryPromise` lapses with the first fault;
- reconciliation asks for one page (`helpers/github-connector.ts:93`). When more
  than 100 issues have changed since the cursor, the older ones are left out,
  the cursor passes them, and no later listing goes back to them
  (`docs/hosted-unblock-architecture.md:689`, "Backfill/poll reconciliation for
  missed webhooks"). `CursorSound` and `MissedWebhookRepaired` exempt them;
- of two requests with one event key the second waits in the insert; if the
  first commits, the second's statement finds no row in its snapshot, reads a
  property of `undefined` and is answered 500 (`postgres-store.ts:2472-2512`).
  The flow's retry is then a duplicate;
- a webhook that arrives after a newer one is applied over it: nothing compares
  revisions (`postgres-store.ts:286`), and the fast path sets a started task
  back to open and restores an archived one;
- two updates of an issue in one second share their backfill key
  (`helpers/github-connector.ts:348`): the second is a duplicate;
- a conflict is answered 400, which the flows do not retry;
- observing an inbox event reads the connection and then stores it, so that a
  pause in between is undone (`connector-reconciliation.ts:155`);
- a field whose mode is `disabled` gets an item with the decision `ignore` in
  the review queue, where `docs/hosted-unblock-architecture.md:564` says that
  its divergence is not detected. `ReviewComplete` asks for such an item neither
  way;
- a stored scope that does not parse stops every run it applies to
  (`connector-sync.ts:628`), since storing a policy does not parse it (`:74`);
- planning again overwrites a reviewer's verdict with the planned status
  (`connector-sync.ts:268`), and disabling a policy leaves its pending item
  beside the new one: the policy is part of an item's identity;
- the previous assignee's responsibility is never archived
  (`docs/hosted-unblock-architecture.md:641`), and a mapping an operator stores
  between the lookup and the write of `assign` is lost
  (`responsibility-mapping.ts:209`).

Reads and queries (`StoreReads`, `MatcherQueries`):

- `packages/prism-app/README.md:7` calls the adapter free of caches; it has the
  ones modelled here. Commits of other processes do not show in them before they
  expire, a commit whose answer is lost never invalidates, and two of the caches
  keep a promise that was rejected, so that later reads fail with it
  (`store.ts:586`);
- the invalidation tables are incomplete for four reads: the two closures, which
  `inspectAdd` reads (`store.ts:1344-1350`), the dependency summary, which
  `hasDependencyPath` reads and no reparenting forgets (`1375-1385`), and the
  instruction matches, which only writes of instructions forget (`628-650`,
  `774-777`). In materialized mode they stay for their time to live, 250 ms
  unless it is configured (`store.ts:2404`). An answered commit does not show in
  them until then, so that a dependency check of the same process can still find
  no path and let a cycle through. `AnsweredCommitsShow` is about the other
  reads;
- a Prism transaction does not see its own writes (`store.ts:368` against
  `docs/core-storage-contract.md:38`);
- `comments in (...)` and an ordering of texts (`tag < x`) are queries the parser
  accepts and the service answers; the SQL lowering throws
  (`postgres-matcher.ts:59-62`, `72`, `294-299`), and the listing fails with it,
  as nothing falls back to the service (`services.ts:1672-1690`). Prism reads
  `tag < x` as equality (`matcher-fragment.ts:446-457`), the service as never
  true;
- the SQL of a depth rule looks at every simple path and not at the shortest
  (`postgres-matcher.ts:200` against `docs/matcher-lowering-contract.md:15`), so
  that "depends on X depth = 2" lists a task that also depends on X directly;
- `not`, `!=` and `not in` over an absent value are unknown in SQL and true in
  the service; `!=` over a field with several values differs in all three ways;
  archived tracks count for the service and not for SQL; the service's walks
  leave finished tasks out when the listing does, the others' do not; Prism
  ignores that tags and tracks are archived and walks through archived tasks.

## Not modelled

- *Command line* and *web interface*: they parse arguments or render, and call
  one service method or route per command; no state that a rule depends on.
- *GitHub simulator's harness, smoke tests, benchmarks, the workload runner*:
  test equipment. What the inbound flows use of the simulator is modelled.
- *Generated clients* (`packages/*/generated`): no behaviour of their own.
- *Parsing, formatting, exporters' text, explanations*: string processing.
- *Markdown import*: each row is an `Add` or `Edit` of `TaskGraph` followed by
  an assignment of `ProjectRecords`, one transaction each; a failing row leaves
  the earlier ones (`services.ts:2289`). How a file becomes rows is string
  processing.
- *Positions in actor queues*, and *delegation rules whose scope cannot be read*.
- *Schema migrations* run once; their keys and foreign keys appear as guards of
  the modelled statements.
- *Prism's own transactions*: what it does with buffered writes is up to its
  runtime, which is not in the repository.
- *Hosted authentication* talks to an external issuer. *Rate limiting* is a
  tumbling window of one counter per caller, without interleaving.
- *The record mappings of the GitHub and Jira connectors* and the *outbound
  flow*: functions from one record to another.
- *Sequences of SQL inside one statement* are the database's business: a single
  statement is atomic. *Failures of the database itself* beyond a lost
  connection are left out.

The command line, the web interface, the simulator's harness, the smoke tests,
the benchmarks and the generated clients are more than a third of the
repository's code. Much of the rest repeats a few patterns: four stores hold the
same repositories, table after table, and a definition here stands for one of
them and names its lines.

## What could come next

- the bulk methods of tasks and dependencies as split transactions;
- the memory store and Prism as further isolation levels of `TaskTransactions`;
- the outbound flow, composed with `ConnectorOutbox` and `GitHubSync`, for
  echoes: an issue created from a task comes back as a webhook;
- which part of `DeliveryPromise` survives a lost answer, stated as an abstract
  specification of its own.
