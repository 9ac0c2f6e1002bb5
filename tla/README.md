# Ent Admin in TLA+

Specifications, TLC models and TLAPS proofs kept beside the Go repository
`malero/ent-admin`: a read-only admin UI that is generated for an Ent schema and
mounted by a host program as one `http.Handler`. Paths below are relative to
the repository (`src/` here).

## 1. Inventory

### Components

| component | code | state | operations |
|---|---|---|---|
| App, the request path | `app.go`, `config.go`, `contract.go` | per request: position in the middleware chain, header map, what is on the wire | `ServeHTTP`, `serveHTTP`, `serveIndex`, `serveList`, `serveDetail`, `serveVSNAsset`, `renderError`, `renderPage`, `renderDetailFragment` |
| URL matching and links | `app.go:207-304`, `internal/ui/helpers.go` | none (functions of base path, routes, path) | `match`, `relativePath`, `decodeSegment`, `normalizeBasePath`, `pathFor`, `entityPath`, `recordPath` |
| Construction | `app.go:29-57, 306-356` | `App.basePath`, `App.registry`, `App.handler`, fixed by `New` | `New`, `validateRegistry`, `nilReader`, `Registry.Find` |
| Renderer | `internal/ui`, `internal/view` | what a component has written | `Render`, `RenderDetailFragment`, the Templ components, `ServeVSNScript` |
| Generated reader | `example/ent/entadmin.go` (from `entc/template/admin.tmpl`) | none; it reads the host's database | `List`, `Get`, the id parser |
| Example program | `example/app.go`, `example/cmd/admin/main.go` | the SQLite file, which survives restarts | `Open`, `Seed`, `NewHandler`, `main` |
| Ent client, transactions | `example/ent/client.go`, `tx.go`, `ent.go`, `hook/hook.go` | hooks and interceptors of a client, hooks of a transaction, the hooks of a chain | `Tx`, `Commit`, `Rollback`, `OnCommit`, `OnRollback`, `Use`, `Intercept`, `withHooks`, `NewChain`, `Append`, `Extend` |
| Ent mutations and builders | `example/ent/mutation.go`, `book_create.go`, `book_update.go`, `book_delete.go` | a mutation: op, id, fields, `done`, the memoized old value | setters, `Old*`, `IDs`, `Save`, `Exec` |
| Ent queries | `example/ent/book_query.go` | a builder: limit, offset, fields, operation, predicates, interceptors | `Where`, `Limit`, `Offset`, `Clone`; `First`, `Only`, `All`, `IDs`, `Count`, `Exist`, `Select`, `GroupBy` |
| entc extension | `entc/extension.go` | none (a check of the schema graph) | `validateGraph` and its helpers |
| VSN preview | `page.templ:108-125`, `assets/vsn.min.js` | the preview panel in the browser | vendored and minified |

### How they interact

`main` opens the database, seeds it and gives `New` a registry whose readers
hold the Ent client. `New` validates it and wraps the middlewares of the
configuration around `serveHTTP`. From then on `net/http` calls `ServeHTTP` in
one goroutine per request; the requests share the database, which the host also
writes, and nothing else. `serveHTTP` matches the path, checks the method,
calls the reader (one SQL statement per request), builds a `view.Page` and has
`internal/ui` render it; the links on the page come back as later requests.
A request's context may be cancelled at any moment by its client, or pass a
deadline that a middleware put on it; every Templ component looks at it.

### What is hard

- The status and headers go out before rendering starts, so what fails
  afterwards cannot be reported; `Vary` must be set before that.
- The table changes between arrival, read and rendering; a list is an
  unordered `LIMIT`.
- A path is decoded by `net/http`, then once more by `decodeSegment`; links are
  escaped once; base paths are configured escaped and compared unescaped.
- `Seed` counts and inserts in two statements and the program may be killed in
  between, or run twice.
- In the generated Ent code, builders are mutable and get reused, and old
  values are memoized; a query that was answered keeps the limit it was answered with.
- Hooks, interceptors, predicates and entities are Go slices, of which some share an
  array.
- Two validations, of the generator and of `New`, look at one schema.

### What makes each component correct

- App: nothing is read or answered before every middleware has let the request
  through; only GET and HEAD reach a page; the two forms of a record cannot be
  confused by a cache; an announced page arrives whole unless the request was
  cancelled; every request ends with a status; the answer is the table as it was
  at one instant, with nothing missing, invented, or sensitive.
- URLs: every link leads to what it names, the home page is served, ambiguous
  paths are not.
- Generator and construction: what the generator accepts, `New` serves, but for tables
  that do not name the pages.
- Example: a restart neither duplicates nor halves the seeded records, and
  records are seeded only into an empty table.
- Ent transactions: a Commit or Rollback that reports success has done it,
  nothing is written before every commit hook has let it through, and hooks run
  in the order they were added however many are added meanwhile.
- Ent mutations: the old values that a mutation tells hooks are of one version of the
  row, from before the write; the ids they are told are the ones that will be
  touched, but for what a Traverser hides. A bulk create is all or nothing, and complete.
- Ent queries: nothing that an interceptor hides is found; `Only` is right; a query
  that has not been spent answers all that was asked for, and its clone is none of its
  business.
- Lists of hooks: each client, builder, chain, query and App has its own, as if slices
  were values, and runs it from the first to the last.

## 2. Plan

In this order; all of the modules are here.

| # | module | of | composes with | status |
|---|---|---|---|---|
| 1 | `ReadService` | the abstract specification of the handler | — | done |
| 2 | `AdminApp` | App, reader, renderer | implements `ReadService` | done |
| 3 | `AdminAppProofs` | theorems about 2 | extends `AdminApp` | every safety property of its runs, and the refinement |
| 4 | `UrlPath`, `Registry` | URL matching and links; the two validations | `Registry` extends `UrlPath` | done |
| 5 | `Navigation` | generator, `New`, a visitor | extends `Registry` | done |
| 6 | `NavigationProofs` | theorems about 4 and 5 | extends `Navigation` | every property of its run |
| 7 | `ExampleLifecycle` | the example program | — | done |
| 8 | `ExampleLifecycleProofs` | theorems about 7 | extends `ExampleLifecycle` | every safety property of its run |
| 9 | `EntTx` | client and transactions | — | done |
| 10 | `EntTxProofs` | theorems about 9 | extends `EntTx` | every property of its run |
| 11 | `BookMutation`, `BookBulk` | builders and mutations | — | done |
| 12 | `BookMutationProofs`, `BookBulkProofs` | theorems about 11 | extend one each | every property of their runs |
| 13 | `BookQuery` | query builders and interceptors | — | done |
| 14 | `BookQueryProofs` | theorems about 13 | extends `BookQuery` | every property of its run |
| 15 | `GoSlice`, `EntLists`, `EntSlices` | slices; the abstract specification of lists; the lists of client, chains, queries and App | `EntSlices` implements `EntLists` | done |
| 16 | `EntSlicesProofs` | theorems about 15 | extends `EntSlices` | every property of its run |

Every safety property of the passing runs is a theorem, two of them (`HomeIsServed`, `LinksLeadHome`) under the
hypotheses that section 5 names; what is left to TLC is liveness.

## 3. Modules and code

### AdminApp, ReadService (`app.go`, `entadmin.go`, `internal/ui`)

A request is a process `r`; `pc[r]` is how far its goroutine has got. A step is
what it does between two points at which the world can matter: the table may
change (`HostWrites`), its context be cancelled (`Cancel`, by a deadline or by the
client going away).

| action | code |
|---|---|
| `Arrive`, `Recycle` | `net/http` starts and ends the goroutine |
| `Pass`, `Refuse` | a middleware calls its next handler, or answers itself |
| `UnknownPath`, `MethodNotAllowed`, `ServeIndex`, `ServeVSNAsset`, `ServeList`, `ServeDetail` | the branches of `serveHTTP`, in its order, with the headers they set |
| `List`, `Get`, `ReadFails` | the generated reader's SELECT, an error of it, an id that does not parse, and how `serveList`/`serveDetail` turn the result into a page |
| `Write` | `WriteHeader`, before anything is rendered |
| `pageComponent`, `indexPage`, `listPage`, `detailPage`, `errorPage`, `detailFragment`, `fieldValue` | entering a Templ component, which is where `ctx.Err()` is looked at |
| `Finish`, `RenderFails` | the last markup, or the error and the `http.Error` of `renderPage` |

`header` is `w.Header()`, `sent` what of it is on the wire. A header is a token;
a page is its rows; a cell is a triple of id, field and text, and the cells of a
page are written in any order (the templates write them in one, which no
property can tell). `BadId` stands for every segment that is no integer. One
entity is modelled: the others differ in their reader only.

`ReadService` is what a user is promised: a question is settled in one instant
against the table of that instant, then shown whole, redacted, unless cancelled.
`AdminApp!Implements` states the refinement, the mapping is at the end of the module.

### UrlPath, Registry, Navigation (`app.go:29-57, 207-356`, `helpers.go`, `extension.go`, `admin.tmpl`)

`UrlPath` has no state. A path is a sequence of tokens: separators, words and the
percent sign with the token that follows it, so that escaping and unescaping do
to tokens what `net/url` does to characters. `Registry` adds the operators of the two
validations: `validateGraph` of the generator, the registry its template prints
(`AdminRegistry`) and `validateRegistry` of `New`.

`Navigation` goes through them in order: `Generate` accepts the schema or refuses it, `New`
or `NewFails`, and from then on there is a visitor: `Type` a path, `Follow` a link of
the page shown (the browser resolves the dot segments of the href (`Resolved`) and sends it, `net/http`
decodes it, `Request` matches it); rows come and go meanwhile. What Ent itself checks when it loads a schema is the
assumption `LoadedByEnt`; `TextAssumption` says that paths, tables and ids are sequences of tokens.

### ExampleLifecycle (`example/app.go`, `cmd/admin/main.go`)

`Open`, `CreateSchema`, `CountBooks`, `SkipSeed` or `InsertSeed`, `Listen` are the steps of
`main`; `Stop` is an error of any of them or a kill, at any point. The database
file (`schema`, `copies`, `own`) stays. `MaxOwn` bounds the application's own books,
`OutsideWriter` lets it write while no instance listens.

### EntTx (`tx.go`, `client.go`)

A client is told apart by its driver (the database's, or a transaction's,
wrapped by `dialect.Debug` or not) and its debug flag. `base[t]` is the database
transaction under transaction `t`: itself, or, where `Client.Tx` was called on a wrapped
transactional client, that of the outer one. `Commit` and `Rollback` take a copy of
the hooks, `EnterHook` goes down the chain (a hook may refuse), `CommitBase` and
`RollbackBase` are the innermost committer, `Complete` is the way back, on which a
hook may still fail. `Save` is a builder; its own commit (`BuilderCommit`) is a nop
inside a transaction. `Cancel` is the context given to `Tx`.

### BookMutation, BookBulk (`mutation.go`, `book_*.go`, `ent.go:491-523`)

`BookMutation` is an update or delete builder, saved (`Save`) and, when it has returned, perhaps
used again (`Reuse`). `pc` and `hook` say where
in the chain `withHooks` built it is. `mutation` holds the structs: the builder's own (`Own`) and those
that hooks make in this Save, with builders of their own (`Make`). A hook has the one it was given and
the ones that were made (`Held`); before its next mutator it may change them (`SetField`, `ResetField`, `Where`) and
ask for their `IDs`, before and after it for `OldField`; then it hands one of them on (`CallNext`).
`Execute` and `ExecuteFails` are the innermost mutator: what was handed on is copied over the builder's
struct (`Overwritten`, `ent.go:505`), and the statement is that of the builder (`kind`) with the id, fields
and predicates of the copy.

`oldValue` is a closure: what it has memoized is `old[c]`, the `done` it looks at is that of the
mutation `c` it was made for, and `closure` of a struct says whose it has, which is what the copy
changes. So a handed-on mutation, whose own `done` nobody sets, may be asked after the statement. `Fetch`
is the query of `oldValue`; it may fail, also because a Traverser hides the row. `IDs` of a mutation that has no single id is
a query as well: a Traverser may hide any of the rows (`told.hidden`), of which the statement knows nothing.

Predicates are equalities of a field with a value. `mine` (the rows that hold what a mutation
wrote), `answers` and `told` record what the properties need to remember; writes of others and
new predicates make `told` void. A row that an update selects counts as touched also when the update sets nothing.

`BookBulk` is the chain of all builders' mutators laid out in levels (hooks of
builder 1, base 1, hooks of builder 2, ..., the INSERT), entered and left; of a mutation only whether it
is complete matters. A hook may hand on another mutation (`other`): `check` then looks at one and
`createSpec` at the other, which the columns that are NOT NULL catch (`BatchCreate`).

### BookQuery (`book_query.go`, `ent.go:350-386, 525-604`)

A query has predicates (the rows they let through, `where`) and a `QueryContext`; `ctx[q]` says
whose, which is what a shallow copy would get wrong. `Call` is the method the caller uses, with all
that it and the methods it is made of write into the context before anything is asked:
limit (`LimitOf`), fields (`FieldsOf`), operation (`OpOf`, the outermost `setContextOp`). `Traverse`, `CheckFields` are
`prepareQuery`, `Intercept` the interceptors around the statement, `Statement` the statement against
any table, and what the method makes of its rows (`KindOf`). First, Only, FirstID, OnlyID, Exist,
IDs, Select and GroupBy leave their limit or fields behind; such a query is `Spent`, and
`UnspentAnswersAll` promises nothing of it. `SoleOrNone` and `HiddenStaysHidden` speak of spent queries too.

### GoSlice, EntLists, EntSlices (`client.go:205-291`, `hook/hook.go`, `book_query.go:31-60, 243-257`, `app.go:44-47`)

`GoSlice` is a heap of arrays, slices that look at them, and `append`, which writes into the array
if there is room and otherwise makes a new one that may be larger than needed. In `EntSlices` the
client, builders, an App, chains, queries and the host hold slices; `Use`, `Where` append in place,
builders and the App share, `Clone` and the chains copy. `EntLists` says what each holder's list is
to be, with no arrays at all; that the first implements the second is the property
`Implements`. `Run` is `withHooks` and `Chain.Hook`: it wraps the hooks, some under the
conditions of `hook.On` and `hook.Unless`, some rejecting.

## 4. Runs

| run | question | result |
|---|---|---|
| `OneRequest` | every kind of request against a changing table, two middlewares, two ids, a page of one | safety properties hold, `ReadService` is implemented, every request is answered under weak fairness |
| `TwoRequests` | two overlapping requests for one URL in both forms | `CacheSafe` holds |
| `Links` | does what the generator accepts start, do links lead to what they name, is an empty segment refused below the root? | it starts unless its tables do not name the pages; the links do, for unescaped base paths and ids that have no percent sign and are no dot segment; it is |
| `PercentIds` | do they for ids with percent signs? | no: the segment is decoded twice |
| `OneInstance` | kill and restart at any point | nothing duplicated or halved, seeded only when empty |
| `Hooks` | old values and ids told to a hook that may hand on a mutation of its own, while others write, over several Saves | each mutation tells values of one version of the row, the builder's own from before the write; ids told before the statement are the ones touched, but for those a Traverser hid |
| `HandedOn` | does a mutation that is handed on also tell values from before its write? | no: the builder gets its `oldValue`, which looks at the `done` of the original |
| `BulkSave` | a bulk create through hooks that refuse, answer, hand on another mutation or fail late | all or nothing, none incomplete |
| `Transactions` | hooks added at any time, cancellation, nesting by way of Debug | truthful, nothing early, hooks in order |
| `DebugTx` | is the inner one's Commit truthful? | no, it is a nop that reports success |
| `Queries` | queries built, cloned and answered in any order, under interceptors | nothing hidden is found, Only and Exist are right, unspent queries answer in whole, interceptors see the operation that was called |
| `Slices` | lists in slices that share arrays | every holder's list is its own (`EntLists`), hooks run in its order |

The runs that end in a violation are the findings of `PROJECT.json`, each with the
line of a doc, comment or test that says otherwise. Some smaller disagreements are
modelled without a run of their own:

- A base path with an escape is accepted, kept as it is (`app.go:295-303`) and compared with a path in which it
  is decoded (`app.go:252`), so that nothing is ever served; `docs/architecture.md:131-132` has the consumer mount the handler "at
  the same path supplied as `BasePath`". With `/%78` among `RawBases` TLC shows `HomeIsServed` violated.
- `url.PathEscape` leaves an id that is `.` or `..` as it is, and a browser resolves such a segment away: the
  links of these records lead to their list and to the index (`helpers.go:30`; `docs/architecture.md:173-175`).
  `New` refuses such routes and bases; nothing refuses such ids. With `.` among `IdTexts` TLC shows
  `LinksLeadHome` violated; the instances have none.
- Once a hook has handed on another mutation, the builder's mutation answers with the old values of that one, also to a
  hook that has been told those of the first before: each is right for its own row and time, and
  `OldFromOneRow` promises no more.
- `IDs` asks through the Traversers of the client (`mutation.go:136`), which the statement does not: a row that they hide is
  touched and not told, although "the returned ids match the ids of the rows that will be updated"
  (`mutation.go:123-126`). `IdsWillBeTouched` takes the hidden rows out.

- An id that does not parse is answered 500, a record that does not exist 404
  (`ReadFails`; `contract.go:96-97`).
- A deadline that passes while a page is rendered leaves a client that is still there with part of
  a page under status 200 (`RenderFails`; `docs/architecture.md:172`): the status is out by then.
  `TruncatedOnlyIfCancelled` makes that exception.
- Mounted at the root, `//books` is served as `/books`, since `relativePath` returns before it looks for
  empty segments (`app.go:249`, `TestAppRejectsAmbiguousPaths`); `AmbiguousBelowRoot` excludes the root.
- The generator accepts two entities with one table, and a table `.`, `..` or `_`; `New` then refuses
  the registry (the exceptions of `GeneratedStarts`), where `docs/architecture.md:107-108` has
  ambiguous schemas fail generation.
- `entityPath` does not escape a route, so a table with a percent sign is not found by its link; a
  string id with a slash or question mark in it has a link that `decodeSegment` refuses; a record
  `vsn.min.js` of a table `assets` is hidden by the script. The instances have none of them.
- `IDs` asked twice of one query selects its column twice and fails (`ScanFails`).
- Two instances that start on one file both find it empty: with two members of
  `Instances` TLC shows `SeedOnlyIntoEmpty` violated (`example/app.go:31`).
- The ids that a hook is told after the statement are those that match the predicates
  now, which after a delete are none (`mutation.go:123-126`); `IdsWillBeTouched`
  speaks of those told before.
- A hook of a bulk create that answers by itself cancels the whole batch, and Save
  reports success (`book_create.go:131`); `SaveCreates` makes that exception.

### Bounds and why they are enough

- Requests share only the table, which each reads once, so one request against an
  arbitrary writer shows what any number would; only `CacheSafe` relates two, and
  has two. Two ids and a page of one make the table larger than a page. Two
  fields, one of them sensitive, and two values tell redaction from the value. Two
  middlewares have an order. The theorems need none of these bounds.
- Five calls build, clone, change, answer and answer again; two queries are an original and a clone; of
  three rows one is hidden, and with it some, one or none can match under any limit. The
  table is any subset for every statement, which is more than any writer can do.
- Two elements in an array and three arrays are enough for an append in place behind a slice that
  looks at less of the same array, and for a copy that would have to be made; three chains are one and
  two made from it.
- Schemas are one entity, two with tables that may clash, and one for each reason to refuse.
- Typed paths are all sequences of up to two tokens after the base, and after an
  entity's route: one more than `match` has cases for. Base paths are one and two
  segments, root, with a trailing slash, and ones that are refused.
- Three seeded titles can be split; two own books are more than a seed check
  compares with (0 or not).
- A mutation has two books, of which any may match, be hidden or be touched, with one field of two values: old
  values are whole rows, so a second field would only multiply them. One hook is before and after, and one
  mutation can be handed on in each Save, of the same or of another row; more repeat it. This is
  the largest run (1.8 million states).
- Three builders have a first, a middle and a last one, two hooks an outer and an inner.
- Two transactions nest; two hooks have an order; the book and each hook are used once.

`CHECK_DEADLOCK FALSE` is where the system may stop: `BulkSave` (Save returns and that is all), the
`Navigation` runs (a schema or a base path is refused), `Queries` and `Slices` (the caller has
used up its calls, or the arrays). Symmetry is used in safety runs only (`TwoRequests`, `Hooks`, `HandedOn`,
`Transactions`, `Slices`), on sets whose members nothing tells apart.

### Fairness

`AdminApp` assumes weak fairness of each request's `Handle`: a goroutine that can run
is run, a middleware and the database each return (they are steps of it). Nothing
is assumed of the host, the clients or cancellation. The others state safety only.

## 5. Proofs

### The handler

`AdminAppProofs` proves, for any sets of requests, ids, fields and values, any
number of middlewares and any page size:

| theorem | property |
|---|---|
| `TypeCorrect` | `TypeOK` |
| `Inductive` | the inductive invariant `IInv` |
| `AlwaysMiddlewareFirst` | `MiddlewareFirst` |
| `AlwaysReadOnly` | `ReadsOnlyOnGetOrHead` |
| `AlwaysCacheSafe` | `CacheSafe` |
| `AlwaysWholeUnlessCancelled` | `TruncatedOnlyIfCancelled` |
| `Refinement` | `Implements`: the handler implements `ReadService` |

The assumptions are those named in `AdminApp` (`BadId` is no id, the ids a table can have are
finitely many, `NoRow` no row, `Redacted` no value, sensitive fields are fields, queries are queries, the counts are
numbers). None of the four safety properties is inductive. What has passed the
middlewares is a prefix only because `layer` is the next one and nothing else sets it; a
405 names `Allow` only because the header was in the map when the status was
written; two answers say `Vary` only because every request past routing for a record
has it in the map; a document is whole only because stage and cells of a body
follow `pc` and its form follows its page. Those facts are the conjuncts of `IInv`,
which is shown to hold initially and to be kept by each action in turn; the
properties follow from it without looking at actions again.

The refinement needs little more (`RefinementInv`): what a body shows are cells of its page, and
pages other than lists and records have no rows. Each action then maps to a step of `ReadService` or
to none: arrival, cancellation and writes to their own; whatever settles the page (a refusal, a route
without a read, a read or its failure) to the instant in which the question is answered; the end of rendering
to the answer, with all of its cells or, after a cancellation, some of them; everything
between to a stutter. That a page holds as many rows as the page size allows takes that a
table is finite.

### Transactions

`EntTxProofs` proves, for any number of transactions, books and hooks, with or without
clients in debug mode, and however often Commit and Rollback are called:

| theorem | property |
|---|---|
| `TypeCorrect` | `TypeOK` |
| `Inductive` | the inductive invariant `IInv` |
| `AlwaysOwnTold` | `OwnTold` |
| `AlwaysNothingEarly` | `NothingEarly` |
| `AlwaysHooksFirst` | `HooksFirst` |

The first two properties speak of what was saved through a transaction and of what it has
reported; the database knows only the transaction under it. `IInv` adds what joins them:
a nested transaction stands on one that has a database transaction of its own
(`BaseInv`), what was saved through either waits in that one and in no other
(`PendingInv`), it enters the database all at once and only behind the last
hook (`CommittedInv`), and a result on its way back through the hooks is still how
the database transaction ended (`ToldInv`). The assumption is that `NoTx` is no transaction.

`HooksFirst` has an invariant of its own (`HooksInv`): hooks are only ever appended, so the copy that a
Commit works on stays a beginning of the transaction's list, and what has been entered is the
beginning of the copy up to the hook that runs.

### Mutations

`BookMutationProofs` proves, for any rows, fields and values, any number of hooks and of mutations
they make and hand on, and every kind of builder, with other writers at any time:

| theorem | property |
|---|---|
| `TypeCorrect` | `TypeOK` |
| `AlwaysOldBeforeOwnWrite` | `OldBeforeOwnWrite` |
| `AlwaysOldFromOneRow` | `OldFromOneRow` |
| `AlwaysIdsWillBeTouched` | `IdsWillBeTouched` |

`OldBeforeOwnWrite` is about the builder's own mutation, `OldFromOneRow` about every one, handed on or not, and
`IdsWillBeTouched` about the one that gets to the statement.

Typing needs to know where in the chain a hook can be and which mutations it can have (`HookInv`), and that no
mutation but the builder's ever gets the `oldValue` of another one (`ClosureInv`). What the builder's own mutation tells
rests on `OwnInv`: as long as it is there, its closure looks at its `done`, a row holds what it wrote only once that is
set, and then nothing is memoized first; a handed-on mutation takes its place for good, so that nothing more is written by it. `AnswersInv`
says that every answer of a closure agrees with what it has memoized, which happens once. The ids
rest on `IdsInv`: until the statement they are what the mutation will select, without the hidden rows; after it, if
that mutation got there, what it has touched, but for a
delete of one that found nothing, which succeeds inside the hooks and fails outside. The
assumptions are that nil is no value and no id, that a missing row is no row, that predicates are about fields and
their values, and that `HookCount` is a number; and that only updates and creates let go of
their mutation (`MadeAssumption`: there is no `Mutation()` in `book_delete.go`).

### Bulk creates

`BookBulkProofs` proves, for any number of builders and of hooks:

| theorem | property |
|---|---|
| `Typing` | `TypeOK` |
| `CompleteRows` | `OnlyComplete` |
| `WholeBatch` | `AllOrNothing` |
| `SavedIsThere` | `SaveCreates` |
| `IdsOfRows` | `IdsFromDatabase` |

Typing is the one that needs arithmetic: a level of the chain is a builder and a place
among its hooks, and the levels of different builders do not overlap (`Apart`). The others
rest on what is known on the way in (`EnterInv`: nothing has failed, nothing is written, and there is a spec of
every builder that has been passed and of no other) and on the way out (`LeaveInv`: without an error or an
answer by a hook all rows are there). The assumption is that there is at least one builder.

### Queries

`BookQueryProofs` proves, for any table, any predicates, any stack of interceptors, any number of
queries and of uses of them:

| theorem | property |
|---|---|
| `Typing` | `TypeOK` |
| `NothingHidden` | `HiddenStaysHidden` |
| `OnlyIsSole` | `SoleOrNone` |
| `UnspentInFull` | `UnspentAnswersAll` |
| `CalledOperation` | `OpAsCalled` |

The invariant says that every query has a context of its own (`OwnContext`), that a query nobody has
spent holds what was asked of it, but for the rows that a Traverser has taken out already (`AskedInv`),
that a method in progress works under its own limit and operation (`CallInv`), and that no
statement runs before the Traversers have been gone through (`TraversedInv`). The assumptions are that a table
is finite, that there is a query, and that predicates and hidden rows are sets of ids.

### The example

`ExampleLifecycleProofs` proves, for any number of instances and titles:

| theorem | property | hypothesis |
|---|---|---|
| `TypeCorrect` | `TypeOK` | none |
| `NeverHalf` | `NeverHalfSeeded` | none |
| `NoneTwice` | `NoDuplicates` | `Alone` |
| `SeedsEmpty` | `SeedOnlyIntoEmpty` | `Alone` |

`Alone` says that there is one instance and that nobody else writes to its file. Without it both are false
(two instances count before either inserts, see section 4), and with it they hold because a
count cannot become stale before the insertion that relies on it (`CountIsFresh`).

### Lists of hooks

`EntSlicesProofs` proves, for any number of builders, chains and queries, any number of arrays and whatever
capacities append chooses:

| theorem | property |
|---|---|
| `TypeCorrect` | `TypeOK` |
| `Refinement` | `Implements`: slices implement the lists of `EntLists` |
| `AlwaysRunsAsListed` | `RunsAsListed`, for lists of any length |

The invariant is about who shares an array (`SharingInv`): no two of the holders that append to or overwrite
their own slice (client, host, chains, queries) ever have one array; a builder looks at a beginning of the
client's array or at one that the client has left behind, the App likewise at the host's. An append in place
then writes behind everything anyone else looks at, and a copy into an array that nobody has. The lemmas
about `GoSlice` (`WriteCells`, `Allocated`, `AppendedReads`) say what is read through a slice after
each, and every operation has a lemma that maps it to one of `EntLists`. The assumption is that no one
holds its list in two roles.

What `withHooks` and `Chain.Hook` make of a list is proved by induction over the hooks that have been wrapped, from
the last one out (`RunNothing`, `RunOneMore`, `RunIs`). The claim (`RunFrom`) is about the mutator made of the hooks
from the m-th on: it executes the statement if and only if none of them rejects, and it enters as
many hooks as are reached, each later one at a later position. A hook that applies is put in front of
all of them, one that rejects leaves none reached, so the next wrapping keeps the claim. `RunsAsListed` is the claim for
m = 1, of every list that `TypeOK` allows.

### Generated registries, URLs and links

`NavigationProofs` proves, for any schemas that Ent loads (`LoadedByEnt`), any base paths, ids and typed
paths, all of any length:

| theorem | property | hypothesis |
|---|---|---|
| `AlwaysGeneratedStarts` | `GeneratedStarts` | none |
| `AlwaysAmbiguousBelowRoot` | `AmbiguousBelowRoot` | none |
| `AlwaysHomeIsServed` | `HomeIsServed` | `PlainBases` |
| `AlwaysLinksLeadHome` | `LinksLeadHome` | `Unescaped` |

`GeneratedIsValid`, under the first, goes through everything that `validateRegistry` asks for and finds it in
what `validateGraph` has checked, in what Ent has, or in the exceptions (two tables that are the same, or one that
does not name a page).

The others need to know what the operators on paths compute, for a text of any length. The induction
theorems of the library take an operator and cannot be used, so `Induction` is about a set of numbers and is
proved from `NatLessThanWellFounded`: the set of the prefixes a claim holds of. `Recursion` and `Agreement` make a
function by recursion and show that there is one only, which `PathUnescape` (`ReadsExist`) and the
concatenation in `PathEscape` (`EscapesExist`) are instances of. From there:

- `ReadEscaped`: whatever has been read before it, an escaped text is read as the text (`PathUnescape` undoes
  `PathEscape`), and `EscapedText`: it has no slash;
- `NormalizedIsBase`: what `normalizeBasePath` accepts starts with a slash, does not end with one unless it is the root,
  and has no empty segment; hence `EmptySegmentRefused`, wherever the two slashes are;
- `PathForIs`, `NamedIsRelative`: what `pathFor` puts behind a base is what `relativePath` finds behind it;
- `ListMatches`, `DetailMatches`, `AssetMatches`, `HomeMatches`: a path that is made of a route, or of a route and an
  id, is matched as that entity or record and no other;
- `LastSegmentStays`: an href whose last segment is no dot segment is sent as it is;
- `RecordReads`: what the browser sends when it follows the link of a record is that path.

The invariant (`ServingInv`) ties what is shown to what was asked for: the base is one that New
accepts, the match is the one of the path, every href is a text. `LinksInv` adds that every link on the page leads where
it says, whatever rows have come and gone since it was shown.

`Unescaped` names what section 4 shows to be needed: no percent sign in a base, which is compared undecoded, nor in
an id, which is decoded once by `net/http` and once more by `match` (`PercentIds`), nor in a
table, which is linked as it is; ids are not empty and have no slash or question mark, which
`decodeSegment` refuses; they are no dot segments, which a browser resolves away; and no entity with the table `assets` has a record `vsn.min.js`. The instance of run
`Links` satisfies it. Tokens are strings; the few that mean something are named in `Tokens` once more
because the provers do not know that a literal is a string.

### What the proofs changed

Two operators were written with CASE guards that overlap (`Promised` of `ReadService`, `KindOf` of `BookQuery`). TLC
takes the first that holds; TLA+ takes any, so that no proof went through until the guards excluded each
other. `SeededRows` replaced a sum over the titles, which nothing could be proved of. `PathUnescape`
folded a local operator over the tokens and is a recursive function now (`ReadAll`), and so is `Run`, which
folded a `LAMBDA` over the hooks.

### Only model-checked

- Liveness: `EveryRequestAnswered` (run `OneRequest`). Fairness and ENABLED are out of the prover's reach.
- `HomeIsServed` and `LinksLeadHome` beyond the hypotheses of their theorems: they are false of base paths with an
  escape, of ids with a percent sign (`PercentIds`) and of ids that are dot segments.
- `NoOldPostMutation`, which is `OldBeforeOwnWrite` for every mutation and false (`HandedOn`).

## 6. Not modelled, and why

- `net/http`, `database/sql`, SQLite, `dialect.Debug`, `sqlgraph`, the Templ runtime and hooks and
  interceptors of hosts are external: the models take from them what the code relies on.
- The vendored `vsn.min.js`, with it what becomes of previews that overtake each other; styles
  and wording of the pages.
- Printing `admin.tmpl`: the code it generated is modelled instead.
- The refusal of nil middlewares by `New`: nothing is served then.
- `BeginTx` (as `Tx`, with another driver call), `Select`/`Fields` of an update of one,
  constraint errors (as any failing statement), the `X` variants, which panic; `Unique`, the order of
  rows and aggregates of a query, and the predicates of `book/where.go` (sets of rows here).
- Hooks that call their next mutator twice; hooks of an update or delete that answer without calling it
  (`BookBulk` has them), that keep mutations from one Save to the next, copy their structs, or save the builder of a
  mutation they hand on; predicate slices that a copied mutation shares with the original (predicates are sets here); interceptors that call their next querier twice or not at
  all and answer; queries that an interceptor makes under the context of another one.
- `Use` and `Intercept` while other goroutines build: they take no lock, and nothing says they may.
- A host that overwrites the entities it has handed to `New` (`HostSets` leaves them alone).
