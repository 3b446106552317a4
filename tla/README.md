# Alder in TLA+

Alder is a web interface and a command line for LDAP directories (OpenLDAP, 389 Directory
Server), written in Go. One process holds directory sessions for browsers; every change an operator
makes is planned against the directory, checked again when it is applied, and can be undone from a
recovery bundle. This directory holds TLA+ models of the parts where interleaving, failure and
order decide whether that works, the TLC runs that check them, and theorems proved with TLAPS.

    tlc -workers 2 -config SessionStoreSafety.cfg MCSessionStore
    tlapm SessionStoreProofs.tla

## 1. The system

| Component | State it keeps | Operations | What makes it hard, and what makes it correct |
|---|---|---|---|
| **Session store** (`internal/session`, `api/handlers.go`, `api/reference.go`, `cmd/alder/serve.go`) | live sessions by cookie, a reference server per session, expiry clocks | connect, reconnect, disconnect, attach and detach a reference, `Get`, `reap`, `Close` | dialling happens outside the locks, so room is counted twice and references are taken out in one section and closed in another. Correct: the connection limit holds, each open connection has exactly one owner, nothing leaks, nothing that expired lives on |
| **LDAP session** (`internal/directory/ldapdriver`) | one or two connections, `mu`, whether each is broken | `Connect`, `Search`/`Read` with paging, `Apply`, `Close`, reconnecting | the network drops connections under a request. Correct: no change is sent twice, what is reported is true, each request goes out under its own identity |
| **Schema cache** (same package) | the parsed schema, its error, a replaceable `sync.Once` | `Schema`, `RefreshSchema`, invalidation by a schema change | concurrent readers share a load that an invalidation overtakes. Correct: nobody is handed a schema older than the change they were told of |
| **Change records** (`internal/directory`) | none | `Validate`, `Target`, rendering | data |
| **Planner** (`internal/plan`, `api/plan.go`) | the token key of the process | `ComputeProposals`, `classify`, `Check`, `VerifyRead`, `checkPlannedChanges` | what a plan saw is stale when it is applied. Correct: a checked change meets the state its plan saw |
| **Changeset apply** (`api/changeset.go`, `web/src/features/changeset.tsx`) | the recorder of one request; the basket in the browser | stage, check, apply, answer, ask about an interrupted change | not atomic: stops at a failure or at an answer that never comes. Correct: the answer is what happened, and nothing that was applied is staged any more |
| **Recovery** (`internal/recovery`, `api/recovery.go`) | the bundle, a file | `before`, `Derive`, `after`, `Changes`, `InspectRecovery` | the state before each change is read ahead of it, compensations of one entry are merged. Correct: exactly what was applied is put back, and nobody else's work overwritten |
| **Outcome** (`internal/outcome`, `api/outcome.go`) | none | `Determine` | it judges by what the directory shows now. Correct: applied and not applied are true |
| **Browser basket** (`web/src/lib/changeset*.ts`, `plan.ts`, `saved-plan.ts`, `features/changeset.tsx`) | staged changes, the saved plan they are, the plan of them, the last answer, an interrupted change | add, move, remove, load; check, apply, ask, each a request that is answered later | answers come out of order and to a view that may be gone. Correct: what was applied leaves, an interrupted change is not sent again unasked, a saved plan goes whole or not at all |
| **Request gate** (`api/limit.go`) | the server's slots, for all sessions together | middleware; a stream keeps its slot | waiting with a limit, bodies written after the handler returned. Correct: slots are counted and always come back, the directory is asked only under one |
| **Paged reading** (`ldapdriver/ops.go`, and the eight readers in `api`, `config`, `replication`) | the cookie and what was read | the driver's loop, and each reader's | size limits, with and without paging. Correct: no entry twice or skipped, an answer that is short says so |
| **Change packages** (`internal/changepkg`, `api/packages.go`, `features/packages.tsx`, `features/changeset.tsx`, `lib/plan.ts`, `internal/cli/plan.go`) | a document: changes and what each depends on; the ready ones, staged; the plan of those | build, derive, order, validate, stage, plan, apply, again | validated against another directory than it was made on, planned later; what a plan cannot send is dropped by one client and stops the other. Correct: the order respects the dependencies, the target ends as it was meant to, nothing is carried out before what it needs |
| **Snapshots and comparison** (`internal/snapshot`, `internal/diff`, `api/snapshots.go`) | a document: the entries of a subtree | capture, compare, propose | read page by page while others write, cut off, partly hidden. Correct: nothing is deleted for not having been seen, only differences are changed, and it settles |
| **Schema and configuration changes and snapshots** (`directory/schemachange.go`, `plan/schema*.go`, `recovery/schemaconfig.go`, `snapshot/schema.go`, `diff/schema*.go`) | none | plan a set of definitions in order, compensate from the state after, compare | order of definitions; the server renumbers values |
| **Saved plans on the command line** (`internal/cli/savedplan*.go`, `plan.go`, `project.go`) | a file: changes, each with the state it expects, bound to a project and a server | show, read what each change expects, plan again, save; bind, plan, check, apply | read one entry at a time, applied long afterwards. Correct: what happens is what was shown, what it was not saved against is not overwritten, an edited file does no more than the project asks |
| **Projects** (`internal/project`) | files | describe, rebase | sequential |
| **Replication, preflight, index advice, impact, audits** | none | read and report | read-only |
| **Allowlist, signing, formats, HTTP, CLI, generated clients** | configuration | decide, parse, print, route | data and I/O |

How they interact: a browser's request goes through the gate and `Store.Get` to a session; the
handlers plan, check and apply through that session's `Apply` and `Search`, each of which takes
`session.mu`; the answer goes back to the basket, which decides what may be sent next. The store is
the only state shared between browsers, `session.mu` the only one between requests of one session,
and the directory itself is shared with everybody else who writes to it.

## 2. The modules

| Module | Models |
|---|---|
| `ConnectionLedger` | abstract: connections dialled, held within a limit, closed once |
| `SessionStore`, `MCSessionStore` | the session store; implements `ConnectionLedger` |
| `SessionStoreProofs` | theorems about it |
| `WriteContract` | abstract: what a caller of `Apply` is promised |
| `LdapSession`, `MCLdapSession` | the LDAP session; implements `WriteContract` |
| `SchemaCache` | the schema cache |
| `LdapSessionProofs` | theorems about both, the refinement among them |
| `Directory` | change records, and what an LDAP server does with them |
| `Planning`, `Recovery`, `Outcome` | the definitions of `internal/plan`, `internal/recovery`, `internal/outcome` |
| `Changeset`, `MCChangeset` | one operator, one changeset, its bundle, and everybody else |
| `ChangesetProofs` | theorems about it |
| `Positions` | part of a list, in its order |
| `DataProofs` | lemmas about that, about `Directory` and about induction, shared by the proofs of four components |
| `Basket` | one browser tab with its requests under way |
| `BasketProofs` | theorems about it |
| `PagedSearch` | pages: the directory's answers, the driver's loop, what each reader asks next and says at the end |
| `RequestGate`, `MCRequestGate` | the gate, composed with the requests that read through `PagedSearch` |
| `RequestGateProofs` | theorems about it |
| `PackageOrder` | the order of a package, one turn of the loop a step; also the specification `ChangePackage` refines |
| `ChangePackage`, `MCChangePackage` | a package from the changeset it is built of, by way of its plan, to its second promotion |
| `ChangePackageProofs` | theorems about both, the refinement among them |
| `LiveDirectory` | the directory other people write to, for the next two |
| `StateDiff` | the definitions of `internal/diff` and of a snapshot's contents and lookups |
| `Comparison`, `MCComparison` | capture, comparison and restoring, round after round, with everybody else writing |
| `SavedPlan`, `MCSavedPlan` | a plan from being shown to the file and its applications, with everybody else writing and editing |
| `RecordedProofs` | theorems about `Comparison` and `SavedPlan` |

A definition named `...Unguarded`, `...Forgotten`, `...Last` and the like, marked *Mutated form*,
is a plausible bug of the definition after it. It is used by nothing; putting it in the other's
place makes TLC report the property PROJECT.json names.

### SessionStore

A step is one critical section of `Store.mu` or of a `Session.mu`, or one call on a connection. A
process (a request, the sweeper, the goroutine that shuts down) is at a label `pc`, with the
handler's local variables beside it: the session its cookie names (`target`), a connection it has
dialled and not handed over (`fresh`), sessions `reap` marked and has yet to remove (`todo`),
connections it took out and has yet to close (`hands`). `FullReplacing` is `Full`, the reaping it
does, and `Refull`; `AddReplacing` is `Insert` (the second count, under the lock that inserts);
`AttachReference` is `Attach`; `reap` marks in `Sweep` and removes in `Take`, one session at a
time; `closeSession` is `CloseSession`. Dialling is between them, with no lock held. Session IDs
never repeat, as `newID` draws 256 random bits; time is a counter that every other step may see
move. Not in it: `Len` and `Connections`, which only read.

### LdapSession

A call (a change, a search, `Connect`'s own reading, `Close`) waits for `mu`, makes its connection
`ready` — reopening and binding it when it is `broken` —, sends, and waits for an answer that the
network may lose. `connFor` picks the connection by the DN's tree, `Identity` what it is bound as.
`flight` holds the copies of a change the directory may still act on, so that a change whose
connection was lost can be carried out before or long after the caller was told *unknown*. A search
has up to two pages; `cookie` remembers the connection that issued its cookie. Entries' contents
are left out.

### SchemaCache

`gen` is the identity of `schemaOnce`; `once` says of each whether it has yet to run, who runs it
or that it has. `Schema` is its three locked sections: taking the generation (`Schema`), the end of
the load, kept only while the generation is current (`Store`), and the last look (`ReturnSchema`). `holder` is the owner of
`session.mu`: a load needs it, and `Apply` holds it from the directory's acceptance until the cache
is dropped. Schemas are version numbers. `own` and `floor` are not the program's: they remember
what `CacheFresh` compares with.

### Directory, Planning, Recovery, Outcome, Changeset

A DN is a sequence of naming values, an entry a function from attributes to sets of values, and
`Key` gives the form of a value its equality rule compares, so that `a` and `A` are two spellings of
one value. `Accepts` and `Done` say what an LDAP server does with a change (RFC 4511): the naming
attribute of adds and renames, subtree moves, refusing to add a value that is there, referential
integrity. They are marked external. Keyed hashes are what they bind (`Token`), sensitive values
are counted and never seen.

`Changeset` follows one operator. `Stage` fills the basket with any sequence of changes; it may be
planned (`CheckPlan`, one `PlanOne` per change, reading the directory as it is then) or applied as
it is. A request first verifies every baseline (`checkPlannedChanges`, one step per change: each is
a read) and refuses on the first that no longer holds. Then, for each change, `before` takes the
entry it will meet from that read when nothing since can have altered it and reads it again
otherwise, and `Send` applies it: *applied* (and `after` records its compensation), *failed*, or
*unknown*. `Answer` takes out of the basket what the outcomes name, by the positions that were
sent. `CheckOutcome` asks the directory about a lost change. `LoadBundle` stages the bundle's
changes, which are planned and applied as any other, in rounds (`NextRound`) until none is left.
`Other` is everybody else writing in between.

Left out of these: schema and configuration changes, `reconcile`, schema validation, counts of
subordinates, the impact report, the encoding and origin of bundles, objectClass. The directory
carries a lost change out at once or never; the late one is in `LdapSession`. One request runs at a
time in `Changeset`; overlapping ones are what `Basket` is about.

### Basket

`staged` is the store that outlives the view, `plan`, `result` and `interrupted` what `useState`
holds, which goes when the view does (`Leave`), `ask` and `read` belong to the panel that asks about
an interrupted change. Three requests may be under way: a check, a run and a question. `Check`,
`ServeCheck` and `AnswerCheck` are sending it, the server's reading and the browser's `onSuccess`;
a run is served when it is sent and answered any time later (`AnswerApply`, `RefuseApply`,
`LoseApply`), to the mutation observer only if it still waits for that run (`watched`). `current`,
`applyBody`, `mustCheck` and `wholePlan` are the values the view computes on each rendering. What
the directory makes of a run is a choice of outcomes; a verdict is true of what the directory shows
(`holds`), or *still unknown*.

### PagedSearch, RequestGate

The eight kinds of reading request (search, LDIF export, count, capture, member audit, inventory,
configuration tree, replication conflicts) differ in what they ask for
next (`Want`), in what they say when a page comes back (`Verdict`) and when it does not (`Failed`).
`Returns` is `Search` in the driver: its own loop over pages, the leftover cookie, `Truncated`.
`RequestGate` takes each request from `Arrive` through waiting (`Refuse` after `inFlightWait`), its
handler and, for the two that answer while they read (search and LDIF export), a writer that goes
on after the handler has returned and keeps the slot (`keepSlot`). `Release` hands a slot to a
waiter or back; a second release does nothing. The gate is the server's: its slots are for all
sessions together.

Left out: two limits over more than one page or search. The inventory stops after
`maxInventoryRounds` pages (inventory.go:44), which its limit on entries comes before unless pages
are nearly empty; the member audit gives up, as it does at any other limit, once all its searches
together have read more than `auditMaxRead` entries (memberaudit.go:287), where the model counts
those of one search.

### PackageOrder, ChangePackage

`Start` counts each change's dependencies, `Place` takes one of those ready (the least identifier,
compared as a string, which `Rank` gives), `Finish` refuses what was not placed. `BuildPackage`
drops what would carry a secret, numbers the rest, and derives the dependencies of entries on the
entries above them, of renames and deletes on what happens below (`dataNeeds`); a dependency may
also be written into the document by hand. `Validate` asks the target about one change after
another (`CheckNext`, over `checkAdd`, `checkModify`, `checkRename`). `Stage` puts those that are
ready, in order, into the browser's basket (packages.tsx:112) or into the request of `alder apply
--package` (`resolvePackage`), and `client` says which. `CheckPlan` and one `PlanOne` per change are
`ComputeProposals`, over `Planning`'s `classify`, against the target as it is by then: an entry to be
added may be there since, an entry to be deleted has others below it until they are gone. There are
three ways on (`Apply`):

* the browser, with a plan: what the plan has a baseline for is sent, and what it shows as a
  conflict or as unchanged is left out (`SentAt`, `sentItems`; lib/plan.ts:50);
* the browser, without one: all that is staged is sent, as it is and without baselines
  (changeset.tsx:143), as nothing in a package carries an expectation that would ask for a plan;
* the shell: a plan without any conflict, or nothing at all (`Blocked`; cli/plan.go:643).

With a plan, every baseline is verified before anything is carried out (`checkPlannedChanges`, one
step per change); one that no longer holds, or cannot be read, refuses the run, and the browser may
plan again while the shell gives up. `Promote` then carries out one change after another up to the
first that the target refuses. `Close` is an operator or a shell that does not go on. Then the package
may be validated and promoted again (`Validate`).

Left out: schema changes, assumptions about the target, reconciling intent; a run whose answer is
lost, and the basket's own editing (`Changeset` and `Basket` are about those); other changes in the
basket, which a package's are put beside; a count of children that fails, which a plan passes over.
What a run has left in the basket is taken as discarded before the package is validated again.

### StateDiff, Comparison

`Begin`, `ReadEntry`, `CutOff` are `captureLive`: the search names its entries when it starts, and
each comes back under the name and with the values it has by then. `Captures` makes the file,
of a whole read only. `Compare` matches entries by name and then by unique identity, says of what
one side lacks whether it is absent or unknown, asks the directory about attributes it seems not to
have (`Missing`, `Unknowns`) up to the budget, and `Derive` turns differences into changes. `Restore`
stages all of them, deletions too, plans them, leaves out what would do nothing, and sends the rest
in an order the directory takes as a whole if there is one. `was`, `still` and `calm` are not the
program's: they remember what stayed as it was while the file was made, whether anybody has written
since the live side was read, and how many undisturbed rounds there have been.

Left out: scopes other than the subtree, filters other than "holds this attribute", equality rules
that differ between two servers, document encoding, checksums and limits; the reference is read
in the same step as it is compared.

### SavedPlan

`ShowOne` plans the input entry by entry (`planItem`: `classify`, or `Reconcile` for a record read as
desired state), `SearchShown` counts the references to what is deleted or renamed. `ReadOne` is the
loop of `writeSaved`, which reads what the next change expects (`expectationFor`, `...Delete`,
`...Rename`); `PlanAgain` and `Save` plan the saved changes as an apply will and compare them with
what was shown (`sameAsShown`). Two runs may apply the file: `Load` reads and checks it (`Usable`),
`PlanSaved` plans it change by change, `CheckOne` is the server's check of one token and expectation,
`Send` one change carried out or refused. `OtherWrites` writes to the directory, `ReviseFiles` edits the
project's files, `EditFile` the saved file, its digest too. `base` and `met` are not the program's:
they remember the entries the expectations were read from and those the server's check found.

Left out: signatures; the match of environment, host and bind identities; rebasing; a search for
references or a count of subordinates that is cut short; an attribute written under two names;
confirmation. The server's reading before a change, lost answers and recovery are in `Changeset`.

## 3. The runs

| Run | Shows | Bounds, and why they are enough |
|---|---|---|
| `store_safety` | `LimitHeld`, `OneOwner`, `MarkedStaysExpired` | two requests, the sweeper and shutdown over two sessions and two references, limit 3: two requests competing for the last place, two reconnects of one cookie, an attach during a disconnect all happen; the theorems cover every size |
| `store_live` | `ImplementsLedger`, `NoConnectionLeaks`, `ExpiredSessionsClose` | one request, so that liveness is checked quickly; limit 2, time up to 3 so that both the idle timeout and the lifetime pass |
| `ldap_session` | `NeverRepeated`, `OwnIdentity`, `NoStrayConnection`, `ImplementsContract`, `EveryCallReturns` | two changes (one on each tree), a paged search on the configuration tree, three connections: the first of each link and one replacement |
| `schema_cache` | `CacheFresh`, `EveryReaderAnswered` | three callers — one that loads, one that waits and one that invalidates —, two invalidations, one change from elsewhere, one fault |
| `changeset_safety` | `AnswerTrue`, `VerdictTrue`, `PlannedStateMet`, `RecoveryOverwritesNobody`, `PreStateTrue` | baskets of up to two of six changes, two writes of other people anywhere, one failed read or lost answer, two rounds of the bundle; a group and its member, so that a delete alters another entry |
| `changeset_recovery` | `RecoveryRestores`, `BundleNeverStuck` | every sequence of up to four of thirteen changes of one entry and its surroundings (two spellings, an access rule, a naming value, a password, renames within and between parents, add and delete), nobody else, no faults, four rounds |
| `basket` | `AppliedLeaves`, `NeverResentByThePatient`, `StagedIsSent`, `SavedPlanWhole` | two changes, two clicks on Apply, so that two runs overlap and the second follows an interrupted first; one write of others; the view may be left and opened again once |
| `request_gate` | `AskedUnderSlot`, `Gapless`, `SaysWhenShort`, `EveryRequestEnds`, and that the only end is `Done` | one slot and two requests, one of each kind and one that waits for it or passes by; directories of up to three entries in pages of up to two, so that there is a first, a last and a full last page, and a size limit that falls on either page |
| `export_complete` | violated: `ExportComplete` | as `request_gate` |
| `package` | `OrderRespects`, `DerivedHasOrder`, `ArrivesAsStaged`, `PromotedIsSatisfied`, `NothingWithoutItsNeeds` | up to three of twelve changes, one dependency by hand, two promotions, by each of the three ways. In the first, one write of others at any moment from the validation on, or one read that fails (`Disturbances`): a plan that withholds a change others need, one that goes stale, one the shell will not apply all happen. The second meets a package half applied, undisturbed, as `PromotedIsSatisfied` says. One entry is referred to, so that its deletion or renaming reaches others. The order and `NothingWithoutItsNeeds` are proved for up to 99 changes and any disturbances, `PromotedIsSatisfied` for any number of promotions |
| `comparison` | `DeletesOnlyTheAbsent`, `ProposesOnlyDifferences`, `Settles` | two entries, one below the other, and five things others may do, two of them anywhere (between two pages, during a capture, between rounds); three rounds, so that the second round's effect is looked at; one question may be put, which leaves others unasked; the whole tree, a subtree, and a filter; one attribute hidden on each server, one fault |
| `saved_plan` | `EffectAsShown`, `OverwritesNobody`, `OnlyWhatFilesAsk`, `LeavesWhatFilesDescribe` | a person, a group and an entry that comes and goes below the person; two projects (one that respells a value and one that adds an entry) and three exact inputs (delete with its reference, rename, two attributes at once); two of eight writes of others, so that a change can be made and undone between two readings; two runs, one edit of each file |

Deadlock is checked in `request_gate`, where a request that waits for a slot nobody gives back would
be one. The other systems may come to rest when their bounded supply of requests, connections,
clicks or changes is used up.

What the conditions of some properties leave out, and why:

* `LimitHeld` counts sessions and references together. `MarkedStaysExpired` is why `reap` may mark
  under the read lock and remove later.
* `PlannedStateMet` speaks of a checked plan's change to an entry nothing before it in the request
  reached, with nobody writing after the request's check: LDAP has no way to close that last window,
  and the code does not claim to. `RecoveryOverwritesNobody` has the same exception, and allows a
  compensation to meet any value Alder itself left there: an expectation cannot tell its own value
  from the same value written by another. `RecoveryRestores` compares by equality rule and leaves
  out sensitive and server-owned attributes. `BundleNeverStuck` excepts bundles where a name was
  given up and taken again, and `VerdictTrue` changes that name an attribute twice; see below.
* `Basket` names what the operator does ahead of an answer (`haste`: *edited* while a check was
  under way, *left* the view after a run, runs that *overlapped*, a click on Apply while a question
  is *asked*), and lets one kind happen in a
  behaviour. `NeverResentByThePatient` speaks of behaviours without any, and of the next run only
  (`Premature`: it sends the change in doubt again, or goes without a plan while one was asked for);
  `AppliedLeaves` and `StagedIsSent` leave out *edited*. Each exclusion is a behaviour of the code,
  listed below.
* `ArrivesAsStaged` compares with what was staged but for what the plan has shown as conflicts. Of a
  branch that is deleted from below, the entry above is a conflict in the plan as long as the other
  is there, although both deletions were ready: the browser carries out the lower one alone, the
  shell nothing. Whatever is not shown as a conflict has to arrive.
* `NothingWithoutItsNeeds` excepts, in the browser, a change that depends on one its plan shows as a
  conflict. Where a package adds an entry and another below it, and somebody else adds the first
  after the validation, the plan makes that addition a conflict, and the run sends the second by
  itself, below an entry that is not the package's. The plan is on the screen when Apply is clicked.
  There is no exception from the shell or without a plan; nor in the browser for a dependency the
  plan did not show as a conflict, whatever goes stale, fails or is refused after it.
* `PromotedIsSatisfied` and `ArrivesAsStaged` speak of a target nobody else writes to, and the first
  of a change no later one disturbs (`Disturbs`: the entry is written again, under either name, or
  referential integrity follows a deletion or a rename into an attribute the change names), and of
  changes a target can show (`Recognisable`; see below for those it cannot). `SaysWhenShort` leaves out the export, which has
  `ExportComplete`, and the inventory, which says nothing.
* `EffectAsShown` and `OverwritesNobody` speak of a change of the unedited file that meets the entry
  as the server's check found it: the window between check and write is LDAP's. The second compares
  with what `writeSaved` read, not with what was shown; see below. `EffectAsShown` does not count what a
  rename of an entry onto its own name moves: nothing moves. `OnlyWhatFilesAsk` lets an entry that is
  added hold its naming value beside the values the files give, as the directory sees to that.
  `LeavesWhatFilesDescribe` allows the same, and is about a directory and a saved file left alone: the
  project's own files may be edited meanwhile.
* `DeletesOnlyTheAbsent` and `Settles` leave out a filter: what a filter left out of a file is taken
  for absent (below). `ProposesOnlyDifferences` does not, but excepts an operational attribute where
  the live side has no schema: the comparison cannot tell that it is one, and takes it for absent
  from a target whose capture did not ask for it.
* `ProposesOnlyDifferences` and `Settles` need the directory to have been left alone since the live
  side was read; the plan that follows is what protects against the rest (`PlannedStateMet`).

**Fairness.** `SessionStore`: a goroutine that can go on does, a dial ends one way or the other, the
sweeper's ticker ticks; no request and no shutdown has to happen. `LdapSession`: a goroutine goes on,
the connection's timeout ends a wait nothing else ends, and `sync.Mutex` admits every waiter
(weak fairness suffices, as the model lets a waiter in whenever the lock is free and each holder
lets go); the network and the directory owe nothing. `SchemaCache`: the same, with strong fairness of
the load, which waits for `session.mu` that changes take and release again; Go's mutex hands over to
a waiter that has starved for a millisecond. `RequestGate`: an exchange with the directory ends,
answered or not (the driver's timeout), a wait for a slot ends after `inFlightWait`, a request's
context after `requestTimeout`, and a write to the client by the server's `WriteTimeout`. `Basket`,
`Changeset`, `ChangePackage`, `Comparison` and `SavedPlan` state no liveness: an operator owes nothing.

### What the violated run says

* `export_complete` — when the directory's own size limit falls on a later page, `Search` returns
  that page empty and truncated. The export's loop ends on an empty page without looking at
  `Truncated`, and the file ends with "This export is complete."; handlers.go:1488 names this as what
  must not happen.

### Seen and given no run

Each of these was met as a trace while a property was being found, and is why the property has the
condition it has.

* *LDAP session.* Between two pages another call can find the link broken; the next page is then
  sent, with the old cookie, on the connection `ready` has just opened (driver.go:358), although
  driver.go:340 says that a cookie belongs to the connection that issued it.
* *Session store.* A connect in flight at shutdown stores its session after `Store.Close` took its
  list (session.go:495). The process ends soon after.
* *Schema cache.* A refresh or a schema change between a reader's load and its last look makes
  `Schema` return `nil, nil` (ops.go:38).
* *Recovery.* Modify, delete, add again, modify: the compensation of the first modification may be
  applied to the entry that was added again, and the rest conflicts in every round (docs/RECOVERY.md:233
  says such bundles recover in rounds). The compensation of a delete carries no expectation, so one
  derived from a state out of date is written back without a word (docs/RECOVERY.md:214). A change
  whose answer was lost is not in the bundle though it may have been carried out. A modification
  that changes the spelling of one value and the membership of another is undone by difference,
  which leaves the new spelling on a step called `exact`.
* *Outcome.* A modification that deletes a value and adds another spelling of it was carried out;
  `Determine` says it was not (outcome.go:161).
* *Basket.* `interrupted` is state of the view (changeset.tsx:76), so an operator who leaves it and
  comes back may send the change again; docs/DECISIONS.md:5091 says it is held. A plan is labelled with
  the basket as it is when the answer comes (changeset.tsx:119), so a change that was removed while
  the check was under way is sent with the next click. A check answered during a run enables Apply
  again; with two runs under way, the second answer may be shown in the panel of the first, which
  asks no more, while Apply waits for it to be asked. With a third run, a change that was found not
  to have been applied is sent without a plan after all: somebody else makes it meanwhile, so the
  new plan leaves it out, the answer to that plan's run clears `interrupted`, and the next click on
  Apply sends what is left of the basket as it is. docs/DECISIONS.md:5101 asks only that the next run
  not go without a plan, and that is what is checked and proved.
* *Paged reading.* The inventory ignores `Truncated` (inventory.go:297). Without the paging control a
  size limit discards the entries that did arrive: an export is then a 404, a search an empty page.
  Readers other than the export go on asking with an exhausted cookie until their time is up.
* *Packages.* The Packages tab puts a package's ready changes into the basket like any others. None
  carries an expectation, so Apply does not wait for a plan (changeset.tsx:535) and without one sends
  the changes as they are (changeset.tsx:143). docs/CHANGE-PACKAGES.md:35 says that there is no path
  from a package to an apply that skips the plan; from the shell there is none, in the browser it is
  `Apply` from the phase *staged*. Identifiers are compared as strings (package.go:457): of ten changes or more, `c10` is
  placed before `c9`, and two modifications of one entry, between which no dependency is derived,
  swap; derive.go:14 says that the order a package arrived in stops mattering. (`Earlier = 8` in
  `ChangePackage.cfg` shows it.) A modification of an entry that an earlier change of the package
  creates is a conflict until the next promotion; a rename's target is not counted as created
  (validate.go:225); of a delete and an add of the entry as it is, the add is already satisfied and
  the delete is carried out; a parent an earlier change deletes counts as there; of two
  replacements of one attribute each promotion undoes the other. A branch whose deletions are all
  ready takes one promotion for each level through the browser's plan, and from the shell does not
  go at all: the plan has a conflict (plan.go:609, cli/plan.go:643) until somebody deletes the lower
  levels. Promoted again, four kinds of change
  the target has taken are not already satisfied: an add that gives the naming attribute without the
  value of the name, which the target adds, and an add of an operational attribute, which "*" does
  not read, are a conflict (`entryHolds`, validate.go:713, wants the values as given); so is a rename
  of an entry onto its own name; and a modify that names an attribute twice may be ready again.
  `Recognisable` leaves these out, for docs/CHANGE-PACKAGES.md:221 speaks of what the target already
  holds.
* *Saved plans.* `sameAsShown` compares action, membership, references and subordinates. Another
  person's edit of any other attribute, or of an entry that is to be deleted, made between the plan
  that is shown and the reading of what the change expects, goes into the expectation, and is
  overwritten or deleted at apply; so does an entry removed and added again under the name of one to
  be renamed. docs/proposals/saved-plans.md:103 says of such an edit that it was fixed, and
  savedplan.go:399 that a deletion is right only while the entry holds what the reviewer saw deleted.
  A project whose files write one attribute under two names saves a plan that every apply refuses
  (savedplanbind.go:145), though `writeSaved` says that saving proves the file applies.
* *Comparison.* An entry that does not match the filter when the snapshot is taken and matches it
  when the directory is compared is *removed* in a complete comparison, and its deletion is proposed
  (diff.go:202); docs/SNAPSHOTS.md:287 says that a comparison that could not see something says so.
  With a filter it does not settle either. What is to change in an entry that is also renamed is
  addressed to a name that does not exist when the set is planned, and is left out as a conflict: a
  second round is needed (docs/SNAPSHOTS.md:329 lists both in one candidate). Without a schema
  nothing is known to be operational, so a capture of operational attributes lets an add propose
  them. A file that was written into while it was captured may hold entries without their parents.

## 4. What is proved

Every theorem is for all values of the constants allowed by the module's named assumptions
(`StoreConstants`, `SessionConstants`, `SchemaCacheConstants`, `RequestGateConstants`,
`PagedSearchConstants`, `BasketConstants`, `DirectoryConstants`, `ChangesetConstants`,
`PackageOrderConstants`, `ChangePackageConstants`, `LiveDirectoryConstants`, `StateDiffConstants`,
`ComparisonConstants`, `SavedPlanConstants`). They say that the kinds of names are distinct
and that `None`, `NoEntry` and `NoExpect` are none of the values they stand in for, that bounds are
numbers, that the menus and starting directories are well-formed changes and contents, that a folded
value folds to itself, that a directory answers in numbered entries (empty pages and limits of zero
included), and that a package has at most 99 changes, which is as far as `Rank` writes numbers as
strings. Of the directory that is compared they say that no two entries begin with one unique
identity, of a saved plan that a project's records are entries (`project.go` reads nothing else) and
name different ones (project.go:728 refuses a second description), that members are neither secret nor
kept by the server, and of it and of a package's target that a directory begins as a tree. TLC evaluates them in the runs.

**SessionStoreProofs.** `TypeCorrect`. `OwnershipHolds` proves `OneOwner` and
`ReferenceDiesWithSession` from `Ownership`, which adds what makes them inductive: a stored session
is live, a session not stored yet is new, and nobody carries for closing the connection it hopes to
hand over. `LimitAlwaysHeld` proves `LimitHeld` from `LimitInv`; only `Insert` and `Attach` can raise
the count, each rechecks it in the locked section that does, and the cardinality lemmas say what one
element more or less does. `MarkedSessionsStayExpired` proves `MarkedStaysExpired` from `ExpiryInv`:
a request that passed `Get`'s check cannot have been looking at a session that was then expired.
`StoreImplementsLedger` proves the refinement `ImplementsLedger` from the same invariants: a step of
the store dials, takes in the connection its goroutine carries (`HoldStep`: nobody else owns it, by
`Ownership`, and there is room for it, by `LimitInv` after the step), lets go of some
(`ReleaseStep`), closes one that is carried and so not held (`CloseConnStep`), or changes nothing the
ledger speaks of.

**LdapSessionProofs.** `IInv` joins the type invariant with four parts: how far `Connect` has come
(`StageInv`), which connection carries which identity (`LinkInv`), what is known of each change
against what happened to it (`WriteInv`), how often a search's request went out (`ReadInv`). From it
follow `TypeCorrect`, `NeverSentAgain`, `IdentityKept`, `NoConnectionStrays`, and
`SessionKeepsContract`: each step of the session is a step of `WriteContract` or stutters.

Of the schema cache: `CacheTypeCorrect`, and `NeverStale` for `CacheFresh`. What is cached, and what a
load of the current generation is about to cache, is at least every floor: a floor is set to `own`,
which both are at least, or to `version` together with a new generation, and `own` moves only with
a new generation; a load reads `version`, which nothing exceeds (`CachedNow`, `LoadedNow`,
`Bounded`). `Room` and `Running` keep generations within bounds and run by one caller.

**RequestGateProofs.** `TypeCorrect`; `GateCounts` for `SlotsCounted`; `PagesUnderSlot` for
`AskedUnderSlot`. `IInv` adds, for each request, that before it has a slot it has nothing else
(`Outside`), that the slot is held until the handler has returned and the writer, if there is one,
has ended (`Inside`), and that a request asks, or has a page to take, or has answered, and only
while somebody is at it (`Reading`). A release that hands its slot to a waiter moves one holder to
another, every other release and every arrival changes `Holders` by one (`OneMore`, `OneLess`,
`HandedOver`).

`ReadsAreGapless` and `ShortAnswersSaySo` prove `Gapless` and `SaysWhenShort` for any directory, page
size and limit, from a second invariant, `RInv`. `Placed` says of each request that what it has read
is `Run(1, n)`, the first n entries; that a call under way (`Asking`) goes on where they end, with
what the driver's loop has collected and the cookie both there; that so does a page that came and is
not taken yet (`Came`), which is whole when it neither has a cookie nor says it was cut; and that the
request asks for no more than it may still hold (`MayRead`, one more for those that read one to
know). `Kept` adds what an answer that says *complete* stands for. The cookie is why `Gapless` alone
is not inductive: it says where the next page begins and nothing in `Gapless` ties it to what was
read. The lemmas follow `Returns`, the driver's loop, and `Want`, `Verdict` and `Failed`, one case
for each kind of reader.

**BasketProofs.** `BasketFits` is the invariant: `Lists`, `Plans`, `Runs` and `Doubts` say what plans,
runs, answers and questions are about: changes given out, each once, at positions of the list that
was sent. `AppliedLeavesHolds` and `StagedIsSentHolds` need `Labelled` beside it: unless a check was
answered after an edit, a plan carries the label of the basket it was made of, so that positions in
an answer name the changes that were sent. `SavedPlanWholeHolds` needs `Saved`: while the basket is a
saved plan, it is all of it, and every check under way was sent with all of it. `NeverResent`
needs `Patient`: without haste one run is under way at a time (`OneAtATime`), what is unknown is what
the view holds back (`HeldBack`), and a question is about that change and no other (`AskedAbout`).
Each is for any number of changes, clicks and views. `DataProofs` says what a selection from a
list contains, in which order, and that it repeats nothing the list does not (`SelectedIs`,
`SelectedElements`).

**ChangesetProofs.** `InvariantHolds` is for every menu of changes, every starting directory and any
number of other writers, faults and rounds; TLC checked the invariant on both `Changeset` runs first.
`TypeOK` includes that what is derived is a valid change again: the compensations of valid changes,
and what merging and the folds over a bundle make of them (`DeriveTyped`, `ChangesTyped`), and that
the directory stays well-formed (`DoneTyped`). `Progress` is how far the request has come; `Recorded`,
that the recorder has what ran and no more; `EachOnce`, that no change is staged twice, which is why
positions name changes; `RanTrue`, that the directory is the fold of what was reported over the one
the run began with. Four theorems follow. `AnswerHolds` (`AnswerTrue`) from `RanTrue` and `EachOnce`.
`PreStateHolds` (`PreStateTrue`) from `ReadsStand` and `PreStands`: a read of the check stands for an
entry until a change in the request reaches it or leaves the server something to do on its own, and
that is when the code reads again. `PlannedStateHolds` (`PlannedStateMet`) from `PlanStands`: an entry
not yet reached is as the plan saw it, from its verification to its turn. `VerdictHolds`
(`VerdictTrue`) from `VerdictStands`, by `LandedIsSeen` and `ToldAppliedIsWanted`: a change that
landed shows in what `Determine` reads, whatever its type.

**ChangePackageProofs.** `OrderIsRespected` and `CyclesAreRefused`, from what
the loop maintains: `indegree` counts the dependencies not placed yet and `ready` is where it is zero
(`Counted`), and no change of a circle is ever placed (`CirclesStayOut`). When nothing is ready, what
is left depends in a circle; when everything is placed, there is none. `ImplementsOrder` maps
`ChangePackage` to `PackageOrder`, so that both hold of every package that is built
(`PackagesRespectOrder`, `PackagesRefuseCycles`). `DerivedAlwaysOrdered` (`DerivedHasOrder`) is about
what `Derive` derives: of deletions in a circle, the one of the longest DN would wait for a longer
one; in a circle without deletions there is an addition, and the one of the shortest DN would wait
for a shorter one (`DerivedIsOrderly`). `NeedsComeFirst` (`NothingWithoutItsNeeds`) joins the order's
invariant with `PInv`: the changes with a verdict are the first of the order (`Checked`), a verdict
that lets a change through was given when those it needs had one (`NeedsMet`), what was carried
out the first time is what comes first of the changes that are sent (`Sent`), and a shell that has
begun to verify has a plan without a conflict (`Whole`). What is sent is all of the ready changes in
their order, but for those the plan has nothing to send for (`SentItems`): a change that is needed
comes before the one that needs it, and was carried out, or is among those, which are unchanged or
in conflict. TLC checked `PInv`, and the `TInv` below, on the states of the `package` run first.
`PromotedStaysSatisfied` (`PromotedIsSatisfied`) adds `TInv`. A change that lands is one the target shows
(`LandedTaken`): for a modify, because each of its modifications is the only one of its attribute and
was allowed (`SatisfiedAfter`); for a rename, because a directory is a tree, so that nothing that moves
arrives at the old name (`MovedAway`). What is carried out later leaves alone what it does not touch
(`DoneElsewhere`), so that the target goes on showing it (`StaysTaken`, and `StillTaken` over the list
of what landed); and what the target shows is answered as satisfied (`TakenIsSatisfied`) once what
the change needs is met, which no later verdict takes back, as the order put it before
(`Answered`).

**RecordedProofs, of `Comparison`.** `InvariantHolds` is for any entries and attributes, any servers
with any schema and anything hidden, any faults and other writers; TLC checked the invariant on the
run's 1.6 million states first. What makes `DeletesOnlyTheAbsent` inductive is an account of the read: an
entry that stays as it was keeps its name and identity while the file is captured (`WasStays`), so
its identity is still among those the search has to return until it has been read (`NothingMissed`),
and a whole unfiltered read makes a file that holds it (`FileTrue`). The comparison then says
*removed* only of a name that is in neither of two complete sides under any name or identity
(`SidesTrue`, `ItemsTrue`). `DifferencesHold` (`ProposesOnlyDifferences`) follows from the same parts
with `ReadTrue`, that until somebody writes what was read is what is there: what `Missing` asks the
directory tells an attribute that is hidden from one that is not there (`Told`), and `ModOf` says of
each modification which values it is made of.

**RecordedProofs, of `SavedPlan`.** `SavedInvariantHolds` is for any input, any directory, any number of
other writers and of applications, any edit of both files; TLC checked `SInv` on the run's states
first. `ShownTrue`, `SavingTrue`, `AgainTrue` and `SavedTrue` tie the file to what was shown: a saved
change is one that was shown to do something, expects what was read of its entry, and does to
members, planned again, what was shown. `RunsTrue` ties an application to the file it loaded: its
changes are valid and, in a project, bound to the files as they were read (`InUse`), and each
expectation was upheld by the entry the server's check met (`Checks`). `DirTrue` is that the
directory stays a tree of well-formed entries (`DoneTree`). `FilesAreAsked` (`OnlyWhatFilesAsk`) is then
about `bindToProject` alone, which is why it holds of an edited file: what it lets through replaces an
attribute the files name by the values they give, or adds an entry as they give it. For
`NobodyIsOverwritten` (`OverwritesNobody`) the expectation is the link (`AsSavedIs`): it speaks about
every attribute the change touches — for a deletion about all there are, and *exhaustive* covers the
rest —, the check found it upheld, so what goes is by the equality rule what was read (`AsRead`,
`ReviewedSpares`). `EffectIsShown` (`EffectAsShown`) needs that membership depends on keys alone
(`KeysAfterMod`, `KeysApplied`): the second plan was made of entries read at another time, but under
an upheld expectation their members have the same keys. That as many entries move as were shown
follows from the counted expectation and from a rename's being one-to-one below the entry
(`SubtreeCounted`).

`FilesAreMet` (`LeavesWhatFilesDescribe`) needs a second invariant, `AloneInv`, which TLC also checked
on all 423017 states of the run first. While nobody else writes and the saved file is not edited: the
plan that is shown covers the files record by record, without a conflict once it is saved, and all
that would do something is saved (`Covers`); an application works on what was saved, for the files it
was made of (`Kept`); an item that is shown still completes its record, that is, every attribute the
record names either is as the files have it or is among those the item replaces (`ShownCompletes`);
and what an application has carried out stands (`Stands`). What makes it inductive, two applications
taking turns included, is that whatever lands writes what the files describe (`LandsAsDescribed`) and no
two records speak of one entry (`RecordsApart`): no change of the plan undoes another
(`CompletesStays`, `DescribedStays`), and the one that lands leaves its own record described
(`LandsDescribed`).

The type invariants, `ReferenceDiesWithSession`, `SlotsCounted` and `RefusedWhenUnusable` are proved
and no run checks them again; they were checked with TLC first.

Induction on numbers is used where it is needed, through the well-foundedness of `<` (`WFMin` and
`NatLessThanWellFounded`, in `Least` and `AllNumbers` of `DataProofs`): the library's induction
theorems take an operator as a parameter and cannot be applied here. A fold is taken apart by its
definition (`Chained`, `PlayedIs`).

**Only model-checked**, and why:

* Liveness (`NoConnectionLeaks`, `ExpiredSessionsClose`, `EveryCallReturns`, `EveryReaderAnswered`,
  `EveryRequestEnds`): the prover has no fairness reasoning.
* `RecoveryOverwritesNobody`, `RecoveryRestores`, `BundleNeverStuck`: they speak of the menus of the
  runs. For arbitrary changes the first does not hold, as a rename in the bundle may bring another
  entry under the name a later compensation speaks of; the others rest on what the merging of
  compensations computes, change by change, and have the exceptions listed above.
* `ArrivesAsStaged`: which changes commute is a matter of the menu; the ten-change trace above is an
  exception.
* `Settles` speaks of two whole rounds: it needs an order in which a set of proposals goes through,
  and an induction over the changes that were applied.

## 5. Not modelled, and what is left

Schema and configuration changes and snapshots, the single-entry handlers, and the rebasing of
projects have order worth a model and have none yet. Replication
comparison, preflight, index advice, impact and audits read and report; allowlist and signing decide
on data that does not change; formats, routing, pages and generated clients have no behaviour of
their own that interleaves or fails halfway.

1. `Changeset`: the single-entry handlers as actions; a lost change that lands late, composing with
   `WriteContract` in place of the directory's immediate answer.
2. Saved plans: an apply composed with `Changeset` in place of `Send`, and a plan of a rebased project.
3. Schema and configuration changes: planning against the set, compensation from the state after.
4. Proofs: `RecoveryRestores` for a bundle of one change; `ArrivesAsStaged` for changes of different
   entries.
