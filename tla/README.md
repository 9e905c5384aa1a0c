# TLA+ model of PowerGSLB

PowerGSLB is a DNS load balancer: it answers the remote-backend queries of
PowerDNS with records chosen by client view, health and routing policy, checks
the health of the records, and is administered through a web interface.  This
directory holds TLA+ modules that model the program, TLC configurations that
check them on small instances, and TLAPS proofs.  `PROJECT.json` maps every
definition to the lines it models; the paths below are relative to
`src/powergslb/` of the repository.

## 1. The system

| part | state | operations | interaction |
|---|---|---|---|
| Monitor manager (`monitor/monitor.py`, `monitor/thread.py`) | `_threads`: content id to CheckThread | poll the database, reconcile, signal / join / abandon / start threads, clean the registry, shutdown | starts CheckThreads, reads `gslb_checks`, writes the registry, is stopped by the supervisor |
| Check threads (`monitor/check/thread.py`) | `_fall`, `_rise`, check, shutdown request | run a check, count, mark down or up | write the registry |
| Status registry (`monitor/status.py`) | set of down content ids | add, remove, is_down, retain, snapshot | shared by check threads, manager, DNS and admin handlers; no lock |
| Health checks (`monitor/check/*.py`) | none | `execute()` | sockets, processes |
| DNS lookup (`server/http/handler/powerdns.py`) | locals of one request | view filter, health tiers, policy, ECS scope | reads the database once, reads the registry record by record |
| Routing policies (`routing/`) | none (frozen, cached) | `select` | called by the lookup |
| View rules, GeoIP (`view/`, `client/`) | none (frozen, cached) | `matches`, `matches_all` | called by the lookup |
| Service supervisor (`system/service.py`, `main.py`) | shutdown Event, signal number | start, watch, signal handler, stop, exit code | starts and stops MonitorManager and the two servers |
| HTTP server lifecycle (`server/http/server.py`) | `_stopping`, `_server`, socket | bind, publish, serve, shutdown | accept loop, one thread per connection |
| HTTP request handling (`server/http/handler/request.py`, `queryparser.py`) | handler object of a keep-alive connection: headers, body, query, user | one request after another | opens the database per connection, dispatches to the admin or the DNS handler |
| Admin handler, transactions, audit (`handler/admin.py`, `database/mysql/w2ui.py`, `tables.py`) | rows, audit trail | list, save, delete, login | one database transaction per write |
| Schema triggers (`database/scheme.sql`) | rrsets, records | guard an rrset, remove an empty one | run inside the admin transactions |
| Database connection (`database/mysql/database.py`) | connection, transaction flag | cursor, reconnect, commit, roll back | used by all handlers and the manager |
| Paging and search (`database/page.py`, `tables.py`) | locals of one read | page, total and join of a listing | up to three statements outside a transaction |
| Configuration, passwords, serialization, admin UI, packaging | | | not concurrent, pure or generated: left out |

### What is hard, and what must be true

*Monitoring.*  A poll replaces threads while they run; a thread that does not
stop in time is abandoned and goes on writing the registry; rows are edited,
removed and re-created; threads die; the database fails.  One unsignalled thread
per id; `_threads` ends up as the database asks; a status moves only on a run
of results; statuses converge; a shutdown ends the manager.

*Lookup.*  Statuses change while they are read one by one.  The answer must be
one that the rules give for statuses the records had during the lookup, never
empty, and falls back only past records seen down.  Weights are proportions for
weighted-random and tiers for the others, zero included; a record that comes or
goes must not move the clients that were not answered with it.

*ECS scope.*  A resolver reuses an answer for a whole network.  The scope has to
be narrow enough for every view rule and policy that went into the answer, also
those of records that were not answered.

*Process.*  A signal interrupts the main thread anywhere; service threads die at
any point of their start; shutdown catches a server before, while or after it
starts to serve.  The exit code, which drives systemd's restart, has to tell the
truth; nothing keeps serving; the process ends.

*Admin writes.*  Transactions of several administrators on the same rows; what
is audited was read before the write, or after it; a connection breaks between
two statements or under the COMMIT; generated keys are not given back.  The
trail must end in the state the rows have, a commit must audit what it changed,
and a connection that has replied must not be left in a transaction.

*Records and rrsets.*  A save upserts the rrset and writes the record in two
statements; triggers guard and collect rrsets inside them, while others save,
delete and edit at the same name.  No rrset without a record and no record
without its rrset; a CNAME alone at its name; one SOA record, one CNAME record
for each view.

*Connections.*  One handler object and one database connection serve a client's
requests one after another.  Nothing of an earlier request may be used for a
later one; what is read as a request must be one; each request gets one reply,
also when something raises; the database connection is given back.

*Listings.*  A form becomes clauses, the clauses a page, and the page is read in
up to three statements between which rows and statuses change.  The page must be
the one that was asked for; pages must fit together; the short way to read a
page must give what the full join gives.

The complete list, each hazard at its line with the properties that watch it,
is in `PROJECT.json`.

## 2. The modules

| module | models | composes |
|---|---|---|
| `Monitor` | manager, check threads, registry, the main thread's shutdown call | |
| `MonitorProofs` | theorems about `Monitor` | `Monitor` |
| `Views` | split of the records by view and health tier | |
| `Routing` | the answers each policy may give | |
| `Selection` | which records are answered | `Views`, `Routing` |
| `LookupSpec` | abstract: what a lookup promises | `Selection` |
| `Lookup` | the lookup reading one status after the other | `Selection`, `LookupSpec` |
| `LookupProofs` | `Lookup` implements `LookupSpec` | `Lookup` |
| `EcsScope` | scope of an answer, and a resolver that caches by it | `Views` |
| `EcsScopeProofs` | the scope is sound | `EcsScope` |
| `Supervisor` | main thread, signals, Event, services and accept loops | |
| `SupervisorProofs` | theorems about `Supervisor` | `Supervisor` |
| `AuditedTable` | abstract: a table and its trail, one step for each request | |
| `AdminTxn` | admin connections saving and deleting rows, their transactions and audit rows | `AuditedTable` |
| `AdminTxnProofs` | theorems about `AdminTxn`, which implements `AuditedTable` | `AdminTxn` |
| `RecordRows` | the rows of rrsets and records, what statements and triggers do to them | |
| `RecordsSpec` | abstract: one step for each save, delete or manual edit | `RecordRows` |
| `RecordsTxn` | saving and deleting records: two statements, the triggers, manual edits | `RecordRows`, `RecordsSpec` |
| `RecordsProofs` | theorems about `RecordsTxn`, which implements `RecordsSpec` | `RecordsTxn` |
| `Connection` | one client connection: requests, dispatch, login, replies, its database connection | |
| `ConnectionProofs` | theorems about `Connection` | `Connection` |
| `QueryValues` | the values of a parsed query | |
| `QueryParser` | what a posted form parses to | `QueryValues` |
| `Paging` | a listing from the form to the rows | `QueryValues`; the parser is its constant `Parse` |
| `PagingProofs` | theorems about `Paging` | `Paging` |
| `MCPaging` | `Paging` with `ParseQuery` for `Parse` | `Paging`, `QueryParser` |
| `MC...` | instances for TLC | |

Definitions named `X_Something` are faults: plausible bugs in the operator `X`
that the checks are known to catch.

### Monitor

`down` is `StatusRegistry._status`; `threads` is `_threads`; `pc`, `cid`, `chk`,
`fall`, `rise`, `stop` are the fields of each CheckThread, `mgr` says where
MonitorManager is in `run()` / `task()`, and `desired`, `toStop`, `toStart`
are the locals of a reconciliation.  `hist` is a history variable: the
last results of each thread.  `shut` is the main thread inside
`MonitorManager.shutdown`.

One action is a stretch of code between two accesses to shared state.  A check
thread tests its shutdown request (`StopLoop`, `RunCheck`), runs the check,
counts and tests the registry (`CheckFall`, `CheckRise`), and in a *separate*
step writes it (`SetDown`, `SetUp`): the code tests the set and then updates it,
and another thread may come in between.  `Poll` reads any rows at all, because
administrators edit them at any time; rows that are absent, of type `none` or
malformed give no check.  `SignalThreads` signals before `Joined` or `Abandon`:
the join budget is a deadline, so whether the threads made it is a choice.
`StartThread` takes a thread object that is dead and not referenced: a Python
object that no longer exists may be reused without loss.  `Retain` is `_clean_status`;
`retain` computes the ids it reports before it drops any, and a check thread
may come in between, but only a log line depends on what it reports.

Left out: durations and names, the contents of a check (a check is a model value
with its `fall` and `rise`).  A counter saturates at `Window`, the largest
threshold, because it is only compared with thresholds.

### Lookup

The row set of a lookup comes from one SELECT, so `rule`, `weight` and `policy`
(its kind and its `max_answers`) are fixed for the behaviour; `down` changes at
any time (`Flip`). A view rule is abstracted to what it does for this client:
`all`, `match`, `miss` or `malformed`. `SplitByView`, `ReadStatus` (one
`is_down` each), `TierLives`, `FallToCatchAll`, `AllDownAllUp` and `Choose` are
the evaluation of `self._live(specific) or self._live(catch_all) or specific or
catch_all` and the policy's `select`. `Routing` gives, for each policy, the set
of answers its random draws can produce; the hash of sticky-hash is an order of
the records. The loop of `WeightedRandom.select` is modelled draw by draw
(`BeginDraw`, `Draw`, `DrawEqual`, `DrawnAll`; `drawn` is its `selected`):
`Draw` picks any remaining record of positive weight, which is what
`_weighted_pick` returns over all draws of `randrange`. That walk is
`WeightedPick`; `WalkIsProportional` compares it, at every state of the loop and
for every order of the contents, with the weights, so `Draw` may leave the sums
out.  A sum of weights is a number of `Tickets`, of which a record holds as many
as it has weight; TLC compares the two for all weights of the instance. `_live` is a comprehension over a list, read here in any order.

`LookupSpec` is the abstract specification.  During a lookup it only remembers
who was down and who was up at some moment, and then answers in one step for
some status in which each record has a status it had.  It does not promise one
common moment for all records, and the code does not either.

### EcsScope

A resolver truncates the client's address to its source prefix, asks, and keeps
the answer with its scope.  `ContextIp` is the address the server sees; `Kinds`,
`AnswerTo` and `ScopePrefix` are the lookup as a function of it.  Random
policies have no single answer, so two answers are "the same" when they are
drawn from the same candidates and, for sticky-hash, for the same masked
network.  Addresses are bit strings of `Width[f]` bits, so masks and prefixes
are what they are in the code.  Countries are any function of the address.  A
continent selector works as a country one does.

Assumed of the resolver: one source prefix per address family (a cached answer
is only reused for queries sent with the same prefix); an answer without records
carries no scope and is not kept.  Statuses stand still while an answer is
cached: their change is what the TTL is for.

### Supervisor

`main` is where the main thread is in `SystemService.start()`; `flag` and `lock`
are the Event `_shutdown`.  Signal handlers run on the main thread, between two
of its instructions: `depth` handlers are on its stack and the code below does
not go on before they return.  `lock` records who holds the Event's lock, which
is not reentrant: `Event.wait()` takes it (`WaitAcquires`), gives it up to sleep
or to return (`WaitReleases`), takes it again (`Wakes`, `WaitReturns`).  `th` is
where each service thread is: started, bound, about to serve, in the accept
loop, in `accept()`, or dead.  `stopping` and `published` are
`HTTPServerManager._stopping` and `_server`, changed under its `_lock`, so
`Publish` and `StopServer` are one step each; `isShut` and `request` are the
fields of `BaseServer` that its `shutdown()` uses.  `orphan` is a history
variable: a service thread ended without having been asked to.

MonitorManager appears as a service that ends some time after it was asked; what
it does until then is `Monitor`'s `ShutdownCompletes`.  systemd notifications
are not modelled.

External code is modelled from its use: the Event and its lock, the accept loop
of `socketserver` and its `shutdown()`, `accept()`.

### AdminTxn

One table and its audit rows.  Each session is a connection thread of the admin
server with a database connection of its own; `pc` is where it is in
`save_data` / `delete_data`, or the reply it gave last.  `rows` and `trail` are
what is committed, `own` and `audit` what the transaction of a session has
written, `lock` the row locks.  `ids`, `value`, `before` and `after` are the
locals of the two functions.

One action is one statement: `Begin` (autocommit off, a lost connection
replaced), `ReadBefore`, `Delete` / `Update` / `Insert`, `ReadBack`, `Record`
(the audit rows in one INSERT), `Commit`.  Between any two of them the other
sessions run, the connection can break (`Lose`), or the code can fail (`Fail`).
`Fail` also stands for a lock wait that timed out, a deadlock, a refused write
and a violated constraint; it rolls back and replies with an error.  The
ROLLBACK of a live connection is assumed to be carried out.  One that fails, and
is suppressed (`database.py:173-174`), is one whose connection is lost: that is
`Lose` before `Fail`, the server has rolled the transaction back itself, and the
session whose autocommit was off is gone with it.
`CommitUnanswered` is the COMMIT that the server makes and whose answer is lost.

External, modelled from its use: the database.  It runs at REPEATABLE READ, its
default.  A read view is not kept as a copy of the rows: `newer` are the rows
others committed since.  MariaDB 11.6 and later refuse to write such a row,
MySQL 8 and older MariaDB write its present version; `SnapshotIsolation` chooses.
An UPDATE that finds the row as it is to be counts as no row affected and keeps
the lock.  A DELETE takes all its locks at once; taking them one after the other
only adds deadlocks, and those are `Fail`.

Left out: the `types` table, whose key is posted and not generated; columns
that are not audited (password hashes); the checks a handler makes before the
transaction.  `Records.save` and the triggers are in `RecordsTxn`.

`AuditedTable` is the abstract specification.  It has neither connections nor
transactions: a step inserts, updates or deletes rows and adds the audit rows
that tell so, one for each row, with the state before and after.  All steps of
`AdminTxn` stutter but the two commits and the losses, timeouts and inserts that
use up a key.  Its `unused`, the keys that no row had yet, are the keys not
generated and those held by inserts that are not committed.

### RecordsTxn

`rows` is what is committed of `rrsets` and `records`, an rrset being known by
its unique key (name and type, in one zone) and a record by its id with the key
of its rrset and its view.  `own` is what the transaction of a session has
written, `Current` the rows as its statements find them.  `Guard`,
`UpsertPasses`, `RecordPasses`, `Written` and `Deleted` in `RecordRows` are
`rrset_guard` and the triggers, as operators on the rows: they run inside the statement that fires
them, so there is no step between a record's DELETE and the DELETE of its rrset.

`BeginRead` is the SELECT that opens the transaction of an update or a delete
and with it the read view; an insert starts with `UpsertRrset`.  `InsertRecord`,
`UpdateRecord` and `UpdateMissing` are the second statement, `ReadBack` the read
that must find the written row, `DeleteRecords` the DELETE.  A refusal by a
trigger is a `Fail`: the statement raises and the transaction is rolled back.
`ManualUpdate` and `ManualRecord` are an operator's own SQL, which
`src/database/README.md` names as the second way to write.  It may give an rrset
any name and type that `rrset_guard` passes, CNAME included (`ManualTypes`),
although the guard counts the records of an rrset only when it becomes an SOA
(section 5).  It does not insert an rrset without a record, which is what the
operator would be asking for.

`OneAnswerKept` is an action property for that reason: from every state, also
from one in which an operator has given a CNAME two answers, what is single
stays single in every step but an UPDATE that makes the rrset a CNAME
(`Retyped`).  `OneAnswer`, the invariant, holds where `ManualTypes` leaves the
CNAME out; that is proved (`NoSecondAnswer`).

External: InnoDB.  The index and row locks a statement and its triggers take at
one name are one lock, held until the transaction ends; a deadlock is a `Fail`.
`SnapshotIsolation` is as in `AdminTxn`.  A save that changes nothing affects no
rows; whether it changes ttl, policy, monitor, weight or content is open, because
these columns are left out.

`RecordsSpec` is the abstract specification: a save upserts its rrset and writes
its record, a delete deletes records that are all there, a manual edit changes
one row, each in one step on the rows of that moment and only if those rows let
each of its statements pass the triggers.  `RecordsTxn` implements it although
its requests read, upsert and write in separate steps: what happens to the
committed rows happens at a commit, and what a transaction relied on is still so
then.  The mapping of `unused` is as for `AuditedTable`.

### Connection

`headers`, `body`, `query` and `user` are the attributes of the handler object
that live as long as the connection; what they hold is the number of the message
it is of, so that something left over is seen to be left over.  For the DNS
handler `user` is `context`, the client network.  `wire` is what the client has
sent and the server has not read.  A client may send ahead.

`ReadRequest` to `Raised` follow `handle`, `do_GET`, `do_POST`,
`_handle_request`, `_handle_route`, `_is_authorized`, `_parse_query` and
`content`, with every early return and error path; `Statement` is a statement
outside a transaction, which replaces a lost connection once
(`_open_cursor`), `StatementFails` one that raises.  `replies` and `ran` are
history variables: who was answered, and what ran for whom.

A message is a head and perhaps a body, with any method: `body` says how it
comes, with its `"length"`, with a `"bad length"`, or `"chunked"` and without a
length.  `DoGet` clears what was left of an earlier body and reads none; `DoPost`
takes a body off the wire only by its Content-Length, which a chunked one does
not have; with an unknown method (PUT) nothing is read and the connection ends.
So the body of a GET or a HEAD and a chunked body of a POST are still on the wire
when the request has been answered, and on a connection that is kept
`ReadStray` takes them for a request line: the first line of the body, or a body
without a line end together with the next request line.  The first is a bad
line; the second is one as well or has an unknown method, and takes the next
request with it.  `NoRequest` is also the empty line that closes the connection
without an answer, and the line that does not end in time.  `LeavesBody` names
these requests in the properties: after any other the wire is in step.

External: `http.server`, from how `request.py` uses it.  No body reads as a
request line in order, nor does its end make one of the line that follows.  A file that
cannot be read after the headers were sent is left out; which representation of
an asset is sent is too.

### QueryParser and Paging

A form is a sequence of pairs, each with the path of its key: `a[b][0][]` is
`<<"a", "b", "0", "">>`.  `ParseQuery` follows the merge of the pairs and
`_normalize`; a value is tagged as what it becomes in Python.  The results were
compared with those of `queryparser.py` over a thousand forms of up to three
pairs.  It is recursive, so `Paging` takes the parser as the constant `Parse`
and says what it needs of it: `ParserAssumption`, that the form of a request
parses to the table it names, to sorts and numbers of the right kind, and that a
request for another offset differs in the offset only.  `MCPaging` gives `Parse`
the parser of `QueryParser`, and TLC evaluates the assumption for every request
of the instance.

`Param` is what w2ui posts for a request, `FromQuery` the `PageRequest`,
`Selected`, `OrderBy` and `Cut` are the WHERE, ORDER BY and LIMIT that
`tables.py` composes.  SQL may give equal rows in any order, so `ReadPage`
takes any of `Orders`.  `ReadPage`, `Count` and `Join` are the three statements
of a read; in between, `Write` changes a record and `Flip` a status.  `Status`
is the status table, whose status column is computed from the down ids of the
moment the read began.  `Kept` is the comprehension of `_join_page`: the rows of
the page that are still there, in the order of the page.  `still`, `moments` and
`shown` are history variables.

A record has an id, two columns of its own and one joined column, which is what
decides between the short read and the full join.  Texts are compared through
`Collate` and `Like`, given by the instance.  Date clauses and the other tables'
projections are left out.  After a row was edited between the page and the join,
a local listing shows the edited row although its search may no longer match:
no property says otherwise, except for the status.

## 3. The runs

| run | instance | shows |
|---|---|---|
| `monitor` | one id, checks with thresholds 1 and 2, two threads, fair | types, one active thread, what a reconciliation leaves, debounce, status kept; convergence down, up and to forgotten; shutdown ends the manager; over every order of checks, edits, stragglers, crashes, database errors and shutdown |
| `lookup` | three records, all rules and policies, four sets of weights | refinement of `LookupSpec`, never empty, draws in proportion to the weights, minimal remapping of sticky clients |
| `ecs_scope` | two records, six rules, addresses of 3 and 2 bits | a cached answer is right for its whole scope |
| `ecs_zero_scope` | violation | scope 0 although the other family's answer differs |
| `supervisor` | monitor and two servers, two signals, fair, no TLS | types and lock, exit code, nothing left serving; a dead thread or a signal ends the process |
| `supervisor_signal` | violation | a signal during `Event.wait()` can hang the process |
| `supervisor_timeout` | violation | a TLS handshake holds up `shutdown(timeout)` |
| `admin_txn` | two connections, three keys, two rows at first, snapshot isolation | refinement of `AuditedTable`: each request writes and audits its rows at once; the trail tells the rows, a connection at rest holds nothing, over every order of statements, losses and rollbacks |
| `records` | two connections and an operator, two names, three types, two views, two records, snapshot isolation | refinement of `RecordsSpec`: each request acts as a whole on the rows of its commit; no empty rrset and no record without one, CNAME alone; one SOA record and one CNAME record for each view, unless an operator retypes an rrset to CNAME |
| `records_cname` | violation | a CNAME rrset that exists cannot be saved again |
| `connection` | three messages out of those the handlers tell apart, two users | commands run under their own request and user, once; the connection stays in sync and each request has one reply, except after a body that is not counted; the database connection is released |
| `paging` | three ids, two changes, listings, drop-downs and forms with good and bad values | the page is the one asked for, its total is one of a moment, pages fit together, both read shapes agree, a status listed is the one searched for |

### Bounds and why they suffice

*Monitor.*  Two threads per id are what a straggler and its replacement need;
with both taken, a start waits, which is the moment between two polls.  A check
with threshold 2 is the smallest that debounces, one with threshold 1 the
boundary.  Two checks and an absent row let every edit happen: change, removal,
re-creation.

*Lookup.* Three records under every assignment of four kinds of rule put up to
three records into a tier and fill both tiers. The weights (`MCWeights`) make
highest tiers of one, two and three records, zeros among positive weights, and
zeros only; `max_answers` 1 and 2 are below, at and above the size of a tier,
and 2 lets the loop draw a record and then find that nothing but zero is left.

*EcsScope.*  Two records suffice for one that is answered and one that is not
but still matters.  Widths 3 and 2 leave prefixes shorter, equal and longer than
the source prefix, 0 (opt-out) included.  The country changes at the last bit,
the worst case for a prefix.

*Supervisor.*  The program's own service list.  Two signals nest one handler
into another.

*AdminTxn.*  Two connections are the fewest that get between each other's
statements; a third adds no new pair.  Two rows make a delete of several, and
the third key is one that an insert generates.  Two values make an update that
changes the row and one that does not.  `MaxAudit` 2 lets a request begin after
two audit rows, so a second round of requests meets a trail.

*RecordsTxn.*  Two records are a last record and one that is not, or two in one
rrset; two names, one of them the apex, let a record move and an SOA exist; two
views separate the CNAME records.  Two connections meet at every pair of
statements, and the operator is a third writer, who retypes to A, CNAME and SOA.

*Connection.*  What is left over from a request shows in the next one, what is
left on the wire in the one after: three messages.  The messages are one for
each combination of method, login, path, query and outcome that the handlers
treat differently, with each kind of body: counted, absent, refused and left on
the wire, with a GET, a HEAD and a POST (`MCMessages`).
`MaxMessages` also ends a client that keeps sending: `DatabaseReleased` is about
clients that stop at some point, closing or not; one that sends a request before
every idle timeout keeps its database connection for as long as it likes.

*Paging.*  Three ids and limits of one and two make full, short, last and empty
pages.  Two changes are one before and one after a statement of the read.  The
requests (`MCAsked`) hold every operator, ties, unknown fields, malformed values
and one-element lists; two texts are equal under the collation.

The theorems of section 4 hold for every value of these constants (any number of
monitored ids, connections and rows), and
`MaxSignals`, `Window` and the widths with them.

### Deadlock

`Lookup` always has a step (statuses change).  `Monitor` really stops when the
manager has ended and all threads with it, and `Supervisor` when the process has
exited or its handler is stuck; `EcsScope` may have no client that gets an
answer, and `AdminTxn` takes up no request after `MaxAudit`; `Connection` stops
when the connection is closed.  Their configurations say `CHECK_DEADLOCK FALSE`.
`Paging` and `RecordsTxn` always have a step.

### Fairness

*Monitor.*  Weak fairness of each check thread and of the manager: CPython
schedules every thread that can run, and `Check.execute` must return within its
timeout (`monitor/check/base.py`).  Strong fairness of `Poll`: a database asked
over and over is reachable sometimes.  Results, crashes and shutdown are not
fair.  The liveness properties state the rest as premises: from some time on the
same check, always the same result.

*Supervisor.*  Weak fairness of the main thread, of its handlers and of each
service thread.  `accept()` of a pending connection returns at once, so it is
fair when TLS is off.  With TLS it carries out the handshake and waits for the
client without a timeout, so nothing is assumed then.

*Connection.*  Weak fairness of the handler: its thread runs, and every wait for
the client ends by the idle timeout (`request.py:62`, the socket's timeout).
The client and the database owe nothing.

## 4. What is proved

All proofs are for every value of the constants that the module's ASSUME admits.

*MonitorProofs.* `OneActiveThread` alone is not inductive: it depends on what
`toStop` and `toStart` mean between the steps of a reconciliation. `Reconciling`
says so: a thread in `toStop` is the one `_threads` holds for its id, an id in
`toStart` has none or one about to be stopped, every other id is already as
wanted, and a thread being joined has been signalled if it lives. `Counted` ties
the counters to `hist`. `IInv` is these with `TypeOK` and `Reconciled`. From it
follow `TypeCorrect`, `OneActive`, `ReconcileReaches`, `ReconcilingKept` and
`CountersTrue` (proved only: `OneActiveThread`, `Reconciled` and `Debounced` are
what a run shows of them), and the action properties `DebounceHolds` and `ManagerKeepsStatus`.

*LookupProofs.*  `Seen` (a record's present status was seen), `ReadsTrue` (what
was read is a status the record had) and `Chosen` (the candidates are the tier
of such a status) strengthen `TypeOK`.  Then each step maps to a step of
`LookupSpec` or a stutter (`PromiseKept`); the witness for the status of the
abstract answer comes from `Chosen`.  `FallbackJustified` follows as well; it is
a consequence of the promise, so no run checks it again.
`Drawing` says that what was drawn has weight and is no more than was wanted, so
the loop ends with an answer `WeightedAnswers` allows (`EndsWithOutcome`,
`Answered`).  A non-empty finite set of records has one of highest weight
(`GreatestExists`, from the well-foundedness of the strict subset order), so
every usable policy answers (`PolicyAnswers`, `AlwaysAnswers`).  `StickyRemap`
counts the records ranked above another before and after one goes away, which
gives `RemapIsMinimal`.  For the walk over the weights, `TicketCount` and
`TicketsGrow` do without induction over the records what a sum would need:
taking a record out takes its tickets away.  So a record fits the draws from the
weight before it to its own cumulative weight, those intervals are disjoint, and
each has the length of the record's weight (`WalkIntervals`).  `WalkProportional`
follows, and `DrawsAreWalks`, which says that `Draw` and `DrawEqual` stand for
what the loop does.

*EcsScopeProofs.*  Masking twice is masking by the shorter prefix (`MaskTwice`),
so two clients that agree on the scope look the same to the server as far as the
rules and the policy can tell (`SameInScope`); the invariant says that each
cached entry was made for some client (`ScopeIsSound`).

*SupervisorProofs.*  `ServersOK` relates the states of a server's thread to
`published` and `isShut`, `StoppedOK` says what has been achieved when the k-th
service is stopped, `ExitOK` that before the stop no dead thread was asked to
end and that the decision rests on the flag or an orphan.  `NoneLeftServing` and
`ExitCode` follow; `TypeCorrect` includes that the Event's lock is always held by
`wait()` or by a handler still on the stack.

*AdminTxnProofs.*  `TrailTells` speaks of what is committed, so it depends on
what a transaction is about to commit.  `DoneOK` says that: one audit row for
each row written, with the state written, later than every audit row of that
row in the trail; an audit row without a write is for a row that is `Gone`,
deleted for good because its key is not generated again.  `ToAuditOK` and
`WrittenOK` are the same earlier in the transaction, `TxnOK` ties writes to row
locks, so that no two transactions have written the same row, and `KeysOK` keeps
generated keys apart from existing ones.  The steps of a session are seen by the
others only through `Bystanders`, which is why one lemma (`OthersStep`) serves
all of them.  `TrailTold`, `RestFree` and `TypeCorrect` follow, with and without
snapshot isolation.  `AuditIsExact` assumes snapshot isolation and is false
without it (section 5).  It needs `ExactOK`: what a request read is the committed
state of the row unless another commit has made the row `newer` since
(`ReadOK`), so a row that may be written was read as it is (`OwnOK`), and what is
audited has been written, with the state read before (`AuditedOK`).  A commit of
another connection keeps this: the rows it publishes are under its locks, and
become `newer` for everybody else (`Publishes`, `OthersExact`).

`RequestsAudited` is the refinement, for snapshot isolation as well.  `ExactOK`
says what is audited; `SingleOK` adds that a transaction that has written values
has written one row, so its commit is one insert or update.
`CommitRows` says what a commit does to rows and trail, `PromiseCommit` that this
is an insert, an update or a delete of `AuditedTable` (`UnusedCommit`: only an
insert takes a key), `PromiseGap` that every other step stutters or loses keys.

*RecordsProofs.*  The committed rows say nothing about what a running
transaction is going to commit.  `Good(d, n, pin)` says what is right at one name
of some rows `d`, and `IInv` asks it of the committed rows *and* of the rows as
each transaction sees them, with the rrset a save has just made excused
(`Pinned`) until its record is there.  That several transactions stay right at
once rests on `Owns`: what one of them wrote is under its locks, so at a name it
has locked nobody else changes anything (`LockedSame`), and at any other name it
sees the committed rows (`UnlockedSame`).  `Bystander` draws the conclusion for
every step of another session.  What the statements and triggers do to rows that
are right are lemmas without time (`UpsertGood`, `WrittenGood`, `DeletedGood`,
`RenamedGood`).  `CnameAlone` holds unconditionally.  `EveryRrsetUsed` assumes
snapshot isolation, because without it a save can miss its record and keep the
rrset it made (section 5).  `NoSecondAnswer` assumes that no rrset is retyped to
CNAME by hand, because `rrset_guard` does not count records for that.

`OnlyRetypingBreaks` does without that assumption and says that it is the only
one needed: `OneAnswerKept`, for operators who may retype to anything.  It
follows from the refinement below, since the committed rows change as in
`RecordsSpec` only: for each of its steps a lemma without time says that an
rrset with single answers keeps them (`WrittenSingle`, `SavedSingle`,
`DeletedSingle`), and `RenamedSingle` that an UPDATE of an rrset that does not
has made it a CNAME.

`RequestsActWhole` is the refinement of `RecordsSpec`.  Its invariant `ActsInv`
says, for each request and each place between its statements, that what it has
written so far is what the statements do to the rows that are committed *now*:
`UpsertOf` after the first statement, `SaveOf` and `DeleteOf` after the last.
So the commit is the abstract step.  Another session or the operator may have
changed rows since the statements ran; that this makes no difference is shown
operator by operator: rows aside from the name a statement works at are neither
read nor written by it.  A save whose record was deleted under it is stuck:
snapshot isolation refuses its write, and it can only fail.  `CnameRefused`
shows for every state of the tables what the run `records_cname` shows for one:
the trigger refuses the upsert of any CNAME rrset that exists.

*ConnectionProofs.*  `RunsOwn` and `OneReplyEach` need to know which message each
attribute of the handler is of: `Serving` (the request being handled is the last
one read and not yet answered), `Ours` (body, query and user are that request's,
or none) and `Past` (what has run was for requests read).  `InStep` says where
the wire is: `AtLine`, after a message comes the next head, or the body of that
message if it is one that leaves it.  It follows from `Chained`, that the wire
holds heads and bodies in the order they were sent.  What is read in place of a
request line ends the connection (`ReadsStray`), so it happens once, and only in
that state, `Stray`, is the request being handled not the last one read but the
one before.
`RunsOwnOnly`, `StaysInSync`, `RepliesOnce` and `TypeCorrect` follow, for any
messages, with bodies of any kind, any users and number of requests.

*PagingProofs.*  The theorems hold for any parser that satisfies
`ParserAssumption`, any records, clauses, sorts and page sizes, any collation
and any LIKE.  `IInv` follows a read from statement to statement: what the page
statement found has the fields of the shape that was read and was selected
(`Found`), and the total is known to be one of a moment as soon as no COUNT will
follow.  `TypeCorrect`, `TotalIsOfAMoment` and `StatusIsAsSearched` follow, the
last because the joined row takes over the status it was selected by
(`JoinedIs`).  `ShapesAgree` compares two reads: a page that refers to local
fields only selects and orders the rows as the full join does (`LocalRows`), so
an order of the one, each row widened, is an order of the other, and cutting it
gives the same page (`WidenedOrder`); `ReadStill` carries that over the COUNT and
the join, which finds all the rows (`JoinedStill`).  `PagesFollow` relates the
requests of a whole listing.  With recid among the sort fields the order is
strict (`StrictOrder`), the position of a row is the number of rows before it
(`Position`), so there is one order (`OneOrder`), though each statement may choose
its own.  `Scrolling` says that the ids shown so far are consecutive rows of that
order and that the next page begins where they end; `Extended` adds a page to
them, be it full, short or empty.

### Only model-checked

Liveness under fairness (`EventuallyDown`, `EventuallyUp`, `EventuallyForgotten`,
`ShutdownCompletes`, `DeathStops`, `SignalStopsUnlessStuck`, `DatabaseReleased`),
which is out of the provers' reach.  `Understood`, which is about what the
recursive parser computes: the theorems about `Paging` assume of the parser only
`ParserAssumption`, which TLC evaluates for the instance.  And the violations.

## 5. Where the code and its documentation differ

1. `Event.set()` in the signal handler (`system/service.py:52`) can wait for the
   lock its own thread holds in `Event.wait()`; the process then hangs until
   systemd kills it (`supervisor_signal`).
2. `HTTPServerManager.shutdown(timeout)` waits for the accept loop without that
   timeout (`supervisor_timeout`).
3. Scope 0 for one family while the other family's answers vary
   (`ecs_zero_scope`): sticky-hash with prefix 0.
4. `Records.save` of a CNAME rrset that exists is refused
   (`records_cname`): MySQL fires the BEFORE INSERT trigger of an upsert also
   when the row exists, and `rrsets_before_insert` passes no id, so `rrset_guard`
   counts the rrset itself among the "other rrsets at this name"
   (`scheme.sql:119`).  A CNAME can get neither a record in a second view
   (`src/database/README.md:177`) nor a change through the admin interface.

Also seen, and not runs:

- The body of a GET or HEAD, and of a POST without Content-Length, is left on the
  wire: `_read_body` counts by that header alone (`request.py:84-91`) and
  `do_GET` and `do_HEAD` do not call it.  "Draining the body keeps the keep-alive
  connection in sync" (`request.py:147`) is true of the other bodies.  After one
  of these the next request line is read out of the body, a request in order may
  be answered with 400 or 501, and the connection ends.  The test of a POST
  without Content-Length has no body in it ("absent Content-Length is treated as
  an empty body", `src/tests/integration/test_admin.py:765`).  `InSync` and
  `OneReplyEach` state what holds, with `LeavesBody` for these requests; without
  it TLC finds both violated in the run `connection`.
- An operator's `UPDATE rrsets` to CNAME of an rrset with two records of one view
  is accepted: `rrset_guard` counts records for an SOA only (`scheme.sql:129-131`).
  `src/database/README.md:177` says "a CNAME rrset allows one record per view",
  and of the rules in triggers that they bind manual SQL too, so that "the
  database can never reach a state the DNS read path is not prepared for"
  (`src/database/README.md:202`).  `OneAnswerKept` states what holds; with
  `OneAnswer` as an invariant of the run `records` TLC finds the UPDATE.
- The catch-all tier can be answered although at no moment all specific records
  were down (`powerdns.py:66-67`): the statuses are read one by one.
- With `SnapshotIsolation = FALSE` (MySQL 8, MariaDB before 11.6) `ActsAudited`
  (with `AuditExact`) and `ActsWhole` (with `NoOrphans`) fail: a row that another
  administrator deletes between the read and the DELETE is audited twice ("the
  deleted set is exactly the audited set", `w2ui.py:64`), and a save whose record another administrator has deleted
  meanwhile commits an rrset without a record.
- A key posted both as a value and as a group (`a=1&a[b]=2`) raises a TypeError
  out of `parse_query`, so the request gets a 500, where `_parse_query` says a
  parse error yields an empty query.  A list directly inside a list stays a dict
  in `_normalize`.
- `shutdown(0)` does not wait, where its docstring says it waits indefinitely
  (`monitor/thread.py:39`, `server/http/server.py:82`); the manager uses it to
  signal without waiting (`monitor/monitor.py:136`), and the supervisor passes a
  timeout of its own (`system/service.py:95`).
- `StatusRegistry.retain` can report other ids than it drops (only a log line
  depends on it); `MonitorManager.shutdown` signals a snapshot of `_threads`, so
  threads that a reconciliation starts meanwhile are not signalled; they are
  daemon threads and end with the process.

## 6. Not modelled, and the plan

In this order:

1. Composition: `Lookup` over the registry that `Monitor` writes, in place of
   `Flip`.
2. The `types` and `users` tables in `AdminTxn`, whose key is posted and whose
   password an update may leave out.

Not planned: sockets, processes and parsers of the checks, the text of queries,
JSON shaping, static files, configuration, password hashing, the browser code,
packaging.  They keep no shared state, or none that changes after startup.
