# reee-evolution in TLA+

`reee-evolution` filters e-mail for the Evolution mail client. Evolution pipes a
message into `reee eval <group> [<rule>]`; `reee` sends it over a socket to the
daemon `reeed`, which runs JavaScript rules over the message, records the
evaluation in SQLite and answers with the rule that matched. This directory
holds TLA+ modules for the parts of the program with behaviour of their own,
configurations that check them with TLC, and proofs checked with TLAPS.

Paths below are relative to the repository's root (`src/` in `PROJECT.json`).

## The system

| Component | State | Operations | Talks to |
|---|---|---|---|
| Eval command (`daemon/daemon.go`: `handleEval`, `prepareMsg`) | one goroutine per connection, with its request, evaluation record and deferred error; `Daemon.lock` | read input, look up, prepare, evaluate, record, reply | cache and store under `Daemon.lock`, rules, protocol |
| Messages and tags (`daemon/message.go`) | `Message` objects shared by handlers; tags under `Message.lock`; `TagChange` lists per rule | `SetTag`, `DeleteTag`, `toStoreID` | rules call them, the store reads the change lists |
| Store (`cmd/reeed/store/sqlite3_store.go`) | tables `message`, `tag`, `group_eval`, `rule_eval` | `GetMetadata`, `PutMessage`, `RecordEval`, `Close` | called by handlers |
| Cache (`cmd/reeed/cache/cache.go`) | LRU list, its size in bytes | `Get`, `Put`, eviction by count, size and age | called under `Daemon.lock` |
| Rules (`cmd/reeed/rule/*.go`) | one JavaScript runtime per script, groups of rules | load, `Eval`, JS views of a message | called by handlers; call back into tags and logs |
| Life of the daemon (`cmd/reeed/main.go`, `Serve`, `Stop`, `handle`) | listener, `numConns`, signal context, `fatalErr`, store, socket file | start-up, accept loop with backoff, shutdown with a deadline | spawns handlers |
| Protocol (`protocol/*.go`) | none | `WriteCommand`, `ReadCommand`, `WriteLog`, `WriteSuccess`, `WriteError`, `ReadResult` | both programs |
| Logs to the client (`daemon/context.go`) | buffered writer, sticky error | `Print` | writes log lines before the result on the same connection |
| Client (`cmd/reee/*.go`) | input buffered whole | `eval`, `list` | protocol |
| Sampling (`percent.UnmarshalText`, `prepareMsg`) | percentage, random source | parse, compare a draw with a threshold | decides `is_sampled` |

What is hard about it:

- *Races for a message.* The cache is looked into under a read lock, the text is
  parsed without one, and then everything is looked at again under the write
  lock. The cache key is the MD5 sum of the text, the key in the store is the
  `Message-ID`: several texts may share a row.
- *Two copies of the tags.* Rules change tags in the shared object; the
  database learns of it after the last rule, without any lock over both.
- *Failure between statements.* `RecordEval` writes several rows; each may fail,
  and the daemon may die between two (a panic in any handler ends the process).
- *Shutdown.* `main`, `Serve` and the handlers share a counter, a listener and a
  signal context without a lock.
- *One connection for logs and result*, in both directions through bounded
  buffers and without timeouts, and told apart by line: a logged message with a
  newline in it may pass for a result.
- *Scripts that call back.* Rules are registered while scripts run, candidate by
  candidate, by calls that may throw half-way and be caught, and the hook stays
  when the daemon is serving.
- *Eviction.* A message leaves the cache by count, size or age, and what rules
  left on it must come back with it. The size is kept by unsigned subtraction.
- *Hand-written parsing* of the command line and of a percentage.

What makes each correct is stated as the properties below. `PROJECT.json` lists
every hazard with its line and the properties that cover it.

## Modules

| Module | Models | State and actions |
|---|---|---|
| `EvalDaemon` | eval command, messages, store | one step per critical section or SQL statement; see below |
| `EvalService` | abstract: what the eval command promises | decisions, a journal of evaluations, answers |
| `EvalRefinement` | composes the two | the refinement mapping |
| `TagCoherence` | `EvalDaemon` with a history variable | which messages' tags may differ between memory and store |
| `Lifecycle` | `runDaemon`, `Serve`, `Stop`, `handle`'s end, socket file | main, Serve and handler goroutines, signals, another daemon |
| `Session` | client and handler on one connection | two bounded sockets, the buffered writer, logs and result |
| `RuleLoad` | `loadRuleGroups`, `Load`, `addRules`, `ToMap` | files, the call in progress, groups, what is served |
| `MessageCache` | `Cache`, its policy and the list under it | entries in order of use with size and age, the accounted size |
| `ObjectCache` | abstract: a cache as `EvalDaemon` has it | key to object; a put drops any set of entries |
| `MessageView` | the getters of a message | a function from property to header |
| `RuleHost` | composes `RuleLoad`, `MessageCache`, `MessageView` and either store | requests one after the other, rules that read, tag and call `addRules` |
| `CommandCodec` | `WriteCommand`, `ReadCommand`, `handle`'s dispatch | functions on token sequences |
| `SampleRate` | `percent.UnmarshalText`, the sampling threshold | functions on texts and numbers |
| `EvalDaemon_proofs` | theorems about `EvalDaemon` and `EvalRefinement` | |
| `RuleHost_proofs` | theorems about `RuleLoad` and `RuleHost` | |
| `Parsing_proofs` | theorems about `CommandCodec` and `SampleRate` | |
| `Lifecycle_proofs`, `MessageCache_proofs`, `Session_proofs`, `TagCoherence_proofs` | theorems about the module of the same name | |
| `NaturalLemmas` | lemmas about natural numbers for `Lifecycle_proofs`, `MessageCache_proofs`, `Parsing_proofs` | |
| `MC*` | small instances | constants and symmetry; `MCParsing` has both parsers |

A definition headed "Slip:" is a plausible mistake in the definition after it.
It is not part of any specification: put in place of the correct definition, it
must make a property fail, which shows that the property watches that code.

### EvalDaemon

A handler goes through the stages of `pc`:

| `pc` | Code | Actions |
|---|---|---|
| `idle` | `handle` reads the command | `Receive` |
| `input` | arguments and input of `handleEval` | `ReadInput` |
| `lookup` | `getCachedMsg`, MIME parsing | `Lookup` |
| `prepare` | `prepareMsg` up to its second look into the cache | `Prepare` |
| `meta` | `GetMetadata` | `GetMetadata`, `GetMetadataMisses`, `PrepareFails` |
| `put` | sampling decision, `PutMessage`, `Cache.Put` | `PutMessage`, `PrepareFails` |
| `eval` | a rule is running | `SetTag`, `DeleteTag`, `RuleMatches`, `RuleDeclines`, `RuleThrows` |
| `begin`, `group`, `rows` | `RecordEval` | `Begin`, `InsertGroupEval`, `InsertRuleEval`, `PutTagChange`, `Commit`, `RecordFails` |
| `done`, `dead` | answered; lost in a crash | |

`object[c]` is the `Message` that the handler `c` allocated: `msg` and `cache`
refer to it, so two handlers share tags exactly when they share a pointer in the
code. `Cache.Put` may evict any set of entries, the new one too, which covers
every policy the cache may have. `Yielded` covers a query whose rows end early
because a step failed. `PutMessage` fails on a conflict with the primary key.
`Crash` loses memory and handlers and keeps the tables.

### Lifecycle

`main` and `serve` are the program counters of the two goroutines, `conn[c]` how
far a connection is (`queued` in the listener, `accepted`, `counted`, `running`,
`closed`, `done`). A signal ends the signal context, and so does Serve's end.
`socket` says whose file is at the address. A panic of `main` runs its deferred
calls and exits. Closing the listener removes its socket file, as Go does.

### RuleLoad, MessageCache, MessageView, RuleHost

`RuleLoad` takes the argument of a call of `addRules` piece by piece, as the code
comes to it: `AddRules` begins a call, `NextGroup` goes on to a later group in
sorted order, `Register` and `Refuse` are the two ways of a candidate, and the
call ends with `Return` or `Throw`. Every rule remembers its script and its call.
`ToMap` copies the groups into `served`, which is all that requests see, so that
a rule registered by a rule is never served.

`MessageCache` keeps the list in the order of use. The library is modelled from
what the code asks of it: `Get` brings an entry to the front, whatever its age;
`Add` puts one in front, reports the old value it replaces (of size 0 if there
is none), and then removes entries from the end while `Evict` says so,
reporting each. Sizes are integers modulo `Wrap` (2^64 in the code). An entry's age counts ticks
of a clock, up to the first one beyond the limit.

`ObjectCache` is the cache `EvalDaemon` assumes: a `Put` may drop any set of
entries, the new one too. `MessageCache` is shown to implement it, so what holds
of `EvalDaemon` holds with this policy.

In `RuleHost` one request for a whole group follows the other. `Hit` and
`Prepare` are the two ways to a message, the rule at `eval.at` reads properties
(`ReadProp`), changes tags (`ChangeTag`), calls `addRules` (`AddRulesLate`) and
returns (`RuleReturns`); `RecordEval` writes the tag changes. `noDB` chooses the
NullStore. A value that a rule reads is named by text and header. The cache's
key is the text, the store's the store ID (`storeID`, which is the Message-ID or
else the text itself): two texts with one Message-ID have two entries and one
row, and which tags a rule finds on them depends on the cache, so `TagsSurvive`
leaves them out (`Unshared`). `tags` is a history variable: what rules have left on a text. A message
that cannot be prepared, as when its date cannot be parsed, is a request that
does not come about. Concurrency and failing statements are `EvalDaemon`'s
subject and left out here.

### Session, CommandCodec, SampleRate

`Session` sends units: the command, units of input, log lines, result lines and
units of data. The handler's `bufio.Writer` is emptied item by item when it is
full and at the end; once a write has failed it stays failed. Rules log while
`handler = "eval"`. A logged message is a line and, if there is a newline in it,
any lines after it (`Rests`): the client reads those like all others, so they may
be log lines of no message or results. `broken` remembers the first such message.

`CommandCodec` compares what is sent with what is read, over all lines of up to
`MaxLength` tokens. `Send` sends what `reee` does: an eval command has a size and
a group (`EvalArgs`), a list command no arguments. `SampleRate` does the same for
texts and percentages, with integers of `Width` bits and floats below `TooLarge`.

## Runs

| Run | Shows |
|---|---|
| `eval` | `AnswerIsFirstMatch`, `ImplementsService`, and `Answered` under fairness: two requests, for a whole group, for one rule or for one the group does not have, a group of two rules and one that is not configured, a malformed text, a crash |
| `prepare` | `SampledAgrees`, `NoDuplicateLoad`, `SuccessIsRecorded`, `TypeOK`: two handlers, three texts (two with one `Message-ID`, one malformed), a group with a rule that changes a tag and one without rules, evictions, failing reads and statements, a crash |
| `coherent` | `TagsCoherent`, `InsertIsFresh`: two handlers, two texts of one message, a rule with up to two tag changes, any statement failing |
| `life` | `OneStragglerAtMost`, `FatalErrReturned`, `ReleasedOnExit`, `BackoffDelay`, `TypeOK`, and `AlwaysEnds` under fairness: three connections, three accept errors in a row |
| `told` | `ReportsVerdict`, `LogsInOrder`, `RulesSeeAllInput`, `TypeOK`, and `BothEnd` under fairness: sockets of a single unit, messages with any two lines after a newline, either end may die at any step |
| `parse` | `EvalArrives`, `NoOtherLine`: every command `reee` can send, and any line of up to seven tokens; `WholePercents`: all texts of up to four characters, integers of eight bits |
| `host` | `NamesUnique`, `WholeUnlessCaught`: two scripts, two calls of `addRules`, caught and uncaught exceptions, calls from rules; `SizeIsSum`, `LimitsHold`, `ImplementsObjectCache`: four texts of sizes 1, 1, 2 and 5 in a cache for two messages or four units, two of one `Message-ID`; `ReadsOwnMessage`, `TagsSurvive`: rules that read and tag, with SQLite or the NullStore |

The remaining runs each check one statement that a comment, a message or a help
text of the repository makes and the code does not keep; TLC's counterexample is
the finding.

| Run | Finding |
|---|---|
| `torn_record` | `RecordEval`'s inserts are not in its transaction (`sqlite3_store.go:235`) |
| `early_signal` | a signal before `init` makes `Stop` panic (`daemon.go:89`) |
| `newline` | a rule matches, and the client reports that none did, because a logged line passes for the result (`context.go:75`) |
| `hundred` | at 100 % the threshold overflows, and nothing is sampled (`daemon.go:379`) |
| `header_id` | the property `id` of a message is its subject (`message.go:70`) |

Other disagreements are in the models, as the code has them, without a run:

- A request for a rule the group does not have runs the whole group
  (`daemon.go:233` tests `r == ""` where `r` is not empty): `rules`.
- Every `list` command panics in `ReadCommand` (`command.go:126`), although
  `handleList` (`daemon.go:175`) waits for one: `ReadLevel`.
- Percentages above 100 are accepted (`main.go:270` has && for ||), although the
  error text says `[0..100]` (`main.go:237`): `Convert`.
- A failed read of `message` passes for a missing row (`sqlite3_store.go:105`):
  `GetMetadataMisses` with `ReadsMayFail`. `InsertIsFresh` needs it to be false.
- A rule's error is never stored in its row (`sqlite3_store.go:250`): `ruleRow`.
- Two goroutines may be in one JavaScript runtime (`load.go:185`): nothing in
  `EvalDaemon` keeps two handlers from being in `eval`.
- "stopped." may be logged with one connection still to be served
  (`daemon.go:94`): `OneStragglerAtMost` is the strongest that holds.
- The clean-up of the socket file may remove a successor's (`main_linux.go:18`):
  `CleanupSocket` after `AnotherBinds`.
- An unknown command type is not refused, and `handle` panics
  (`command.go:101`): `ReadCommand` yields type -1, `Dispatch` a panic.
- A result that could not be written is logged as written (`result.go:58`):
  `Finish` does not look at `writeErr`.
- A decimal percentage with a sign is read as 0 (`main.go:259`: `dot` is never
  set): `UnmarshalText`. `WholePercents` is stated of whole ones.
- A rule may be registered without a function, and its first call panics
  (`rule.go:77`, `rule.go:44`): `NoFunction`.
- Without the rules directory the daemon panics (`main.go:216`), where a comment
  announces an error (`main.go:207`): `MissingPath`.
- A script that cannot be read is skipped (`load.go:27`): `NextFile`.
- What a rule registers while the daemon serves is accepted and never served
  (`load.go:160`): `AddRulesLate`, and `ToMap` before it.

### Bounds

- *Handlers, texts, rules.* The races for a message are between a handler that
  loads it and one that looks for it or has it: two. What `prepare`
  checks is proved for any number, see below. Two texts with one
  `Message-ID` are needed for the two-objects-one-row case, a third without one
  for the other branch of `toStoreID`. Two rules tell "first match" from "last
  rule"; a third adds no branch.
- `MaxTagOps` (tag changes of one run of a rule): two, so that a change can be
  undone by the next, and a failure can fall between two; one in `prepare`.
- `MaxCrashes`: one. A crash leaves only the tables, each of which a second
  crash meets in a state the first could have met it in. The proofs hold for
  every number.
- `MaxAcceptErrors`: enough to pass the cap of the delay.
- `MaxInput`, `MaxLogs`, `SocketSize`, `BufferSize`: small against each other, so
  that the sockets fill in both directions and the buffer overflows while rules
  log. `MaxRest` of two lines after a newline: a success and its data, or a log
  line and a result.
- `MaxLength`: a type, an identifier, a level and what follows, with the spaces
  between them; the commands `reee` sends are not bounded by it. Four characters
  hold a digit, a dot, a digit and a sign, and reach `100%`. `TooLarge` is 500,
  above 100 and within reach of four characters; near 2^1024 in the code.
  `Width` of eight bits keeps all draws enumerable.
- `host`: `MaxCalls` of two, so that one call may follow, or fail after, another
  one of the same or the other script, or come from a rule; `MaxRules` of two
  rules of one group, so that a name can be taken. `Objects` are one more than
  the cache can hold. Two texts fill the count with half the size, a third text
  is too large beside another, the fourth is too large alone: each limit
  decides somewhere. Sizes wrap around at a `Wrap` of 16, which the
  accounting never comes near. `Workloads` names the registered rules with
  which requests are sent, and for which texts: one rule that may call
  `addRules` (one text), two rules of two scripts (all texts), a rule without a
  function (one text). Loading itself is not bounded by it.

Symmetry is declared over connections, and in `host` over the names of rules,
in runs without liveness properties.
A crash is left out of `coherent`, where it would triple the states: what a
crash leaves behind is the tables, from which a reload takes the tags.

`CHECK_DEADLOCK FALSE` stands where the modelled system ends: every connection
of `EvalDaemon` carries one command, `runDaemon` exits, a parse is over. In
`Session`, where a standstill would be the fault, deadlock is checked, and
`Over` is the end.

### Fairness

- `EvalDaemon`: `Lookup`, `Prepared`, `Recorded` are weakly fair for each
  connection: goroutines are scheduled, statements return, and a writer waiting
  for an `RWMutex` blocks new readers, so a free lock is obtained.
  There are finitely many requests and the lock's holder always has a step of
  its own, so the lock is in the end free for good, and weak fairness of taking
  it is enough. Nothing is assumed of clients and rules.
- `Lifecycle`: main runs (except while it loads rules, which run arbitrary
  scripts), Stop's timer fires, Serve's own steps and its backoff timer run.
  `Accept` need not return and handlers need not end.
- `Session`: client and handler run, rules included. `BothEnd` is about the
  protocol; that a rule may run for ever is the subject of `Answered`.

## Proofs

Every theorem holds for all values of the constants that satisfy the named
assumptions of its module.

| Module | Theorem | Statement |
|---|---|---|
| `EvalDaemon_proofs` | `TypeCorrect` | `Spec => []TypeOK` |
| | `SampledOnce` | `Spec => []SampledAgrees` |
| | `LoadedOnce` | `Spec => NoDuplicateLoad` |
| | `InsertsAreFresh` | `Spec => []InsertIsFresh`, assuming `~ ReadsMayFail` |
| | `SuccessRecorded` | `Spec => []SuccessIsRecorded` |
| | `FirstMatchAnswered` | `Spec => []AnswerIsFirstMatch` |
| | `Implementation` | `Spec => ImplementsService` |
| `TagCoherence_proofs` | `CachedTagsCoherent` | `TagSpec => []TagsCoherent`, assuming `~ ReadsMayFail` |
| `Lifecycle_proofs` | `LifeTypeCorrect`, `AtMostOneStraggler`, `ServeErrorReturned`, `AllReleased` | `Spec => []TypeOK`, `[]OneStragglerAtMost`, `[]FatalErrReturned`, `[]ReleasedOnExit` |
| | `DelaysDouble` | `Spec => []BackoffDelay` |
| `MessageCache_proofs` | `CacheImplemented` | `CacheSpec => ImplementsObjectCache` |
| | `CacheTyped` | `CacheSpec => []CacheTypeOK` |
| | `SizeAccounted` | `CacheSpec => []SizeIsSum`, assuming `NoWrap` and `MaxSize > 0` |
| | `LimitsKept` | `CacheSpec => []LimitsHold`, assuming `NoWrap` |
| `RuleHost_proofs` | `LoaderTypeCorrect`, `ServedNamesUnique`, `ServedWhole` | `LoadSpec => []LoadTypeOK`, `[]NamesUnique`, `[]WholeUnlessCaught` |
| | `HostServesLoaded`, `HostCacheImplemented` | the loader's and the cache's results, for `HostSpec` |
| | `ReadsOwn` | `HostSpec => []ReadsOwnMessage` |
| | `TagsFound` | `HostSpec => []TagsSurvive` |
| | `HostSizeAccounted` | `HostSpec => []SizeIsSum`, assuming `NoWrap` and `MaxSize > 0` |
| | `HostLimitsKept` | `HostSpec => []LimitsHold`, assuming `NoWrap` |
| `Session_proofs` | `SessionTyped` | `Spec => []TypeOK` |
| | `VerdictReported`, `LogsOrdered` | `Spec => []ReportsVerdict`, `[]LogsInOrder` |
| | `WholeInput` | `Spec => []RulesSeeAllInput` |
| `Parsing_proofs` | `SentArrives`, `OnlyWrittenLines` | `Spec => []EvalArrives`, `[]NoOtherLine` |
| | `PercentsRead` | `RateSpec => []WholePercents` |

Two hypotheses are not assumptions of a module. `~ ReadsMayFail`: with a failed
read that passes for the end of the rows, `InsertIsFresh` and `TagsCoherent`
are false. `NoWrap`: the size limit and the largest message together are below
`Wrap`. The daemon's limit is 25 MiB (`main.go:127`) and a size is that of a
message in memory, so their sum is far from 2^64. `MaxSize > 0`: at 0 there is
no limit of size (`cache.go:56`), and then nothing bounds the sum; the daemon
sets one.

**EvalDaemon.** The inductive invariant is
`IInv == TypeOK /\ Support /\ HoldsLock /\ SampledAgrees`.

- `Support` says, stage by stage, what a handler has by then: a handler past
  `idle` has a request, of a configured group past `input`; in `eval` there is
  still a rule to run (`RuleIsLeft`); a handler that has allocated no object is
  referred to by nobody (`Allocated`); and the rows written so far are no more
  than the records there are (`Written`). Without it the lookups of records and
  rules would be outside their domains and `TypeOK` would not be inductive.
- `HoldsLock` says that a handler in `meta` or `put` is the holder of
  `Daemon.lock`. It is what makes lookup and insert one critical section: while
  a handler is in `put`, nobody else inserts.
- `SampledAgrees` is inductive only with both: `CacheMessage` overwrites
  `object[c]`, which is safe because nobody referred to it before; and
  `PutMessage` writes a row, which is safe for all others because there was none.

`LoadedOnce` follows from the invariant step by step. `InsertsAreFresh` adds
that a handler enters `put` only when it found no row, and holds the lock from
then on. `SuccessRecorded` uses a second invariant, `RowsInv`: rows and records
of a connection change only in its own recording stages, so what was complete at
`Commit` stays complete. `FirstMatchAnswered` uses a third, `RulesInOrder`: the
records are those of the first rules of the request, and all but the last one
neither matched nor threw.

**The service.** `Implementation` maps what the rows show as a complete record
(`journaled`) to the journal of `EvalService`. The step that completes a record
is the abstract step `Journal`; it needs `Unwritten` (no row of a record is
there before its recording begins) so that a journal entry appears once, and
`RowsInv` so that it stays.

**Lifecycle.** `LifeInv == TypeOK /\ Order /\ Counting /\ OneStragglerAtMost`.
`Order` relates the places of the two goroutines to listener, store, socket and
errors. `Counting` says that `numConns` is the number of counted connections,
that an accepted one is waiting to be counted only while Serve is about to do
so, and that there is one such at most. This is why one straggler is the most
that Stop can miss.

The delay of the backoff is a power of two for any number of failures in a row.
The prover has no rule for `2^n`, so `Doubles` counts subsets: a set of `n + 1`
elements has twice as many as one of `n`, and `2^n` is the number of those
(`FS_SUBSET` of the library). `CappedDoubles` says that doubling and capping go
together whether or not the cap was reached before.

**TagCoherence.** Which copy is right at a step in the middle of an evaluation?
`TagInv` answers for each tag of a message that is not tainted:

- `Ahead`: for a handler that evaluates the message, the tag in its `Message` is
  the last change its rules have made and `RecordEval` has not stored, or the
  stored value if there is none (`After`, over the changes that are `Due`, in
  the order of rule and change). `PutTagChange` stores the first that is due;
  what is last is the same afterwards.
- `Remembered`: what taints a message now is in `tainted`, so outside it no two
  handlers evaluate at once and there is one object.
- `NoneLeft`: changes are those of a running rule. A handler that is done and
  whose record is complete has none that is due, which is how `Ahead` turns into
  `TagsCoherent` when it finishes.
- `Owned`, `NewUntagged`: cached objects belong to the row of their text, and a
  row that is not there has no tags, so that a new `Message` agrees with it.

This holds for every number of crashes, which the run `coherent` leaves out:
a crash empties the cache, and what is loaded later has the stored tags.

**RuleLoad.** `LoadInv == LoadTypeOK /\ Registered`. `Registered` says of the
groups under construction what the theorems say of the served ones, plus that
a rule's call has returned, was caught, or is the one in progress (`Settled`).

**MessageCache.** For `CacheImplemented`, `Entries`: the list holds entries, one
for each key. That what `Kept` chooses exists for every list is the well-founded
choice of the least number of entries to remove. The accounted size plays no part in this proof: an
eviction too many is still an eviction the abstract cache allows.

It is the subject of `CacheInv`: the accounted size is the total, which is
within the limit, and so is the count. `Sums` (the sums over the first `n`
entries) is a recursive function, and induction over its argument is done by
hand: were it wrong somewhere, it would be wrong at a least place
(`Least`, from the well-founded order of the naturals), and there the definition
says otherwise (`Everywhere`). `Recursive` shows in the same way that it has a value at all.
From `SumsInFront`, `SumsWithout` and `SumsSame` follows what a replacement
(the old size is subtracted once, the new one added once) and an eviction do to
the total. Before the first eviction of a `Put` the size is at most limit and
message together, which is where `NoWrap` is needed.

**RuleHost.** Every step is a step of the loader (or ends the daemon) and a step
of the cache, so their invariants carry over. `HostInv` adds: who has an object,
the cache or a request, has the text it was made for (`Objective`), and what a
view holds is what the getter makes of the request's text (`Viewed`). That a new object is no cached one (`FreshObject`) is what keeps
`Objective` when objects are used again.

`TagsFound` needs `TagInv`, about the texts whose row no other text shares: a
cached message has the tags in `tags`; one that a rule works on has them too;
and with a database, a message that is not being evaluated is stored with them,
while one that is will be when the changes made so far are stored in order
(`Coming`, over `TagsAfter`). This is what an eviction relies on. With the
NullStore the history forgets what a reload forgets, so there the theorem speaks
of a message only from one load to its eviction.

**Session.** `SessionInv` follows the answer from the rules to the client. What
the client can rely on are the messages up to the first line of one with a
newline in it (`Sure`), as long as it has not read that line (`Trusted`).
`Underway`: then the socket, the handler's buffer and the lines of the result it
has still to write are, one after the other (`Stream`), the sure messages not
printed yet, in order and without a gap (`Ahead`), and if no message has a
newline in it, what is left of the result and nothing else (`Ends`). `Placed`: a
handler that closes has sent all of it, and has no write error while the client
reads. `Announced`: what the daemon has received, what is in the socket and what
is not sent yet add up to the announced input, so the client cannot wait for an
answer to input it still holds. `Reported` is what the client did with it:
`ReportsVerdict` and `LogsInOrder`, which both say up to where they hold when a
message has a newline in it. `WholeInput` has an invariant of its own,
`InputInv`: a missing group and an early end of the input are remembered in
`failed` until the handler looks at it.

**The parsers.** Lines and texts of any length, any words. The assumptions only
tell characters apart: a word is neither a space nor a newline, a dot and a
percent sign are not digits, a digit is worth 0 to 9, and what is too large for
a float is above 100.

`Laid` describes place by place the line that `WriteCommand` writes:
`WriteIs` proves that it does, and `ReadIs` that a line of which `ReadCommand`
makes a command of known type is laid out like that or has one space too many
(`Spaced`). Two lines with one layout are equal (`LaidOnce`), from which
`OnlyWrittenLines` follows. `SentArrives` needs the converse, `RoundTrip`: each
cut of the parser falls on the space that `WriteCommand` put there, because no
name and no identifier is one, and a name is found at its own number only
(`NamesDiffer`). `CodecInv` says that what was read is read from the line sent.

`PercentsRead` compares a text with its first character that is no digit. A text
of digits is a number (`NumberIs`, from `DotIs` and `NaturalIs`; that digits
make a natural number, and a power of ten a positive one, is `DecimalIs`, with
`Recursive` and `Everywhere`), and one up to 100 is not too large for a float.

Only model-checked: the liveness properties `Answered`, `AlwaysEnds` and
`BothEnd`, because the prover handles neither fairness nor `ENABLED`. Every
other property that a passing run checks is a theorem. The five findings
are counterexamples, and stay with TLC.

## Not modelled

- The cache's list under two readers at once: `Cache.Get` runs under the read
  lock and moves an entry, in the library's code. `MessageCache` takes it for
  one step.
- Views that a script keeps, in a global, after its rule has returned.
- What the getters convert headers to (mailboxes, addresses, dates, attachments,
  calendar events): conversions of immutable values. The headers map and the reading half of the tag map keep no
  state that can be stale (`lazy_map.go:89` caches keys only of maps that cannot
  change).
- In `RuleHost`: requests for a single rule, failing statements, several
  handlers (`EvalDaemon` has them). In `Lifecycle`, loading is one step that succeeds, fails or never ends.
- Tags when several handlers evaluate one message at a time: `TagsCoherent`
  says nothing of messages for which the history variable recorded it. That is
  not a gap of the check but of the design; the three cases are named in
  `TagCoherence`.
- The data a socket loses when it is closed with unread input; in a percentage,
  texts with an exponent, `inf` or `nan`, and the rounding of floats.
- Panics of a handler other than by `Crash` (`EvalDaemon`), a malformed command
  (`CommandCodec`), a rule without a function (`RuleHost`) and `DaemonDies`
  (`Session`).
- Columns of the database that nothing reads back (addresses, subject, JSON
  headers), the schema's creation, time stamps.
- Windows, argument parsing by libraries, log texts, version and addresses.

## Plan

Done, in this order: `EvalDaemon`, its refinement of `EvalService`,
`TagCoherence`, `Lifecycle`, `CommandCodec`, `Session`, `SampleRate`,
`EvalDaemon_proofs`; then `RuleLoad`, `MessageCache` with `ObjectCache`,
`MessageView`, their composition `RuleHost`, and the remaining proof modules,
those of the parsers last.

What would come next:

1. Two handlers in `RuleHost`, for views that scripts keep and share.
2. The list of the cache under two readers at once.
