# prompt-protector in TLA+

TLA+ modules, TLC model checks and TLAPS proofs about `prompt-protector`, a
safety gateway that sits between users and language models. The gateway scans a
text with local detectors, redacts personal data, asks one or two judge models
whether the text breaks a rule, and passes or blocks it. It does so for
single texts, for streams, in a process of its own behind HTTP, and for
synchronous callers.

Source paths below are relative to `src/src/prompt_protector/` unless they start
with another directory (`tests/`, `docs/`, `examples/`, `README.md`).

Contents: [the system](#the-system) · [the plan](#the-plan) ·
[modules](#modules-and-how-they-correspond-to-the-code) ·
[runs](#runs) · [fairness](#fairness) · [proofs](#proofs) ·
[what is only model-checked](#what-is-only-model-checked) ·
[findings](#findings) · [what is not modelled](#what-is-not-modelled)

## The system

### Components

| component | source | state | operations |
|---|---|---|---|
| request pipeline | `protector.py:188-373` | none of its own between requests; while a request runs: its text, matches, redacted text, vault id, cache key | `sanitize_input`, `sanitize_output` |
| per-rule fan-out | `protector.py:450-524` | one task per rule, a semaphore, the completion queue, counters | `_judge_per_rule` |
| judge call policy | `protector.py:526-531`, `_retry.py` | attempt counter, timer | `_call_with_policy`, `retry_async` |
| audit dispatch | `protector.py:387-443` | none | `_run_auditor`: default, batched or per-rule call |
| result cache | `cache.py` | ordered table of (expiry, result), behind a lock; or Redis | `get`, `set`, `clear` |
| vault | `local/vault.py` | id → (expiry, placeholder mapping); or one encrypted file per id | `put`, `get`, `delete`, `_gc` |
| redaction | `redaction.py`, `local/presidio_backend.py`, `local/spacy_backend.py` | none | `redact`, `restore`, `_dedupe_overlapping` |
| heuristic detectors | `heuristics.py` | a list of detectors | `scan`: functions from a text to matches with a score |
| streaming audit | `streaming.py` | two rolling buffers, the audit in flight, a counter | `sanitize_stream` |
| sync runner | `protector.py:783-844` | one background loop and its thread, behind a lock | `submit`, `_ensure_loop` |
| configuration | `config.py` | none | `load_config_dict`, `_validate`, `build_protector` |
| HTTP server | `server.py` | the holder of the protector in use, the process's log level | the sanitize endpoints, `/v1/reload`, probes |
| dual-vote backend | `backends/composite.py` | none between calls; two calls in flight | `judge`: both auditors, then a policy |
| cloud and local backends | `backends/`, `local/` | client objects; executor threads, and a lock around the transformers pipeline | `judge`, `judge_batch` |
| JSON extraction | `_json.py` | none | `parse_json_object`, `_extract_balanced` |
| schema, prompts, rule packs, settings, CLI, tracing | `schema.py`, `prompts.py`, … | none | pure functions, data, I/O |

### How they interact

A request enters the pipeline, from a caller, the HTTP server, the stream
generator (once per window and once at the end) or the sync runner. Up to its
first await it runs alone: sampling, the size guard, the detectors, the
redactors (each of which may call `vault.put`). Then come at most three awaits,
between which other requests run: the cache's `get`, the auditor, the cache's
`set`. The auditor is a fan-out of one task per rule, each of which makes one
policy call, which makes up to `max_retries + 1` attempts on a backend; without
rules, or with `batch_rules`, one policy call stands for all of them. An attempt is
one call of a model, or the two that `DualVoteAuditor` starts together; a local
classifier's runs in a thread. What the
pipeline shares between requests is the cache, the vault, the auditor and
`on_event`. The server shares the holder between requests and reloads, and the
logging level between everything in the process.

### What is hard

* Interleaving: rule tasks with the loop that collects them and its `finally`;
  requests with each other over a cache; a background audit with the stream it
  audits; concurrent reloads; threads that all want the one background loop.
* Cancellation: every await is a point where a request may be cancelled, and
  Python's `finally` blocks await again while they clean up.
* Partial failure: some rules crash and others answer; the cache fails or hangs;
  a redactor raises when an earlier one has already stored its mapping; one judge
  of a dual vote raises while the other goes on; a model returns fewer verdicts
  than rules, or something that is hardly JSON; one detector's regex fails; a reload
  fails behind the line that changed the log level.
* Stale state: cached results built for another request; vault entries that have
  expired or were lost in a restart by the time a reply comes back; cache entries
  of another version of the program; a protector that was swapped.
* Boundaries: overlapping, touching and nested hits; chunks that cut a passage
  in two; a table at its limit; a window shorter than a chunk; braces inside strings.
* Time: timeouts against late answers, threads that no timeout stops, jittered backoff, wall-clock expiry.

`PROJECT.json` lists each of these at the line where it bites, with the
property that would show it going wrong.

### What makes each component correct

* Fan-out: never more than `max_concurrent_judges` calls; none left behind when
  the audit returns or is cancelled, and none started after it is decided; the
  outcome follows from the answers; it always ends.
* Audit dispatch: whichever way the rules are put to the judge, a pass rests on a
  passing judgement of every rule.
* Call policy: the whole call fits a budget; it ends even if the judge never
  answers.
* Backends: a reply is read as JSON's grammar reads it; a dual vote is the vote of
  the replies to one attempt; nothing goes on unwaited for but threads and the twin of
  a call that failed, and threads come to an end.
* Pipeline: nothing passes without a reason; failure results and shadow passes
  never enter the cache; a result refers to its own vault entry and text; every
  result is reported once; nothing but a cache that hangs holds a request up.
* Caches: in memory bounded, evicts the least recently used; in memory and in Redis
  never returns a value other than the one set last for the key.
* Detectors: what is handed on holds nothing that they know, wherever chunks cut it.
* Vault and redaction: no flagged text left in clear, the reply is restored
  exactly while the entry lives, in files across restarts too, never with someone
  else's text, and expired entries are swept from memory.
* Stream: passages the detectors know do not get through in full; one window
  audit at a time and none leaked; a stream that completes was audited whole.
* Sync runner: every caller is released; what it gave up is cancelled; one loop.
* Server and configuration: a verdict is warranted by the document in use when its
  request came in and by the rules the request sent, and a reload takes the file into
  use as it is. A failed one may leave its log level behind, and one that an edit
  overtook may put the older file back: see the disagreements below.

## The plan

Written in this order, the most important behaviour first:

1. `AuditVerdict`, `Fanout`: the audit of one request, and its proofs. *Done.*
2. `Retry`: the call that the fan-out's tasks make. *Done.*
3. `Gate`, `Pipeline`: the decision, over a shared cache and vault. *Done.*
4. `RollingBuffer`, `Stream`: the stream generator. *Done.*
5. `ForgetfulMap`, `LruCache`; `SyncRunner`. *Done, the safety of all three proved.*
6. `Redaction`, `RoundTrip`: redaction, vault, restoring. *Done, the safety proved.*
7. `Config`, `Server`: documents, reloads, verdicts. *Done, all of it proved.*
8. `SyncRunner`: also `asyncio.run` for callers outside of a loop, and the shutdown
   of the background loop at interpreter exit. *Done.*
9. `JudgeCall`, `Replies`: the calls behind one attempt (dual votes with retries,
   threads that outlive their timeouts) and how their replies are read. *Done, the
   safety and the refinement proved.*
10. `Dispatch`: the default, the batched and the per-rule audit. *Done, the refinement
    proved.*
11. `Heuristics`, `ChunkScan`: the detectors, over the window of a stream. *Done and
    proved.*
12. `RedisCache`: the JSON form of a result, and either cache as a `ForgetfulMap`.
    *Done, the refinement proved.*
13. `RoundTrip` with `EncryptedFileVault` and restarts. *Done.*
14. The proofs that needed an induction over texts, lists or replies (`RoundTrip`,
    `PassedIsClean`, `ReadAsMeant`), those of `SyncRunner`, of the bound and order
    of `LruCache` and of the verdicts of `Server`. *Done.*

What is left is liveness, which stays with TLC.

Composition: `Dispatch` extends `Fanout` (one of its three ways), `JudgeCall` extends
`Retry`, `ChunkScan` extends `RollingBuffer` and uses `Heuristics`, `RedisCache` extends
`LruCache`; in each case the proofs show that the larger module takes only steps of
the smaller one, so what was proved of that holds. An audit of `Pipeline`
(`AuditorAnswers` and `AuditorFails` are its outcomes) is one behaviour of
`Dispatch`, one `Answer` of `Fanout` is one of `JudgeCall`, a request of `Pipeline` is
one audit of `Stream`, the cache of `Pipeline` uses no more than `ForgetfulMap`
promises, which `RedisCache` implements, and `Server` serves what `Config` builds.
Across these seams each module uses the other one's abstraction; the state spaces
are not multiplied.

Abstract specifications: `AuditVerdict` (implemented by `Fanout` and `Dispatch`), `Gate`
(implemented by `Pipeline`), `ForgetfulMap` (implemented by `LruCache` and
`RedisCache`), `Retry` and `RollingBuffer` for the modules that extend them.

## Modules, and how they correspond to the code

Every state variable is named after the code's where there is one; the comment
beside it says what it stands for. An action is the code between two awaits (or
between two critical sections, for threads), with all of its effects.
`PROJECT.json` maps each definition to its lines.

### Fan-out: `Fanout`, `AuditVerdict`

`pc` is where `_judge_per_rule` is: `loop` at `await fut`, `cleanup` at
`await asyncio.gather(...)`. `task`, `permits`, `completed`, `succeeded` are the
tasks, the semaphore, the queue inside `as_completed` and the counter.

| action | code |
|---|---|
| `Dispatch` | the tasks are created (`protector.py:485`) |
| `Acquire` | a task gets past the semaphore |
| `Answer` | `judge_one` returns a verdict, or the exception it caught |
| `Unwind` | a cancelled task ends, from the semaphore or from the judge |
| `Consume` | one turn of the loop, the early return included |
| `CallerCancel` | the request is cancelled at either await |
| `Gathered` | the cleanup is over: return, raise, or re-raise the cancellation |

A task whose cancellation is pending may still answer: before Python 3.12
`asyncio.wait_for` hands over an answer that arrives together with the
cancellation. `AuditVerdict` promises only that the outcome follows from the
answers; `Fanout` implements it with the outcome hidden until it returns.

### Audit dispatch: `Dispatch`

`way` is the branch `_run_auditor` takes. A batched call returns what the shipped
backends make of the model's list, which may be of any length and hold entries
that are no objects (`JudgeBatch`: missing ones are refusals, an entry that is no
object raises); `Concluded` is the loop over `zip(rules, judgements)`. The per-rule way is
`Fanout`. A `BatchAuditor` of one's own that returns a short list is not modelled:
`zip` passes the rules it leaves out.

### Call policy: `Retry`

One state machine with discrete time. `Tick` never passes over a timer that is
due. `Jittered` gives the delays that `delay * (0.5 + random())` may take, up to
one and a half times `max_delay_s`: the cap is applied before the jitter
(`_retry.py:65`), which is why `WithinBudget` has the factor. Nothing is assumed
of the judge: it may never answer.

### What an attempt sets going: `JudgeCall`, `Replies`

`calls` has the call of every attempt to every judge of the `team`: `open` while the
attempt waits for it, `stray` when it goes on and nobody does, and how it ended:
`answered`, `failed` (it raised, or its reply could not be read), `cancelled`, or
`over` if it was a stray. `gather` raises with
the first exception and does not cancel the other call; a timeout or a
cancellation cancels both, which stops a network call and not a thread
(`asyncio.to_thread`). So a stray has a `failed` twin or is a thread
(`StraysHaveCause`). `holder` is the lock around the transformers pipeline.
`Replies` has the pure part: a reply is a sequence of tokens of which JSON's braces,
quotes, escapes and the value of `"pass"` are kept; `ExtractBalanced` has the loop of
`_extract_balanced` as a recursive function of the place it is at, one turn of which is
`Scan`, and `Judged` is what the four backends that ask a
generative model do. `Meant` says the same with a grammar of JSON and no scan. `Readings` is what
each backend may make of each of the `ReplyTexts`, beside what the reply means.

### Pipeline: `Pipeline`, `Gate`

A request goes through the `stage`s `new`, `lookup`, `judging`, `storing` and ends
`returned`, `raised` or `cancelled`. All that happens before the first await is
one step, in four alternatives by how it ends (`SampleOut`, `RejectOversize`,
`BlockHeuristic`, `PassLocalStages`), and a fifth in which a detector, a redactor
or the vault raises after any number of redactors (`LocalStageRaises`).
`LookupHit`/`LookupMiss`, `AuditorAnswers`/`AuditorFails` and `Store` are the
ends of the three awaits, each with the tail behind it: `_maybe_shadow`, `_emit`,
return. `Cancel` may strike at every await, and a store under way may still take
effect. `Forget` is the cache's own doing.

A text is a model value. What detectors and redactors make of it is given by
constants (`Flagged`, `Mask`, `Finds`, `Oversized`, `Cut`). A result keeps the
fields the properties tell apart; of its matches, the texts that they were found
in. `judged` records what the auditor has said, with the prior turns it was shown.

`Gate` is what an enforcing, fail-closed protector promises: a request passes
only on a verdict about its text, whoever asked for that verdict.

### Streams: `RollingBuffer`, `ChunkScan`, `Heuristics`, `Stream`

A chunk is the piece of the stream it came from, so that a buffer's view can be
compared with the true end of the stream. `RollingBuffer` keeps the character
counter beside the deque as the code does, and its `while` loop is a loop.
`Heuristics` has the registry's scan and one detector of each kind the module has, over
texts of tokens: a pattern with boundaries, separators and the Luhn check, an
alternation of phrases, a private key that reaches from its marker past the next
end marker, a pattern whose score does not block, and a density. `FindIter` searches a
text from the left as `finditer` does: `past` is where the search goes on after the
places before one. `ChunkScan` lets the buffer take a
chunk, scans what it shows, and hands on or blocks.
`Stream` has one `pc` value for each await and yield of the generator; the
caller (`ResumeChunk`, `ResumeViolation`, `Leave`, `Finalize`), the upstream
(`Chunk`, `Exhaust`, `UpstreamRaises`), the audits (`AuditEnds`, `Drained`,
`FinalEnds`) and a canceller (`Cancel`) take turns. `tasks` remembers every
window audit that was ever started, so that a leaked one can be seen.

### Caches: `LruCache`, `RedisCache`, `ForgetfulMap`

Each operation of the table in memory holds the lock and is one step. `order` and
`items` are the `OrderedDict`. `clock` is `time.time()`, which may be set back. `lastUse`
and `latest` are histories for the properties. `RedisCache` adds the other cache (`kind`
says which one the process has): `server` holds payloads, `SerializeResult` and
`DeserializeResult` are the code's conversions between a result and its JSON, with
categories as enumeration members on one side and their values on the other, and
the server drops entries or holds `Foreign` ones, with a category this version
of the program does not know. `ForgetfulMap` is what the pipeline relies on.

### Sync runner: `SyncRunner`

Callers inside running loops, each in its own thread, and callers outside of one
(`RunAlone`, which has no time limit). `Shutdown` is what `atexit` runs. `loops` lists every loop
ever created: one is `starting` from `Thread.start` until its thread has entered
`run_forever`. `submit` with `_ensure_loop` under its lock is `Submit`;
`Begin`, `Finish`, `TakeCancel` are the loop's side; `GetResult` and `TimeOut` are
the two ends of `future.result(timeout + 1.0)`.

### Redaction and vault: `Redaction`, `RoundTrip`

`Redaction` has the pure functions over texts that are sequences of tokens,
characters or placeholders: the ranking and overlap filter of `redact`, each loop a
recursive function of its turn and `list.sort` a `StableSort` by position; the other
filter and the numbering from the right of the reversible Presidio redactor,
spaCy's, and `restore`. `RoundTrip` drives them: `Sanitize` redacts and puts,
`Unredact` restores a reply (the redacted text, the text twice, its tokens
reversed), `Delete` deletes, `TimePasses`, and the program may `Restart`. `store` says
which vault it is: a put in memory first drops what is stale, and a restart
empties it; files stay, and nobody collects those that are never read again.

### Configuration and server: `Config`, `Server`

`Config` is `load_config_dict`, `_validate` and `build_protector` as functions
from documents (records of partial sections) to protectors, with the points where
they raise in their order, and the verdict such a protector gives: the size guard, the
built-in detectors and the custom regexes, then the auditors' votes on the rules
asked. Those are the document's for that kind of text, unless the request sends
`rules`, which replace them (`RulesFor`; an empty list asks the default rule).
`Server` adds the file, which the operator edits, the holder,
the process-wide log level, concurrent reloads in three steps, and a request that
keeps the protector it was handed; `request.doc` is the document in use when it came
in. What a request brings with it, text, kind, `sent` rules, failing auditors, is
chosen when it ends.

A reload keeps three histories: how many edits there had been when it began, what
was in use then (`found`), and whether every reload under way had read the same edit
(`fresh`). `ReloadTakesTheFile` is about reloads that are `fresh` and that no edit
overtook, and says of a failed one exactly what it leaves behind. The properties of `Server` do not use `Config`'s functions to say what a document means: `FileSays`,
`Configured`, `UnderAudit` and `Questions` read the document themselves.

## Runs

All runs finish within two minutes on four workers; the largest has
2.6 million distinct states.

| run | instance | shows |
|---|---|---|
| `fanout` | three rules, two permits, model lists of up to four entries | every order of answers, crashes, early returns and cancellations, and every batched list: the fan-out is bounded, leaves nobody behind, starts nothing after its decision, every audit ends, and every way implements `AuditVerdict` |
| `judge_call` | two retries, timeout 2, base delay 2 capped at 3; one cloud model, two, or one beside a classifier; all replies of up to four tokens and longer ones of braces and strings | `ReadAsMeant`, `VerdictIsTheVote`, `StraysHaveCause`, the budget holds, every call and every thread ends |
| `pipeline` | two requests over six texts, eleven configurations, with and without prior turns | `PassHasReason`, `CacheHoldsVerdicts`, `ShadowNeverBlocks`, `ResultIsOwn`, `EventsTellResults`, `OnlyTheCacheHangs`, and `Gate` is implemented |
| `pipeline_matches` | the same, strictest configuration | a finding, see below |
| `chunk_scan` | streams of up to six tokens in chunks of 0 to 2, window 4, detectors that work, are off or fail | the view is the end of the stream; `PassedIsClean` |
| `stream` | 6 characters, chunks of up to 2, window 2, audits every 2 | `HeuristicsInTime`, `AuditsOwned`, `CompleteMeansAudited`, `NextItemIsViolation`, a failed audit ends the stream |
| `caches` | three keys, two results, a table of two, 5 uses; or a server with two foreign payloads | the table is bounded and evicts the least recently used, and either cache implements `ForgetfulMap` |
| `sync_runner` | three callers inside loops and one outside, whose coroutines may never end | nobody is forgotten, every call ends, abandoned work ends |
| `sync_runner_loops` | the same | a finding |
| `round_trip` | two requests, either vault, texts of 4 characters, every list of up to three of five hits, every style, restarts | `NoFlaggedTextLeft`, `UnredactRestores`, `PutSweepsStale` |
| `server` | two reload threads, one edit, fourteen documents, seven texts; a client's rule, an empty list, or none sent | `PassIsWarranted`, `BlockIsWarranted`, `ReloadTakesTheFile` |
| `server_either` | one reload thread, otherwise the same | a finding |

### Why the bounds are enough

* `fanout`: with three rules and two permits a task waits while two judge, one
  decides and another crashes; a fourth rule only repeats a role. The proofs
  have no such bound.
  Lists of zero to four verdicts are shorter than, as long as and longer than
  the rules.
* `judge_call`: with two retries three threads of one classifier can queue for its
  lock, and the second delay is capped. Replies of four tokens hold an object with
  a member, a string or prose; the longer ones, of seven tokens, hold braces, escapes and
  quotes inside strings, nested and unbalanced braces.
* `pipeline`: two requests are what it takes to fill and to hit a cache, to miss
  twice, and to be handed another's entry. Of the texts, two different ones are
  masked to the same text, so they meet in the cache; one is found by both
  redactors; one is flagged; one is too long and is cut to an innocent one. The
  configurations are every mode with every failure mode, every other switch
  turned once, and neither cache nor auditor. The proofs have no such bound.
* `chunk_scan`: a card number of two digits, with and without a separator, fits the
  window with its chunk only just, phrases overlap and contain one another, the second
  number of a text follows the first with a space, keys stand beside each other.
  Chunks are empty, or a part of a hit. `MaxKept` bounds the deque, which empty
  chunks could otherwise fill without end. `CHECK_DEADLOCK FALSE`, as the stream stops
  at its last token.
* `stream`: the passages lie in a chunk, across chunks, fit the window only just,
  are too long for it, or are never reached. Three audits in a row are possible.
* `caches`: one key more than there is room for, and one to be hit in between.
  The clock goes forward past the expiry and back. The results have and lack
  categories, matches and verdicts; a foreign payload is unreadable as a whole or in
  one of its matches.
* `sync_runner`: one caller starts a loop, a second replaces it, a third finds
  either.
* `round_trip`: the five hits touch, nest, cross, share a span and rank alike; the
  clock reaches past the expiry of an entry, and the second request's put comes
  before and after it.
* `server`: two overlapping reloads with an edit in between reach every order of
  reading, setting the level and assigning, and swap the protector under a request.
  Seven documents differ in every section, seven are faulty, each at another line; the texts
  meet objections of either voter, of both or none, are too long, or match a detector or
  a regex. The threads are symmetric.

## Fairness

* `Dispatch`: weak fairness of every callback of the event loop, and of `Answer` and
  `OneCallEnds`: a judge call ends because its attempts are bounded in number and in
  time. That is `CallEnds` of `JudgeCall`, where timers and time are fair and no
  answer is. `ThreadsEnd` also needs that threads get the lock and that the
  computation of a local classifier ends, which no timeout could enforce.
* `Pipeline`: weak fairness of the local stages, which the event loop runs, and of
  the auditor, which ends by `AuditEnds`. Nothing is assumed of the cache, as nothing
  in the code bounds its two awaits: `OnlyTheCacheHangs` says that a request ends or
  waits for its own get or set for ever. The comment at `protector.py:292` promises
  more, see the disagreements below.
* `Stream`: the upstream goes on or ends, the caller asks on or the generator is
  finalized, audits end, which they do by `OnlyTheCacheHangs` with the cache in memory
  or a Redis that answers. Cancellation and leaving are never fair.
* `SyncRunner`: threads are scheduled, loops run what is ready, and the clock goes
  on, so a wait that may time out does in the end. A coroutine need not end
  (`Finish` is not fair).
* Nothing is fair in the other modules; they state safety only.

## Proofs

The proofs are in modules named after the component, `..._proofs`. They hold for
every value of the constants that satisfies the named assumption of the module
(`FanoutAssumption`, `RetryAssumption`, `PipelineAssumption`,
`RollingAssumption`, `StreamAssumption`, `LruAssumption`, `RoundTripAssumption`,
`DocsAssumption`, `RunnerAssumption`, and those
of the modules that extend them: `DispatchAssumption`, `JudgeCallAssumption`,
`RedisAssumption`, `ScanAssumption`). Those say what
the constructors enforce (a limit of at least one judge, a protector with an
auditor or a redactor), what a quantity is (a natural number, a sequence), or one
of these:

* `RoundTripAssumption`: no detector gives an empty match, spans lie in the text, no
  label is the name of a request, and spaCy's entities do not overlap;
* `ScanAssumption`: no layout of a card number goes on with a separator where
  another one ends, as is the case of the three in `heuristics.py:139-141`;
* `JudgeCallAssumption`: a team is made of the shipped backends, and replies are
  sequences of the tokens of `Replies`;
* `DocsAssumption`: no document names the provider `none`, which stands for a
  section that is not there;
* `LruAssumption`: `None` is not a value or an entry.

TLC evaluates them in the runs. Each safety theorem goes through an inductive
invariant with one lemma per action.

Three of the modules reason about functions over texts, lists and replies of any
length. As the library's induction theorems cannot be used, their induction is
derived: a set of naturals with a member has a least one (`Least`: the
intervals below its members are finite sets, and those are well-founded under
inclusion), so a set with 0 that is closed under successor has all naturals
(`NatSteps`). A recursive definition is what it says because its recursion is over
something shorter (`Iterates` for loops, `Recursion` for the grammar): the lemmas
show that a function with the defining equation exists, and the equation is then
used as a fact.

| module | theorems | the argument |
|---|---|---|
| `Fanout_proofs` | `Invariance`, `TypeCorrect`, `FanoutBounded`, `NoOrphans`, `OutcomesFollowAnswers`, `DecisionStopsJudging`, `Implementation`, `FansOut`, `DispatchImplements` | `PermitsInv`: permits and judging tasks add up to the limit, so the bound is the non-negativity of the semaphore. `TaskInv`, `QueueInv`: a finished task has a reply and is at most once in the queue, and never in it once taken, so `succeeded` counts different rules (`CountInv`). `PhaseInv`: in the cleanup every live task is being cancelled, which is why none of them gets a permit, and without an outcome all rules have been seen. From these, `OutcomeInv`. The refinement maps the answers to `reply` and hides the outcome until the call returns. For `Dispatch`: a batched list has an entry for each rule, so a pass has seen every one; the default way answers all rules at once. |
| `Retry_proofs` | `TypeCorrect`, `CallFitsBudget`, `RetriesAreSpent`, `OnlyTransientRetried`, `JudgedByPolicy`, `JudgesFitBudget`, `NoCauselessStray`, `JudgedAsMeant`, `RepliesReadAsMeant`, `VotesAreCounted` | `BudgetInv`: the pending deadline is within the budget of the attempts and delays so far. `WithinBudget` alone is not inductive, as it says nothing of `due`. Every step of `JudgeCall` is one of `Retry` or none. A call becomes a stray only beside one that fails or as a thread, in the step that ends its attempt, and a call that has failed stays so; the replies of an attempt are forgotten when the next one starts. `JudgedAsMeant` is about one reply: over the body of a string, over a string and over the members of an object the scan comes out in the state it went in with (`BodyScanned`, `StringScanned`, `MembersScanned`, by induction on the length), so it ends at the brace where the grammar ends the object that begins at the first brace (`ObjectScanned`), and a snippet that is no JSON object gives nothing on either side. With it every reading is as meant, and `VoteInv` says what a judgement was made of. |
| `Pipeline_proofs` | `Invariance`, `TypeCorrect`, `CacheIsSound`, `PassesAreJustified`, `ShadowIsTransparent`, `ResultsAreOwn`, `ResultsAreReported`, `PipelineImplementsGate` | `ReqInv` for each request: what is on its way into the cache is sound and unshadowed (`AuditingInv`), what was returned has a reason, its own fields and one event (`ReturnedInv`). `OtherKeeps`: a step of one request disturbs nothing of another, as verdicts are only added. A cached entry is sound for its key, the key is the audited text, so a hit is a verdict about the text of the request that gets it: this is the heart of `PipelineImplementsGate`. |
| `RollingBuffer_proofs` | `Invariance`, `TypeCorrect`, `ViewIsExact`, `BufferIsBounded`, `ScansTheBuffer`, `ScannedIsRecent`, `PassesAreClean` | `Counted`: the counter is what the deque holds; `Consecutive`: its pieces touch and end at the end of the stream; `Covering`: nothing of the window has been dropped. `SearchCovers`: of every place where a pattern fits, the search from the left found it or a place that overlaps it from the left. An occurrence that fits the window with its chunk lies in the window that is scanned when its last token has come (`FitsInside`); the search there finds it, or something before it, which blocks for phrases and keys, and which for card numbers blocks as well or is a rejected number that runs into it (`HitBlocks`, `OneEnd`). `ScanInv` adds to `PassedIsClean` that the stream is clean up to the chunk that waits for its scan. |
| `Stream_proofs` | `Invariance`, `TypeCorrect`, `PassagesAreCaught`, `NoStrayAudit`, `CompletionIsAudited`, `FailureIsNext` | `TaskInv`: all audits but the pending one are over, and one that failed has ended the stream; `FlowInv`: how far the caller is behind the upstream, and that a short passage has not arrived in full; `EndInv`: what is known in the drain and in the final audit. |
| `LruCache_proofs` | `Invariance`, `KeepsThePromise`, `EitherKeepsThePromise`, `TableBounded`, `EvictsOldest` | `IInv`: of each key the table holds nothing or the value set last. Order, limit and clock only decide what is forgotten, which the abstract map may always do. For Redis: `ResultReturns`, serializing and reading back gives the same result for any results whose categories are known (`RedisAssumption`); `ServerInv`: the server holds what was set last or nothing readable. `OrderInv`: the order lists the keys that are present, each once and by their last use, so its first is the one used longest ago, and `set` takes out one key at most, because there was room before it. |
| `Server_proofs` | `Invariance`, `ReloadsTakeTheFile`, `PassesAreWarranted`, `BlocksAreWarranted`; for `SyncRunner`, `RunnerForgetsNobody`, `RunnerCancelsAbandoned` | `ReadInv`: a reload has read what is on disk unless an edit came in between; `FreshInv`: if one that met no older one has, so have all that are under way (`BesideCurrent`), so none of them sets another level or installs another document. Hence `LevelInv`: behind `setLevel` the level is the file's, and with a file that does not get so far it is the one found; and `FoundInv`: a file that does not build leaves the holder as it was found. `ServedInv`: what is in use was built from the document it is filed with, and what serves the request under way from the document in use when it came in; `ServedRead`: of a protector built from a document, what it stops by itself, its voters and its rules are what the document says, default by default. With `RulesFor` that gives the verdict for any rules that a request sends. For the runner, `RunnerInv`: a caller that waits was handed to a loop that nobody stops, and whatever a caller gave up is being cancelled until it ends. |
| `RoundTrip_proofs` | `Expiries`, `Swept`, `Types`, `Cleared`, `Restores` | `ExpiriesOK`: expiries lie at most `TTL` ahead of the clock; `PutKeepsLive`: whatever a put in memory leaves behind is live; no other step adds an entry, a restart included. For the rest: a stable sort is a permutation; each of the two overlap filters leaves hits in order that do not overlap, and leaves out only what overlaps one that it kept; a redacted text is the gaps between the kept hits, with placeholders that are all different, so no flagged token is left and putting the mapping back rebuilds the text. `RoundInv`: the vault holds a mapping of its own for each request that put one and whose time is not over, and every answer was restored with it, or with nothing when it came too late. |

## What is only model-checked

* Liveness (`AuditEnds`, `CallEnds`, `ThreadsEnd`, `OnlyTheCacheHangs`, `FailureStopsStream`,
  `CallsEnd`, `AbandonedWorkEnds`): the proof system does not reason about
  fairness. Of the last one, `RunnerCancelsAbandoned` is the safety half: what was given
  up is being cancelled until it ends.

Every invariant and every action property that a passing run checks is proved as well.

The properties are not vacuous: for each of them `PROJECT.json` names a mutated
definition, written next to the right one (`UncountedMayEnter`,
`InvertedFailureResult`, `LookedUpAgain`, `OverlapsFromLeft`, and so on), under which TLC
finds it violated.

## Findings

Three runs check what the repository says of itself, and fail:

1. `pipeline_matches`: `MatchesAreOwn`. A cache hit replaces `redacted_text` and
   `vault_id` and keeps `matches` (`protector.py:296`). Two texts that are
   redacted alike share a key under `forward_redacted`, so a result carries
   matches, with the originals, from the text of another request.
   `tests/test_regressions.py:234` says that a "stale value from any prior
   request must not bleed in".
2. `sync_runner_loops`: `OneLoop`. `_ensure_loop` asks `loop.is_running()`, which
   is False until the thread just started has entered `run_forever`
   (`protector.py:809`). A second caller then replaces the loop. Both work, but
   the first thread is never stopped. `protector.py:784` says "One long-lived event
   loop in a worker thread."
3. `server_either`: `EitherFailBlocks`. Every policy but `all_must_pass` becomes
   `ANY_MUST_PASS`, which passes what either auditor passes (`config.py:379`,
   `backends/composite.py:47-48`), also the default `primary_only`, in which the
   secondary can overrule the primary. `examples/protector_hybrid.yaml:33` says of
   `any_must_pass`: "if either says fail, we fail".

Other disagreements, met while modelling, that no run checks. What the models do
in these places is what the code does.

* `_cache_key` covers neither the prior turns (`README.md:164-165` promises that
  they are judged) nor the vote policy, so with Redis a verdict survives a reload
  that tightens the policy (`protector.py:662`).
* A detector, a redactor or `vault.put` that raises leaves `_sanitize` as an
  exception, without an event; `protector.py:14` says "Failures degrade per
  `failure_mode`" (`LocalStageRaises`).
* Prior turns are forwarded as they are with `forward_redacted`; `README.md:158`
  says "the cloud LLM never sees raw PII".
* Two reversible redactors overwrite each other's mapping (`protector.py:272`).
* An early block is marked degraded whenever it was not the last answer
  (`protector.py:505`); `README.md:271` says "True when failure-mode kicked in".
* Malformed JSON is not transient and so not retried (`_retry.py:62`,
  `CHANGELOG.md:137-138`).
* A caller that breaks at the violation, as `streaming.py:5-6` shows, leaves the
  upstream open, since closing it comes behind the yield (`streaming.py:124`).
* The final stream audit hands over the whole text, which the size guard rejects
  when it is longer than `max_input_chars` (`streaming.py:179`).
* The synchronous wrapper waits one timeout and a second, less than the retries of
  one call may take (`protector.py:800`).
* A partly degraded pass is cached like any other.
* "cache must never break a request" (`protector.py:292`, `669`): what the cache raises
  is caught, but the get and the set (`protector.py:291`, `668`) have no timeout, and Redis
  is opened without one (`cache.py:104`). A server that accepts the connection and does
  not answer holds the request for ever; `OnlyTheCacheHangs` leaves just that.
* A reload that fails behind `setLevel` leaves the log level of a document that is not
  in use (`config.py:407`), as `ReloadTakesTheFile` says; `docs/DOCKER.md:130-132` says
  "otherwise the previous config stays active".
* Of two reloads that overlap an edit, the one that read the older file may assign last
  (`server.py:159-160`), so a configuration whose reload was answered with
  `reloaded=True` is out of use again; `server.py:13` says "re-read the config file
  (atomic)". `ReloadTakesTheFile` is not about a reload that met one which had read an
  older file.
* The `rules` of a request replace the file's categories (`server.py:124`, `134`,
  `protector.py:144`, `162`), an empty list included, so that a text passes which the
  file's categories object to; `server.py:8-9` does not name the field.
* The `action` of a category (`examples/protector.yaml:41`, `README.md:227`) is checked and
  never read by `build_protector`: with `redact` or `log` an objection blocks as well.
* The built-in detectors are registered whatever the document says of their category
  (`heuristics.py:402-420`): with `secrets` disabled a key is still blocked.
* A document with a secondary auditor only, and a redactor, audits nothing
  (`config.py:375-380`).
* A hit that crosses a better one is dropped whole, and the part of it outside the
  winner stays in clear (`redaction.py:126`); `NoFlaggedTextLeft` allows exactly
  this. Two private keys side by side are a case of it: the hit of the first
  reaches 80 characters past its end marker, into the second (`heuristics.py:232`), and
  one of the two is not redacted at all.
* A card number behind another number and a space is missed: the pattern runs from
  the one into the other, the Luhn check rejects the mixture, and the search goes on
  behind it (`'order 1234 4111 1111 1111 1111 ok'`); `heuristics.py:136` says "Boundaries
  are non-digit / non-dash so we don't bleed into adjacent numbers". `PassedIsClean`
  makes exactly this exception (`Bled`).
* The string `"false"` as the value of `pass` is a pass (`backends/openai_backend.py:121`).
* The batched verdicts are matched by position: the prompt asks for "the order given"
  (`prompts.py:37-39`) and for a `rule_id` as well, which is not read
  (`backends/openai_backend.py:96`), so a model that changes the order is not noticed.
* A reply of Anthropic's that repeats the brace it was prefilled with is unreadable
  (`backends/anthropic_backend.py:72`).
* A Redis cache with a `ttl_seconds` below one sends `ex=0`, which the server refuses, so
  nothing is ever cached (`cache.py:120`).
* Files of the vault that are never read again stay on disk beyond their expiry
  (`local/vault.py:88`).
* Nested lists of rules get the same generated ids, counted per list
  (`protector.py:760`).

## What is not modelled

* How a classifier's scores become a verdict: a comparison with a threshold, over
  labels that are the model's (`local/transformers_backend.py:64-82`; a configured label the model
  does not have scores 0, which passes).
* Detectors beyond one of each kind, and changing a registry in use.
* Rule normalisation, the messages sent to a model, the SDKs and the recognizers.
* A file of `EncryptedFileVault` that a crash cuts short: its id is a fresh one that
  nobody was given (`protector.py:271`), and reading it would give nothing.
* Rule packs, prompts, settings: data. Schema validation, the command line, tracing,
  probes: no state of their own.
* Assumptions on inputs: texts hold no literal placeholder and no detector gives
  an empty match (`RoundTripAssumption`; with an empty match the cursor of
  `redaction.py:98` moves back), and the clock of `RoundTrip` only moves forward
  (`LruCache` has one that is set back).
* Latencies, trace ids, rationales, scores and wording of results.
