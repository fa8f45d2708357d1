# TLA+ models of IronBee's body filter, Lua rule gate, rule directives and manager log writer

This directory has TLA+ models of four parts of the code under `src/`. TLC checks them:

- the Traffic Server body filter, which streams HTTP bodies through the engine and applies stream edits (`src/servers/trafficserver/ts_filter.c`). An abstract specification, `StreamEdit`, states what the filter promises downstream, and TLC checks that the filter implements it;
- the rules module's Lua gate and lifecycle (`src/modules/rules.c`);
- the rules module's `Rule` and `RuleExt` directive handlers, with the registries they fill (`src/modules/rules.c`, `src/include/ironbee/rule_defs.h`);
- the engine manager's log writer, with the engine references it takes (`src/engine/engine_manager_log.c`).

`PROJECT.json` lists every component, every run, the mutants that show each property can fail, the source lines each definition translates, the findings, and the hazards.

## The system and its parts

| Part | Source | Status |
|---|---|---|
| Body filter: `flush_data`, `buffer_data_chunk`, `buffer_init`, `process_data`, `data_event`, `in/out_data_event` | `ts_filter.c` | modelled in `TsFilter` |
| Lua rule gate: `call_in_critical_section`, `ib_lua_func_eval_r`, `lua_operator_execute`, plus `rules_init`, `rules_fini` and `clean_up_ipc_mem` | `rules.c` | modelled in `LuaRuleGate` |
| `Rule`/`RuleExt` directive parser (`parse_*`, `rules_rule_params`, `rules_ruleext_params`, the directive map) | `rules.c` 97-740 | modelled in `RuleParser` |
| Engine manager log writer: `manager_logger_format`, `manager_logger_record`, `write_log_record`, close and reopen, `ib_manager_log_flush`, `ib_manager_log_ex` | `engine_manager_log.c` | modelled in `ManagerLog` |
| Phase enum and rule flags | `rule_defs.h` | `Phases` and `Flags` of `RuleParser` |
| Raw input generator | `raw_generator.hpp` | not modelled: a class declaration, with no function bodies in the repository |
| Value-list predicate test | `test_standard_valuelist.cpp` | a test, not the system |
| Engine core (phase scheduler, registries, script host) and the Traffic Server transport | not in `src/` | environment of `TsFilter` and `RuleParser`, modelled from `spec.md`. The engine manager and the logger's queue are the environment of `ManagerLog`. The phase scheduler is not modelled. |

The parts interact as follows:

- For each transaction direction, Traffic Server calls the filter's data event whenever the producer writes body bytes or the consumer asks for more.
- `process_data` hands each input block to the engine with `ib_notify_body`. Rules run there. They may add stream edits, or decide to serve an error document.
- The block then goes to `buffer_data_chunk`, which calls `flush_data` according to the buffering mode.
- At configuration time, each `Rule` directive is parsed into a rule and registered for its phase. Each `RuleExt` directive loads a Lua script into the shared Lua state, under the rule's id, and registers a synthetic operator named by the script's uri. That operator calls the function of that name.
- Every log message from a worker passes through the engine's logger to the manager's writer. Its format function acquires the current engine to read its log level. The logger queues the record, and the writer's record function later hands the queued records to the server's `log_buf_fn`. Meanwhile the manager replaces engines on reload and destroys an old engine once its last reference is released.
- Lua rules run through `lua_operator_execute`, on whatever worker thread holds the transaction. That is why the process-wide Lua state and its semaphore are shared by all workers.

## Modules

### `TsFilter` (with `MCTsFilter`)

`TsFilter` models one direction of one transaction.

**Data abstraction.** A body byte is the token `<<0, p>>` for stream position `p`. Byte `k` of edit `e`'s replacement is `<<e.id, k>>`. The filter's reader therefore holds stream positions, and the output is a sequence of tokens. This makes it possible to state exactly which bytes the output must contain.

**State.** `fctx` is `tsib_filter_ctx`. Its fields are:

- `buffering` and `buf_limit`;
- `buffered`, `bytes_done` and `offs`;
- `edits`;
- `reader`;
- `output`;
- `output_set` (the output buffer exists);
- `output_vio_nbytes` (the size the output VIO announces).

The other state variables are:

- `pc`, the point in `process_data`;
- the input VIO: `inBlocks`, `written`, `ndone`, `inBufNull`;
- the transform's `closed` flag;
- the transaction's error-document `status` and its flags;
- the events sent upstream;
- the bytes the consumer has read, and its shutdown.

**History variables.** `applied`, `dropped`, `silent` and `committed` record what the flushes did. `decidedAt` records how far the output had got when the engine decided on an error document.

**Helpers.** Each helper is one call in the code:

| Helper | Code |
|---|---|
| `FlushData` | `flush_data` |
| `EditLoop` | the sorted-edit loop: a recursive walk from the end of the array |
| `ApplyEdit`, `DropEdit`, `CopyThrough` | the steps of that loop |
| `BufferDataChunk` | `buffer_data_chunk` |
| `BufferInit`, `ConfiguredMode`, `Bypass` | `buffer_init` |
| `FirstTimeInit`, `ErrorDocCheck` | the two prologues of `process_data` |

`Sorts` is the set of orders `qsort` may leave. qsort is unstable, so edits with equal starts may come out in either order.

**Actions.** Each action is one step of the handler:

| Action | Code |
|---|---|
| `ProcessInputGone` | `in_buf == NULL` |
| `ProcessData` | the first-time set-up, then either the `ntodo == 0` completion or entry into the block loop |
| `ChunkStep` | one block of the loop: notify, buffer, consume, advance `ndone` |
| `LoopExit` | the code after the loop: final flush and `WRITE_COMPLETE`, or `WRITE_READY` |
| `ErrorEvent` | the `TS_EVENT_ERROR` branch of `data_event` |
| `WriteCompleteEvent` | the `TS_EVENT_VCONN_WRITE_COMPLETE` branch of `data_event` |

The closed check at the top of `data_event` is the `~closed` guard on every action.

**Environment.** The environment is modelled from the spec:

- `ChunkStep` chooses the engine's answer with `NewEdits`: at most one new edit per block, over bytes the engine has seen.
- `ChunkStep` also chooses whether the engine decides on an error document.
- `UpstreamWrite`, `UpstreamDetach` and `UpstreamClose` are the producer.
- `DownstreamRead` is the consumer. It reads no further than `output_vio_nbytes`.

The constant `EditsInBlock` says whether a rule may edit bytes of the block it is being notified of (TRUE, as in the code) or only bytes of earlier blocks.

### `StreamEdit`, and the refinement

`StreamEdit` is the filter as its consumer sees it, taken from spec sections 4 and 8. It has four variables:

- `out`, the bytes emitted;
- `done`, the stream bytes consumed;
- `edits`, the edits applied;
- `size`, the committed final size.

Its one action, `Emit`, allows only one kind of step. The step appends the stream from `done` to the new `done`, with the newly applied edits substituted. Those edits must lie in that stretch, in stream order and without overlap. The step may also commit the final size, which must equal the output's length. After the commit nothing changes.

`TsFilter` defines `SE == INSTANCE StreamEdit WITH out <- fctx.output, done <- fctx.bytes_done, edits <- applied, size <- (the output VIO's size once committed)`. The property `ImplementsStreamEdit == SE!Spec` says that every step of the filter is a `StreamEdit` step or leaves the mapped state unchanged. This holds whatever the buffering mode, the block split, the EAGAIN retries and qsort's order of ties. It replaces three earlier invariants, each of which it implies:

- the output is the edited stream;
- edits are applied in order;
- the final size is the output's length.

### `LuaRuleGate` (with `MCLuaRuleGate`)

`LuaRuleGate` models `rules_init` as one atomic step. It runs single-threaded at engine start:

- the lock may fail to initialise, which is only logged;
- the atexit handler is registered;
- `rules_init` may then return early at any of seven points (the first is `m == NULL`, lines 768-772). Five of those returns call `clean_up_ipc_mem`.

`RulesFini` is `rules_fini`. The engine calls it only once no rule is running. `ProcessExit` runs the atexit handler.

Every worker runs `lua_operator_execute` → `ib_lua_func_eval_r` as a sequence of steps:

1. `LockGate` (`ib_lock_lock`);
2. `NewThread` (`ib_lua_new_thread` in the critical section);
3. `UnlockGate`;
4. `EvalRule` (outside the gate);
5. `LockGate`;
6. `JoinThread`;
7. `UnlockGate`.

`ib_lock_*` is not in the repository. It is modelled as a System V semaphore: it blocks while another worker holds it, and fails on a semaphore that was never created or has been removed. Lua threads are numbered in order of creation, and `live` is the set of threads not yet joined.

### `RuleParser` (with `MCRuleParser` and `MCRuleParserText`)

**Data abstraction.** A directive argument is a sequence of symbols. A symbol is either a punctuation character the parser looks at (blank, `|`, `,`, `!`, `@`, `:`) or a word, meaning a run of name characters. The code only ever compares a word as a whole, with `strcasecmp`, or by its `lua:` prefix. Case is not modelled.

**String operators.** These are the parsing functions, one operator per piece of code:

| Operator | Code |
|---|---|
| `SkipSpace` | the `isspace` loops |
| `TrimTrailing` | the in-place trim |
| `StrTok` | the `strtok` loop |
| `ParseInputs` | `parse_inputs` |
| `ScanOperator` | the `!`/`@` scan |
| `ParseOperator` | `parse_operator` |
| `ParseModifier`, `ParseModifiers` | `parse_modifier` and the modifier loops |
| `RuleParams`, `RuleExtParams` | the two handlers up to `ib_rule_register` |

**State.** The state is what the directives change:

- `phaseRules`, the engine's rule list for each phase;
- `operators`, the operator registry;
- `scripts`, the Lua globals, mapping a function name to the script loaded under it;
- `status`, the last handler's return value.

**Actions.** `Rule(args)` and `RuleExt(args)` each model a whole handler, from its first check to its `ib_rule_register`.

**Environment.** The engine calls are modelled from the spec:

- `ib_rule_create` and its setters, as `NewRule` and record updates;
- `ib_rule_register`, which appends to the phase's list;
- `ib_operator_register`, which is idempotent;
- `ib_lua_load_func`, which fails for the scripts in `BadScripts`. With a NULL name its behaviour is undefined, so it either binds the script or fails.

`MCRuleParser` gives the argument sets. They cover:

- inputs strings with one selector, with two, with only separators, and with only blanks;
- operator strings that are plain, that are inverted with args and trailing blanks, that lack an `@`, or that name an operator the registry does not know;
- well-formed and malformed `id`, `phase`, `chain` and action modifiers;
- scripts that load, a script that fails to load, and another scheme.

`MCRuleParserText` adds one more variable, `text`. It grows one symbol at a time from the initial state, so every operator string of up to 6 symbols is a state. `ParseOperator` is checked against `OperatorSyntax`, a declarative reading of spec section 4.3, on each of those strings.

### `ManagerLog` (with `MCManagerLog`)

**Data abstraction.** A message is abstracted to the lengths that decide the size of its record:

- the level name;
- whether it has a transaction, whose id has `TxIdLen` characters;
- the file name's length after the `../` prefixes are stripped (0 for none);
- the line number's digits (0 for line 0);
- the message's length.

`FormattedLen` computes the record's `strlen` from those lengths, the way `manager_logger_format` builds it:

- `snprintf` of the padded level name, bounded by `buffer_sz`;
- the `[tx:...]` part;
- the `(%23s:%-5d)` part, written only at DEBUG and cut to 34 bytes by `snprintf`;
- the message.

**State.**

| Variables | What they hold |
|---|---|
| `current`, `alive`, `created`, `level`, `refs` | the engine manager's engines and their reference counts |
| `txEngine` | the engine each worker's transaction holds |
| `queue` | the logger's queue of records |
| `buf` | what `log_buf_fn` has received and not yet flushed |
| `leaked` | records built and neither queued nor freed |
| `crashed` | a NULL `log_flush_fn` was called |

**Actions.** Each operation of the writer is one action:

| Action | Code |
|---|---|
| `Format(w, m)` | the whole of `manager_logger_format`: the acquire, the level choice, both mallocs with their failure paths, and the build |
| `ManagerLoggerRecord` | `ib_logger_dequeue` with `write_log_record` |
| `ManagerLoggerClose` | close and reopen |
| `LogFlush` | `ib_manager_log_flush` |
| `LogEx(n)` | `ib_manager_log_ex` |

`Format(w, m)` also includes the logger queueing what the format function returns.

**Environment.** The engine manager and `ib_logger` are not in the repository. They are modelled by the contract the writer relies on:

- `ib_manager_engine_acquire` takes a reference on the current engine, returns `IB_ENOENT` when there is none, or fails;
- transactions acquire an engine at their start and release it at their end;
- cleanup destroys an engine that is not current and has no references;
- the logger queues a record only when format returns `IB_OK` with one.

These environment actions are not in the map.

## Runs

| Run | cfg | Expect | What it shows |
|---|---|---|---|
| filter_safety | `MCTsFilter.cfg` | pass (606,208 states) | The filter implements `StreamEdit` (`ImplementsStreamEdit`; spec §8 properties 2-4) in all five buffering modes, for every block split, every edit and every qsort tie order. The reader holds exactly the next bytes (`BufferHoldsNextBytes`). Every edit is pending, applied or dropped exactly once (`EveryEditResolvedOnce`). |
| filter_progress | `MCTsFilter_progress.cfg` | pass (92,662 states) | The transform never stalls (`EventuallyDelivered`). Unless the producer closes it, the output's final size is committed and the consumer reaches WRITE_COMPLETE, having read the bytes the output VIO announced. It does not claim that those are all the bytes written: that is `DownstreamGetsWholeOutput`, which downstream_truncation shows violated. The run leaves BUFFER_FLUSHALL out (`CoreCfg <- MCCoreCfgNoFlushAll`), because in that mode the transform can hang (flushall_overrun), and a hung transform never delivers. |
| flushall_overrun | `MCTsFilter_overrun.cfg` | violation | Finding: in BUFFER_FLUSHALL, an edit inside the incoming block clips `nbytes` beyond what is buffered, and `flush_data`'s copy loop cannot complete. |
| silent_edit_drop | `MCTsFilter_silent_drop.cfg` | violation | Finding: an abandoned edit is not reported. The final flushes ignore the status, and EAGAIN overwrites EBADVAL. |
| downstream_truncation | `MCTsFilter_truncation.cfg` | violation | Finding: the output VIO announces the input length, so the consumer can finish before inserted bytes arrive. |
| errordoc_passthrough | `MCTsFilter_errordoc.cfg` | violation | Finding: `process_data` reads the error-document status only at the top of a data event (`ts_filter.c:324`). The blocks after the one during which the engine decided are still flushed to the output (`ErrorDocumentStopsBody`). |
| gate_safety | `MCLuaRuleGate.cfg` | pass (471,955 states) | The shared Lua state is changed only by the holder of a valid semaphore (`RootChangedOnlyUnderGate`, an action property), including when `ib_lock_init` failed. Every evaluation returns: no worker waits on the semaphore forever, whatever the critical calls return (`EveryCallReturns`). |
| lua_resource_release | `MCLuaRuleGate_resources.cfg` | violation | Finding: the module's Lua resources are not each released exactly once (`LuaResourcesReleasedOnce`). TLC's shortest trace shows the first half: `rules_fini`, or a failed `rules_init`, and the atexit handler both destroy the semaphore. The second half is a failed evaluation that leaves its Lua thread unjoined (rules.c:460). |
| parser_safety | `MCRuleParserText.cfg` | pass (12,210 states) | `parse_operator` agrees with the operator syntax of spec §4.3 on every string of up to 6 symbols (`OperatorParseMatchesSyntax`). |
| invalid_rule_registered | `MCRuleParser_valid.cfg` | violation | Finding: rules that spec sections 3 and 7 call invalid are registered (`RegisteredRulesValid`). TLC's shortest trace is a `Rule` whose inputs string is only separators (`"|"`): it is registered with no input selector. A `RuleExt` without an `id` modifier also breaks the property: it loads its script under a NULL name and is registered. So does a repeated id, which rebinds the function an earlier rule calls. |
| logger_safety | `MCManagerLog.cfg` | pass (932,794 states) | Every record `manager_logger_format` builds fits its heap buffer (`FormattedRecordFits`): `fmt_pad_size` covers the level, tx and file prefixes. This holds for the longest level name, a tx id, a long file name with a 6-digit line number at DEBUG, engine swaps and allocation failures. |
| engine_ref_leak | `MCManagerLog_engine_leak.cfg` | violation | Finding: an engine replaced by a newer one is never destroyed (`OldEngineReclaimed`). `manager_logger_format` acquires the current engine to read its log level and never releases it (`engine_manager_log.c:94`). In TLC's trace, a message is formatted while some engine is current, and then a newer engine is created. Cleanup destroys the other old engines, but the first one keeps the reference forever. |

For every property of a passing run, `PROJECT.json` names a mutant of the code's model that TLC finds violates it. Some examples:

- a stale-edit check that was dropped;
- a DISCARD branch that forgets to reset `buffered`;
- a final size without `offs`;
- an abandoned edit that is never popped;
- a lock status that is not checked;
- a failed critical call that returns without unlocking;
- the rule itself stored as the operator's data instead of its id;
- operator args that keep their trailing blanks;
- a log padding too small for the prefixes;
- an engine released on the format function's error path without having been acquired (it breaks `TypeOK`: a reference count goes negative).

## Bounds

`MCTsFilter` uses the following bounds:

- a 3-byte body;
- blocks of 1 or 2 bytes;
- up to 2 edits, each deleting up to 2 bytes and inserting up to 1;
- buffer limits −1 (unlimited) and 1.

These bounds are enough for the interesting cases:

- every buffering mode flushes at least once with bytes still held;
- an edit can straddle a flush boundary (EAGAIN);
- two edits can overlap or tie on their start;
- an edit can fall inside a block of two.

The progress run uses 1 edit, so that the liveness check, and its mutant, finish in about a minute. It keeps `EditsInBlock` TRUE, as in the code, and every buffering mode except BUFFER_FLUSHALL. That mode can hang, which is the finding of flushall_overrun; with it, `EventuallyDelivered` fails on that hang and says nothing more.

`MCLuaRuleGate` uses three workers with two evaluations each. That is enough for one worker to wait while another holds the gate and a third is evaluating, and for a thread slot to be reused after a join. The run checks safety and liveness together, without symmetry, because symmetry is unsound for liveness.

`MCRuleParser` allows two directives. That is enough for a second `RuleExt` to reuse the first one's id, and for a `Rule` and a `RuleExt` to land in the same or different phase lists. Modifier lists have at most one entry for `Rule` and two for `RuleExt`. That is enough for an id together with a phase, and for a failing modifier after a good one. The operator strings of up to 6 symbols include every arrangement of a `!`, blanks, `@`, a name and an argument with leading and trailing blanks.

`MCManagerLog` uses two workers, three engine generations and three log calls. That is enough to log with no engine and to log while an engine is current. It is also enough to replace that engine while a transaction still holds it, and to have two old engines alive at once. The two messages are the largest and the smallest record: the longest level name (EMERGENCY), a tx id, a file name longer than 23 characters and a 6-digit line number with an empty message; and a short INFO message with none of them. Engines may log at INFO or DEBUG, because the file part is written only at DEBUG. Every malloc may fail.

`CHECK_DEADLOCK FALSE` is set where the system really stops. A transform stops once it is closed. The gate model stops once the process has exited. A configuration ends after its directives, and the string enumeration ends at its bound.

## Fairness

- **TsFilter.** Traffic Server reschedules the transform on every reenable, so the handler's steps are weakly fair. The producer and the consumer run between data events, which hold the transaction's mutex. Their actions are therefore enabled only while the transform is idle, and they get strong fairness. The engine's choices, the error event and the producer's detach and close get no fairness.
- **RuleParser.** The model has no fairness and no liveness property. Directives are read one after another at configuration time, and nothing waits on anything.
- **ManagerLog.** Cleanup of each engine and the end of each transaction are weakly fair. This is an assumption about the engine manager, which is not in the repository: its cleanup of old engines keeps recurring, and transactions end. Log calls and engine creation get no fairness.
- **LuaRuleGate.** A worker's own steps are weakly fair. Starting a call and shutting the engine down are the host's choice. The bounded number of calls per worker keeps a worker from being overtaken forever at the semaphore, so no strong fairness is needed.

## What is not modelled, and plans

Every function body under `src/` that changes state is now an action or an operator of a module. The map leaves out comments, includes, declarations, and the no-op `manager_logger_open`, `lua_operator_create` and `lua_operator_destroy`. What follows cannot be modelled faithfully from this repository, or is left unchecked on purpose:

- **The phase scheduler.** Firing the registered rules at each phase, with chains, is engine code. It is not in `src/`, so neither are the properties about it (spec §8 properties 6 and 7).
- **Allocation failures.** `ib_mpool_strdup` and the engine's `create` and `register` calls can fail for lack of memory, and this is not modelled. One case matters: a `RuleExt` whose operator or rule registration fails after the script was loaded would leave a Lua global bound for a rejected directive.
- **Case-insensitive names.** `strcasecmp` is modelled as equality over canonical words.
- **The log format bug at `rules.c:360`.** The format string has three conversions but only two arguments. It affects logging only.
- **qsort ties.** `spec.md` says ties are broken by insertion order. The code's qsort is unstable, so ties are checked here only through properties that hold in any order.
- **Large offsets.** The `qcompare` int truncation needs offsets beyond 2 GiB, which is out of TLC's reach.
- **ib_lua_func_eval_int.** It is not in the repository, so whether `*result` is written on failure is not modelled.
- **The raw generator and the value-list test.** `raw_generator.hpp` declares a class, and its member functions are not in the repository. The value-list test is a unit test of predicate code that is not in the repository.
- **The manager log writer's unchecked paths.** `ManagerLog` models three behaviours without checking a property against them:
  - `ib_manager_log_ex` passes `vsnprintf`'s untruncated length as `msg_sz`. Its callers are not in the repository.
  - A failed message malloc leaks the record.
  - A format with no engine returns `IB_ENOENT` together with a record, which the logger drops. What `ib_logger` does with it is not in the repository.
- **The NULL flush call.** Close and reopen call `log_flush_fn` without a NULL check. `ManagerLog` models this call as `crashed`, but the checked instance has a flush function.
