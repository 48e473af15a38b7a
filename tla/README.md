# TLA+ models of the cm tablet-server core

This directory holds TLA+ models of the query-execution layer in `src/`, and the
TLC configurations that check them. It covers the row-cache pool, the table-info
loader, and (planned) the plan builder and the MySQL field codec. Each module is
written from the Go source. A definition is marked `spec_modelled` in
`PROJECT.json` only where the code it stands for lives outside `src/`, such as
`schema.Table` or the external `pools.ResourcePool`.

## 1. Inventory

| Component | Source | State it keeps | Operations |
|---|---|---|---|
| Cache pool | `src/unnamed/part_001` | `cp.pool` (nil or a resource pool), `cp.cmd` (the memcached child), `cp.mu`, `capacity`, `port`, `DeleteExpiry` | `NewCachePool`, `Open` (+ `startMemcache`), `Close`, `Get`, `Put`, `IsClosed`, `ServeHTTP`, read-only accessors, `GetMaxPrefix`, `GetSubprocessFlags` |
| Resource pool (external `pools`) | not in `src/` | a buffered channel of `maxCap` wrappers, an atomic capacity, the closed channel | `Get` (blocking receive, idle eviction, factory refill), `Put` (panics if full or closed), `Close` = `SetCapacity(0)` (swap, drain, close) |
| Table-info loader | `src/unnamed/part_000` | `ti.Columns`, `ti.Indexes` (with `DataColumns`), `ti.PKColumns`, `ti.CacheType`, `ti.Cache`, four counters | `NewTableInfo` = `fetchColumns` (`describe`) + `fetchIndexes` (`show index`) + `initRowCache`; `SetPK`; `Stats`/`StatsJSON` (read-only) |
| Query rewriter | `src/unnamed/part_002` lines 1-177 | none (pure); it temporarily mutates the AST it prints | `GenerateFullQuery`, `GenerateFieldQuery`/`FormatImpossible`, `GenerateSelectLimitQuery`, the outer queries, the subqueries, `writeColumnList` |
| SQL analyser | `src/unnamed/part_002` lines 178-294 | none | `GetExecPlan`, `analyzeSQL` dispatch, `setTableInfo`; the `analyze*` functions are outside `src/` |
| Field descriptor | `src/mysql/field.go` | a `Field` record and its raw bytes | `FieldData.Parse`, `Field.Dump` |

How the components interact:
- `ServeHTTP` is the only caller of `Get` and `Put` in the repository. The row cache, which is outside `src/`, calls them too.
- `initRowCache` reads `cachePool.IsClosed()` and attaches a row cache to the pool.
- The analyser reads tables through the `TableGetter` callback and calls the rewriter.
- The cache pool's state is shared by goroutines under one mutex. The mutex guards the pool pointer only. `Close` snapshots the pointer, then drains the pool without the lock, then relocks to clean up.

The hard behaviours:
- **Goroutine interleavings.** Stats requests run against `Open` and `Close`. Two `Close` calls can race. A check-then-act on `cp.pool` can be stale.
- **Blocking and progress.** `Get` blocks on the channel. `Close` waits for every borrowed connection to come back.
- **Failures.** memcached can fail to start, answer slowly (the probe loop gives up after 50 attempts), or crash. A connection can break and has to be returned as `nil`.
- **Torn reads of the schema.** A DDL from another session can run between `describe` and `show index`.
- **Call order.** `SetPK` can be called on a table that is already cached.
- **Numeric and boundary edges.** Examples are the `-1` returned by `FindColumn`, an empty column list, an overflowing cardinality, and short packets.

What makes each component correct:
- **Cache pool:**
  - Every pool slot is either in the channel, borrowed, or drained.
  - memcached is killed only after its pool has drained.
  - Get never hands out a closed or foreign connection.
  - Close returns.
  - A stats request never takes the process down.
- **Table info:**
  - PKColumns are the positions of the PRIMARY index's columns.
  - PRIMARY covers every column.
  - Caching is only read-write with a usable primary key.
  - SetPK keeps the secondary indexes.
- **Analyser and rewriter:**
  - Each statement kind gets the plan the spec lists for it, and no statement makes `GetExecPlan` panic.
  - A pre-read subquery returns exactly the primary key columns and is bounded by `:#maxLimit` or the statement's own limit.
  - A select's full query carries exactly one limit.
- **Field codec:** a server's packet parses into its Field; and `Parse(Dump(f)) = f` for a Field the proxy builds (this one fails: see `fieldcodec_dump_roundtrip`).

## 2. Plan

The modules are listed in the order they are built, most important behaviour first.

1. `CachePool` + `MC_CachePool` (**done**). This is the concurrent core: the goroutines, the lock, the channel, and the child process.
2. `TableInfo` + `MC_TableInfo` (**done**). This covers the schema load, the cache decision, and SetPK.
3. `CachePoolLifecycle` (**done**). An abstract pool that is closed, open or closing, with atomic borrow and return, in which Close completes only when nothing is borrowed. `CachePool` is shown to implement it with `INSTANCE ... WITH` and a refinement mapping, checked as a PROPERTY under one lifecycle goroutine. An action property checks that a Close's cleanup kills only the memcached of a pool it has drained.
4. `TableCache` (**dropped**). `initRowCache` only reads `IsClosed` once. What a stale answer leads to (a `RowCache` on a closed pool) happens in `RowCache` and in the tablet server's shutdown order, and neither is under `src/`. The hazard is listed in `PROJECT.json`.
5. `PlanBuilder` + `MC_PlanBuilder` (**done**). It covers `GetExecPlan`, the `analyzeSQL` dispatch and every `Generate*` function but the unreachable `GenerateReplaceOuterQuery` over a small AST of tables and index choices. It checks the pre-read subqueries, the select limit and the spec's end-to-end scenarios.
6. `FieldCodec` (**done**). It models `Parse` and `Dump` as operators over byte sequences, with lenenc integers as operators. It checks the round trip against a reference definition over bounded fields, and short packets.
7. `CacheConfig` + `MC_CacheConfig` (**done**). How a configuration becomes a pool and a memcached command line, and whether the endpoint the pool dials is one memcached listens on.

## 3. Modules and how they map to the code

### CachePool.tla (`src/unnamed/part_001`)

Constants:
- `Clients` are goroutines running `ServeHTTP`.
- `Lifecycle` is the goroutine of the tablet server that calls `Open` and then `Close`, alternately.
- `Closers` are further goroutines that call `Close`.
- `Capacity` is `cp.capacity`.
- `MaxAttempts` is the probe bound (50 in the code).
- `MaxGen` bounds the number of `Open`s.
- `IdleTimeout` and `MayCrash` switch on idle eviction and memcached crashes.

State:
- `cpPool` is `cp.pool`. A pool is named by the generation of the `Open` that made it, and `0` is nil.
- `cmdGen` is `cp.cmd`.
- `mu` is `cp.mu`, which only `Open` holds across steps. `getPool` is an atomic read that needs `mu` free.
- `proc[g]` is the state of memcached process `g`.
- `chan[g]`, `poolCap[g]` and `chanClosed[g]` are the resource pool of generation `g`.
- `pc`, `snap`, `held` and `drainLeft` are goroutine-local: the program counter, the pool pointer read by `getPool`, `conn`, and the drain loop counter.
- `exited` records `log.Fatal` or a panic, and why. `get_not_open` is Get's nil check, `get_closed` is the CLOSED_ERR of a closed channel, and `get_error` is a factory error. After that only the `Halted` stutter step remains.

Actions:
- `ServeHTTP` is split into `SH_Check`, `Get`, `PoolGet`, `Stats` and `Put`, one per step that touches shared state.
- `Open` is split into `OpenStart` (lock, already-open panic, `cmd.Start`), `OpenProbe` (one turn of the probe loop, with `ProbeExhausted` and `Retry` for `attempts++; if attempts >= 50`) and `OpenHealth` (the health `Set`, `NewResourcePool`, unlock).
- `Close` is split into `CloseGetPool`, `PoolClose` (the capacity swap), `PoolDrain`, `PoolCloseChan` and `CloseCleanup` (relock, recheck, kill, `cp.pool = nil`).
- `ProcListen` and `ProcCrash` are the child process, which the code does not control.

The external resource pool is modelled by the semantics of its channel. Abstractions:
- Connections are identified by the memcached process they reached.
- Log output, the socket file and the response text are left out.

### CachePoolLifecycle.tla (abstract)

The promise `CachePool` makes, with every step atomic. `state` is closed, open or closing, `free` counts the free slots and `out` is the set of clients holding one. `Open` makes `Capacity` free slots. `Borrow` and `Return` move one slot. `StartClose` stops the pool, `Drain` takes back a free slot, and `FinishClose` is allowed only when no slot is free and none is out.

`CachePool.tla` instantiates it as `Abstract` under this mapping:
- `AbsState` is closed while `cp.pool` is nil, closing once `pool.Close` has swapped the capacity to 0, and open otherwise.
- `AbsFree` is the length of the open pool's channel.
- `AbsOut` is the set of clients between `pool.Get` and the deferred `Put`.

`LifecycleRefined == Abstract!Spec` is checked as a PROPERTY. Every other step of the code (the probe loop, closing the channel, a failed factory call before `log.Fatal`) maps to a stuttering step.

### CacheConfig.tla (`src/unnamed/part_001`, configuration)

One configuration's way from `RowCacheConfig` to an open pool. `NewCachePool` is an operator that gives the record the code fills in: `enabled` (a binary is set), `capacity`, `port`, `deleteExpiry` and `fatal` (`Connections <= 50`). `GetSubprocessFlags` gives the command line in the code's order, with `ToString` for `strconv.Itoa`. The state is `cfg`, `timeout`, `cp`, the endpoints the started memcached `listens` on, its `maxConns`, and `phase`. The actions are:
- `NewPool` is `NewCachePool`, which ends in `log.Fatal` on an insufficient capacity.
- `OpenStart` is `Open`'s binary check and `startMemcache` starting the command line.
- `OpenProbe` is the probe loop, which connects or, after 50 failures, ends in `log.Fatal`. Each attempt dials the same address, so the 50 attempts are one step.

memcached and `memcache.Connect` are outside the repository and are modelled by what they do with these values. `MemcachedListens` is the `-s` socket only, or TCP on `-p` (default 11211). `MemcachedMaxConns` is `-c`, or 1024. `Dial` is unix for an address with a `/`, TCP for `:<port>`, and an error for an address without a `:`. These operators are marked `spec_modelled` in the map.

### TableInfo.tla (`src/unnamed/part_000`)

State:
- `db` is the table as MySQL defines it: columns with SQL types, a primary key, and one optional secondary index.
- `step` is the progress of `NewTableInfo`.
- `columns`, `indexes`, `pkCols`, `pkNil`, `cacheType` and `hasCache` are the fields of `TableInfo`. Positions are 0-based, as in the code.

Actions:
- `FetchColumns` is the `describe` query, or its error.
- `DDL` is another session changing the table between the two queries. It adds or drops a column, or changes the keys.
- `FetchIndexes` is the `show index` query and the PK derivation. It is built from `GroupRows` (the loop that groups rows into indexes), `FindColumn` and `SecondaryData`.
- `InitRowCache` covers every early return, and the panic when `PKColumns` holds `-1`.
- `SetPK(colnames)` has its inputs drawn from all lists of at most two names, including a name that is not a column.

Abstractions:
- The SQL type string is reduced to three representatives, one per category.
- Index cardinalities are left out.

### FieldCodec.tla (`src/mysql/field.go`)

`Parse` and `Dump` are operators over sequences of bytes:
- `Field` is the `Field` struct as a set of records, with `data` its `FieldData`.
- `ReadStrings` is the catalog plus the five names, each read with its early return.
- `ParseFixed` is the fixed part, whose unchecked reads panic on a short packet.
- `ParseDefault` is the optional default value, with the `ErrMalformPacket` check.

The length-encoding helpers (`LenEncInt`, `LenEncStr`, `PutLenEncInt`, `PutLenEncStr`, `ToLE`) are not under `src/`. They follow the MySQL protocol. TLC integers are 32-bit, so an 8-byte length is kept exact below 2^24 and otherwise classified the way Go's `int(num)` sees it: huge, or negative. Fixed-width fields are kept as their little-endian bytes, which is what both functions read and write.

A small state machine carries one column definition (`src`) from the server (`ServerSends`, or `ServerSendsMalformed` for a truncated packet or a negative default length), or from the proxy (`ProxyDumps`), through `ParsePacket` and then `Forward` (a `Dump` to the client). `WireEncode` is the reference encoding of `ColumnDefinition41`.

### PlanBuilder.tla (`src/unnamed/part_002`)

A statement is a record: `kind`, `table`, select list `exprs`, `where` (a list of `col = v` or `col in (...)` conditions), `hints`, `join`, `limit`, `set`, insert `cols` and `onDup`. A generated query is the sequence of its tokens, so that a property can count the `limit`s or read the columns after `select`. A table is `[name, columns, indexes]`, with `indexes[1]` playing `Indexes[0]`.
- `Format` and its helpers stand for `sqlparser`'s `Format` methods. They are not under `src/` and follow the SQL text.
- Every `Generate*` function is one operator with the code's name, except `GenerateReplaceOuterQuery`: `analyzeSQL` never reaches it. Statements carry no ORDER BY, so the subquery generators' `order` argument is left out. `GenerateSelectLimitQuery` sets `execLimit` only when the limit is nil. The deferred reset leaves the AST as it was, so the operator is pure.
- The three subquery generators pass `t.indexes[1].columns`, as the code passes `Indexes[0].Columns`. `WriteColumnsPanics` and `SubqueryPanics` are the index-out-of-range panics of the column loop (line 163) and of `Indexes[0]` on a table with no index.
- `AnalyzeSelect`, `AnalyzeDML` and `AnalyzeInsert` follow the spec's section 4.3, because `analyzeSelect` and the others are not under `src/`. `analyzeSQL` and `GetExecPlan` are translated from the code. A panic is the outcome `Failed("panic")`, and an error is `Failed("err")`. As the spec says, `AnalyzeDML` falls back to `pass-dml` when no PK pre-read can bound the rows (no `Indexes[0]`), so the subquery generators are not called on such a table.
- The single action, `GetExecPlan`, takes one statement of `Statements` to its plan.

`analyzeSet` and `analyzeDDL` are reduced to their plan id, and `insert … select` is left out. REPLACE statements are submitted too. `analyzeSQL` has no case for them, so they get the `invalid SQL` error, as in the code.

## 4. Runs

| Run | Config | Expect | What it shows |
|---|---|---|---|
| `cachepool_core` | `MC_CachePool.cfg` | pass | `TypeOK`, `SlotConservation`, `KillOnlyWhenDrained`, `HandedOutConnIsFresh`, `CloseReturns`, `StatsRequestsComplete`, `LifecycleRefined`, `OpenReturns`: with one lifecycle goroutine, two stats clients, crashes and idle eviction, pool slots are conserved, memcached is never killed under a borrowed connection, Get hands out only live connections of its own pool, Close always returns, every stats request returns, and Open returns (with a pool or through `log.Fatal`) even when the child never listens, because the probe loop counts its attempts. The pool refines the atomic `CachePoolLifecycle`. |
| `cachepool_stats_toctou` | `MC_CachePool_toctou.cfg` | violation | `StatsNeverFatalOnClosedPool`: a stats request that saw an open pool runs into a `Close`, and `log.Fatal` ends the process. This happens either in `Get`, when `cp.pool` is already nil (line 217), or on the CLOSED_ERR of `pool.Get`, when the channel is already closed (line 221). TLC reports the shorter trace. Both were reached when the property was checked one exit at a time. |
| `cachepool_close_cleanup` | `MC_CachePool_dblclose.cfg` | violation | `CloseCleansDrainedPool`: a `Close`'s cleanup, which only rechecks `cp.pool != nil`, tears down a pool it has not drained. There are two ways. A second concurrent `Close`, whose `pool.Close` returned at once, kills memcached while a stats request still holds a connection. Or a `Close` delayed across another `Close` and a new `Open` kills the new memcached and drops the new pool. TLC reports the first. Each violates the property with the other one fixed. |
| `fieldcodec_wire` | `MC_FieldCodec.cfg` | pass | `TypeOK`, `ParseRecoversServerField`: a server's column definition parses into its Field. |
| `fieldcodec_dump_roundtrip` | `MC_FieldCodec_dump.cfg` | violation | `DumpParsesBack`: `Dump` writes no catalog (`defCache` is nil), so `Parse` of its output misreads the names and panics. |
| `tableinfo_load` | `MC_TableInfo_load.cfg` | pass | `TypeOK`, `CacheRWImpliesUsablePK`: even with a DDL between the two queries, a table is cached read-write only with a usable PK. |
| `tableinfo_setpk` | `MC_TableInfo_setpk.cfg` | pass | `PrimaryConsistent`, `SecondaryIndexesPreserved` hold after the load and any number of `SetPK` calls. |
| `tableinfo_ddl_race` | `MC_TableInfo_race.cfg` | violation | `LoadNeverPanics`: a DDL between `describe` and `show index` makes `initRowCache` index `ti.Columns[-1]`. |
| `planbuilder_plans` | `MC_PlanBuilder.cfg` | pass | `TypeOK`, `SubqueryReturnsPK`, `PreReadBounded`, `SelectsCapped`, `SpecScenarios`: on tables whose first index is PRIMARY (one simple and one composite key), every subquery pre-read returns exactly the PK columns, has one limit, and is `FOR UPDATE` exactly for DML. Every select's full query ends with its own limit or `:#maxLimit`. The spec's scenarios 1, 2, 3, 4, 5 and 6 get the plans and queries it lists. |
| `planbuilder_dispatch` | `MC_PlanBuilder_dispatch.cfg` | violation | `SpecDispatch`: over tables with and without keys and indexes, every statement kind gets the plan of the spec's dispatch table except REPLACE, which is `invalid SQL` because `analyzeSQL` has no `*sqlparser.Replace` case. With the REPLACE statements left out, the run passes: an UPDATE or DELETE on a table with no index falls back to `pass-dml`. |
| `cacheconfig_limits` | `MC_CacheConfig.cfg` | pass | `TypeOK`, `PoolWithinMemcachedLimit`: for every configuration `NewCachePool` accepts, a pool that opens keeps 50 of the connections memcached accepts free, whether the limit is explicit (`-c`) or both sides use their defaults. |
| `cacheconfig_endpoint` | `MC_CacheConfig_endpoint.cfg` | violation | `OpenReachesMemcached`: with neither socket nor TCP port, `cp.port` is `"11211"`, which `memcache.Connect` cannot dial ("missing port in address"). With both, memcached listens on the socket only (`-s` disables TCP) while the pool dials `:<port>`. Either way the probe loop ends in `log.Fatal`. Both cases were reached separately; a socket alone opens. |

Every property of a passing run has a mutant in `PROJECT.json`: a variant of a mapped action with a plausible bug, which TLC must find violating the property. The mutants are:
- a probe loop that gives up one attempt late, or that retries without counting the attempt;
- a `Put` that drops a nil connection;
- a `NewCachePool` that does not reserve the 50 connections, or that applies `Connections - 50` without the default;
- a `pool.Close` that does not wait, or that closes the channel before it drains it;
- a `ServeHTTP` that keeps the closed connection, or that returns it only on success;
- a missing category conversion or category check;
- a `ParseFixed` that reads the charset one byte short or skips no filler;
- an `analyzeSQL` that returns a nil plan for `Other`, a `GenerateSelectLimitQuery` that overwrites an existing limit, a `GenerateSubquery` that does not default the limit, a `GenerateSelectSubquery` that takes the chosen index's columns, and a `GenerateSelectOuterQuery` that uses the select list instead of the table's columns;
- a `SetPK` that reuses the old PRIMARY index, or always overwrites slot 0.

### Bounds and why they are enough

**CachePool:**
- Two clients are enough for one client to hold a connection while another blocks or checks.
- `Capacity = 2` allows a borrowed slot and a free slot at the same time.
- `MaxGen = 2` allows an Open, Close, Open cycle, which is what the late `Close` of `cachepool_close_cleanup` needs.
- `MaxAttempts = 2` reaches both the retry and the give-up branches of the probe.
- In the close-cleanup run, one extra closer is the least that can race.

**TableInfo:** two column names, three SQL types (one per category), any primary key over the columns and an optional one-column secondary index. That gives 294 table definitions. They include tables without a PK, with a composite PK, with a PK of category other, and with a secondary index on a PK column.

**FieldCodec:** 96 fields. The schema, org_table and org_name are each empty or one byte. The name is one byte, or 251 bytes so that its length needs the `0xfc` form. Two settings of the fixed part differ in every byte, so a field read at the wrong offset is told apart. The default value is absent, empty or one byte. Malformed packets are every proper prefix of the wire encoding, plus a default length of 2^63. Lengths at the 2^16 and 2^24 boundaries are not enumerated: `LenEncInt` treats them with the same case split.

**CacheConfig:** 64 configurations: with and without a binary, socket and TCP port in all four combinations, connections 0 (default), 50 (the fatal boundary), 51 (the smallest accepted) and 1024, with and without threads and lock-paged. The query timeouts are none, 500 ms and 2 s. That makes 384 initial states, and each configuration's path is at most four steps.

**PlanBuilder:** two tables with a PRIMARY index, `t(pk, a, b)` with `idx(a)` and `w` with the composite key `(pk, a)` and `idx(b)`. The dispatch run adds `u`, which has no PK, and `v`, which has no index. The WHERE clauses cover a PK equality, a composite PK in either part order, a bind variable, a PK `in`, a secondary-index equality, a non-indexed column, and none. Selects are taken with or without hints, with no join, a join or a left join, and with or without a limit. The statements include updates that set a non-key or a key column, deletes, inserts and replaces with and without ON DUPLICATE KEY, the other statement kinds, and an unparsable one: 626 statements in all. Each plan is one step, so this many statements is the whole state space.

### Fairness

In `CachePool`, a goroutine that has started an operation keeps running, so its steps are weakly fair. Some steps wait for a channel receive or for `cp.mu`: `Get`, `PoolGet`, `PoolDrain`, `Put` and `CloseCleanup`. These are strongly fair, because Go queues blocked receivers in order and its mutex hands off to starved waiters. Starting a new request, or an `Open`/`Close`, is the caller's choice and has no fairness. memcached starting to listen, or crashing, also has none. `TableInfo`, `FieldCodec` and `PlanBuilder` have no liveness property. `PlanBuilder` and `CacheConfig` runs disable deadlock checking, because `GetExecPlan` is one call. The `FieldCodec` runs also disable deadlock checking, because one packet's trip ends after `Forward`, or after a `Parse` error. Its runs disable deadlock checking, because `NewTableInfo` is a one-shot procedure that ends in `done`, `failed` or `panic`.

## 5. Not modelled, and why

- `SetPK` on a table that `initRowCache` made read-write keeps the old cache decision. The spec's section 8 asks that a read-write table have a usable PK, and the callers of `SetPK` (schema overrides) decide the cache afterwards. Those callers are not in this repository, so the sequence is not checked.
- `analyzeSelect`, `analyzeInsert`, `analyzeUpdate` and `analyzeDelete` are not under `src/`. They are modelled from the spec, so the plan ids they choose are only as exact as the spec's section 4.3. `analyzeSet` and `analyzeDDL` are reduced to their plan id.
- `Parse` on a truncated packet is not checked. Column definitions come from the MySQL server over its framed protocol. The wire run still sends malformed packets, to show that they do not disturb well-formed ones.
- The spec's requirement that a secondary index's `DataColumns` contain the PK columns is not checked. `fetchIndexes` fills `DataColumns` only when the first index is PRIMARY, which the spec leaves open for tables without one.
- `DeleteExpiry` is computed by `NewCachePool` but read by nothing under `src/` (the row cache that uses it is outside), so no property is about it.
- `GetMaxPrefix` is an atomic add, so uniqueness holds by construction.
- The read-only accessors change nothing.
- Logging, HTTP response text, the socket file and the row-cache counters are left out.
- The external parser, MySQL driver and memcache client appear only as the success or failure of a call.
