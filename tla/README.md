# TLA+ models of memcached's sub-document, topkeys, configuration and badmalloc code

This directory holds TLA+ models of parts of the memcached server in `src/`.
It also holds the TLC configurations that check them. `PROJECT.json` lists:

- the components and what each module models;
- every run, with the mutants that show each property can fail;
- the map from each definition to the source lines it translates;
- the findings and the hazards.

## The system and its parts

| Part | Source | Module | Status |
|---|---|---|---|
| Sub-document executor: fetch, operate, update, respond, auto-retry | `src/daemon/subdocument.cc` | `SubdocExecutor` | modelled |
| Document materialisation (`get_document_for_searching`) | `src/daemon/subdocument.cc` | `SubdocExecutor` (`Materialize`) | modelled |
| Sub-document command context | `src/unnamed/part_003` | `SubdocExecutor` (`ctx` field) | partly: single-path only |
| Single-path and multi-lookup request validators | `src/daemon/subdocument_validators.cc` | `SubdocValidator` | modelled |
| TopKeys statistics: sharded LRU of hot keys | `src/unnamed/part_002` | `TopKeys`, refining `TopKeysLRU` | modelled |
| badmalloc failure injection | `src/unnamed/part_004` | `BadMalloc` | modelled |
| ioctl get/set | `src/daemon/ioctl.cc` | — | not modelled: a stateless key dispatch into code outside this tree |
| Config load, validation and reload | `src/daemon/config_parse.cc` | `ConfigReload` | partly: every handler (strings, files, integers, booleans, interfaces, extensions, breakpad), with the JSON text abstracted |
| Bucket deletion vs. connections | tests only (`testapp_bucket.cc`) | — | not modelled: the bucket code is not in this tree |
| Allocator hooks, `new`/`delete` replacement, index engine stub, test client, test programs, CMake | various | — | not modelled: no behaviour worth checking |

How the parts interact:

- A request arrives on a connection. Its validator runs first.
- The executor is called only for a packet the validator accepted. The
  executor trusts the lengths the validator checked; this is why the
  validator's arithmetic matters.
- The executor talks to the storage engine through `get`, `allocate`,
  `item_set_cas`, `get_item_info`, `store` and `release`. Any of these may
  return EWOULDBLOCK. The connection then parks. After
  `notify_io_complete`, the whole executor is called again from the top.
- The configuration is loaded once at start-up. It is then revalidated
  or reloaded on request, with the running `settings` read by the rest of
  the server.
- On success the executor calls `update_topkeys`, which is
  `TopKeys::updateKey`. The stats commands visit the TopKeys shards.

## Modules

### SubdocExecutor (`SubdocExecutor.tla`, `MC_SubdocExecutor.tla`)

Variables:

| Variable | What it holds |
|---|---|
| `doc` | The engine's single item: its existence, CAS and datatype |
| `nextCas` | The engine's CAS counter |
| `extWrites` | How many writes other clients made |
| `conn[c]` | Each connection's state, fields below |

Fields of `conn[c]`:

| Field | Corresponds to |
|---|---|
| `pc` | Where the worker thread is in the executor |
| `cmd`, `ccas` | The command and the client's CAS |
| `ret` | `c->aiostat` and `ret` |
| `item` | `c->item` |
| `ctx` | The `SubdocCmdContext`: `in_cas` and `out_doc` |
| `cas` | `c->cas` |
| `resp` | The response sent |
| `held` | Engine item references held |
| `retries` | Auto-retries performed |

Actions and helpers, one per code step:

| Definition | Code |
|---|---|
| `Entry` | `subdoc_executor` up to the loop: aiostat, `auto_retry`, `attempts = 0` |
| `Fetch` | `subdoc_fetch` |
| `Operate` | `subdoc_operate`, with `get_document_for_searching` as `Materialize` |
| `Update` | `subdoc_update` up to the store: allocate, `item_set_cas`, `get_item_info` |
| `Store` | The REPLACE store, then the rest of the loop body (`AfterUpdate`): the KEY_EEXISTS auto-retry, the `attempts` bound and TMPFAIL, the response |
| `Notify` | The engine's `notify_io_complete` for a parked connection |
| `Complete` | The connection returns to idle once the response is sent, releasing what it held |
| `Close` | The connection closes in `conn_closing`, releasing what it held |
| `ExternalWrite`, `ExternalDelete` | Other clients changing the key between the steps of a command |

The JSON operation itself is abstracted to a nondeterministic result. It is
either success or a sub-document error; the bytes of paths and values play
no part in what is checked.

### SubdocValidator (`SubdocValidator.tla`, `MC_SubdocValidator.tla`)

Both validators are pure functions of the packet. They are operators over
an abstract packet. The packet keeps the header fields and the lengths; for
multi-lookup it also keeps the sequence of lookup specs and how many bytes
the body was cut short by.

- **Single-path validator.** `SubdocValidator` keeps the `uint32_t` value
  length, with its wrap-around.
- **Multi-lookup validator.** `SubdocMultiLookupValidator` is a `RECURSIVE`
  walk, `WalkSpecs`, over the specs. It compares the raw network-order
  `bodylen`, as the code does on a little-endian host.
- **State machine.** It exists only to enumerate the packets: `Init` picks
  a packet and one step gives the verdict.

### TopKeys (`TopKeys.tla`, `TopKeysLRU.tla`, `MC_TopKeys.tla`)

Variables: `hash[s]` and `list[s]` are the shard's `unordered_map` and its
MRU `std::list`.

Each `Shard::updateKey` runs under the shard mutex, so it is one atomic
step. `UpdateKey` also models the `std::bad_alloc` the code catches. It can
be thrown at building the key string, at `emplace` and at `push_front`;
`AllocFailures` chooses which of these a run allows. `Stats` is
`TopKeys::stats`, `accept_visitor` and `tk_iterfunc`.

`TopKeysLRU` is the abstract promise: per shard, the `MaxKeys` most
recently accessed keys in recency order, with a hit count per tracked key.
`TopKeys` refines it by `lru <- list` and `hits <- TrackedHits`.

### ConfigReload (`ConfigReload.tla`, `MC_ConfigReload.tla`)

This module models the configuration's string ownership and the two
phases of a reload.

Variables:

| Variable | What it holds |
|---|---|
| `settings` | The global `struct settings`: the string pointers (`admin`, `rbac_file`, `audit_file`, `root`, `ssl_cipher_list`, `ssl_minimum_protocol`, `sasl_mechanisms`, `config`, `breakpad.minidump_dir`), the `interfaces` and `pending_extensions` arrays, the integers `num_threads` and `verbose`, the other integer and boolean settings in `sc`, and the `has` flags |
| `heap`, `val` | An abstract heap: each buffer's state (unused, live or freed) and its string |
| `fault` | `"double_free"` when a `cb_free` hits a freed buffer (the process aborts); `"segv"` when a handler dereferences NULL (the process dies) |
| `reloaded` | A history variable: the file the step just reloaded, NULL after a load or a validation. It is left out of the `VIEW` (`ProgramState`), so it adds no states; `RefusedReloadChangesNothing` uses it to know which file the step reloaded. The view is sound for that property because it reads `reloaded` only in the step's next state, where the step itself set it |
| `listening` | Per interface of the running server, what its listening sockets use: `maxconns` of the `listening_port` and whether `TCP_NODELAY` is set |

The modelled settings, by handler pattern:

| Setting | Pattern |
|---|---|
| `admin` | Static string; `get_admin` frees the old value |
| `rbac_file`, `audit_file`, `root` | Static strings; the path must exist (`get_file_value`'s `stat`) |
| `ssl_cipher_list`, `ssl_minimum_protocol` | Dynamic strings handed over by pointer; the protocol must be one `decode_ssl_protocol` knows (`SslProtocols`) |
| `sasl_mechanisms` | Refused unless the server runs with an equal value |
| `threads` | Static integer |
| `verbosity` | Dynamic integer |
| `default_reqs_per_event`, the three `reqs_per_event_*_priority`, `connection_idle_time` | Dynamic integers, copied when given and different |
| `bio_drain_buffer_sz`, `max_packet_size` | Static integers; `max_packet_size` is given in MiB and kept as `(uint32_t)v * 1024 * 1024`, which `MaxPacketSizeMiB` models as `v % 4096` |
| `require_init`, `require_sasl`, `datatype_support`, `stdin_listen`, `exit_on_connection_close` | Static booleans (the last two are checked by handlers named `dyna_reconfig_*` that act as validators) |
| `rbac_privilege_debug`, `dedupe_nmvb_maps` | Dynamic booleans, copied whenever given |
| `engine` | Obsolete; accepted and ignored |
| `breakpad` | An object read member by member by `parse_breakpad`; `dyna_reconfig_breakpad` copies a changed `minidump_dir` |
| `extensions` | The `cb_calloc`'ed array of `struct extension_settings` (module and config strings); static |
| `interfaces` | The `cb_calloc`'ed array of `struct interface` with three owned strings each (host, ssl key and cert) |

Breakpad and extensions:

- `ParseBreakpad` folds `BreakpadMember` over the members and then applies
  `FinishBreakpad`'s checks: enabled needs a directory, and content must
  be `"default"`. On failure both strings are freed.
- `DynaReconfigBreakpad` `strcmp`s the new directory with the running
  one. That one is NULL in a server started without `breakpad`, and the
  model then sets `fault` to `"segv"`.
- `GetExtensions` allocates the array, then `GetExtension` reads each
  object's `module` and `config`.
- `DynaValidateExtensions` is the code's test. `ValidateExtensionsSegv`
  is its `strcmp` with the NULL module of a running extension that had
  none.

The interfaces are modelled handler by handler. A JSON object is a
sequence of members in file order:

- `HandleInterface` is `handle_interface`: the defaults, each member's
  handler (`GetInterfaceHost`, `GetInterfaceSsl`, `GetInterfaceProtocol`
  and the integer and boolean getters), the leaked message for an
  unknown member, and the checks for IPv4/IPv6 and a repeated port.
- `GetInterfaces` allocates the array before the first interface is
  parsed, so a failing interface leaves the earlier ones' strings to
  `free_settings`.
- `DynaValidateInterfaces` compares host, port, ipv4 and ipv6 of each
  interface with the running one.
- `ReconfigIface` applies `dyna_reconfig_iface_maxconns`, `_backlog`,
  `_nodelay` and `_ssl`. The nondeterministic `sockok` is the result of
  `setsockopt`: on failure the setting changes and the socket does not.
- `ValidateInterfacesSegv` and the NULL cases of `ReconfigIfaceSsl` and
  `DynaReconfigInterfaces` are where the code calls `strcmp` on a NULL
  string or reads `new_settings->interfaces` when it is NULL. There the
  model sets `fault` to `"segv"`, and the step changes nothing else.
- `Listen` stands for the start-up code in `memcached.c` (not in this
  tree) that opens a port per interface from the settings.

The parse of a file runs the handler of each entry in file order.
`HandleEntries` is the loop of `parse_JSON_config` and stops at the first
failing handler. A value `BAD` stands for a value of the wrong JSON type.
An unreadable file stands for a `config_load_file` or `cJSON_Parse`
failure.

Actions:

| Action | Code |
|---|---|
| `LoadConfigFile` | `load_config_file`; exits on failure |
| `ValidateProposedConfigChanges` | `validate_proposed_config_changes`. It parses, validates and frees; it changes no setting |
| `ReloadConfigFile` | `reload_config_file`: parse, validate every handler, apply the reconfig handlers if all agreed, then `free_settings` |

Each call is one step. The calls run on one thread, and `new_settings` is
local to each call.

### BadMalloc (`BadMalloc.tla`, `MC_BadMalloc.tla`)

The interposed `malloc`/`realloc` of the failure-injection library. They
run the same code, so they are one call here.

Variables:

| Variable | What it holds |
|---|---|
| `recursion_depth` | The shared static int |
| `grace_period` | The shared static int |
| `loaded` | Whether `badMalloc` is non-null |
| `stack[t]` | Thread `t`'s active calls, innermost last |
| `reg[t]` | The value thread `t` last loaded |

Each `++` and `--` of the shared ints is a load step followed by a store
step. This is how the unsynchronised code runs on several threads.

Actions, in the order of a call:
- `IncLoad` and `IncStore`: `recursion_depth++`.
- `CheckLoaded`: the test of `badMalloc`.
- `GraceLoad`, `GraceStore` and `DepthCheck`: `shouldFail`. The Bernoulli
  draw is a nondeterministic choice.
- `ReportAllocates` and `Report`: `fprintf` and `print_backtrace_to_file`,
  which may allocate, giving a nested call.
- `DecLoad` and `DecStore`: `recursion_depth--`.

## Runs

| Run | Cfg | Expect | What it shows |
|---|---|---|---|
| subdoc_safety | `MC_SubdocExecutor.cfg` | pass (about 3.1M states, about 2 min) | `NoLostUpdate`: a mutation never replaces a version it did not read. `ClientCasHonoured`: a command with a client CAS never succeeds against another version. `NoConflictWithoutCas`: auto-retrying commands never report KEY_EEXISTS. `RetriesAreCausedByWrites`: every retry is paid for by an external write. `ResponseCasIsVersion`: a lookup returns the CAS of the version it read. `NoItemLeak`: an idle or closed connection holds no item. |
| subdoc_liveness | `MC_SubdocLiveness.cfg` | pass | `CommandAnswered`: every command started is answered, or its connection is closed. |
| subdoc_retry_bound | `MC_SubdocRetryBound.cfg` | violation | `RetryBounded` fails: a single EWOULDBLOCK restarts the `attempts` count. |
| validator_multi_lookup | `MC_SubdocValidator.cfg` | pass (about 400k states) | `MultiLookupValidatorCorrect`: the validator accepts exactly the well-formed packets. |
| validator_valuelen | `MC_SubdocValueLen.cfg` | violation | `SingleAcceptedFitsBody` fails: a mutation whose path runs past the body is accepted. |
| topkeys | `MC_TopKeys.cfg` | pass (about 380k states) | `HashListConsistent` holds, and the shards refine `TopKeysLRU`. Allocation failures happen at the key string and at emplace. |
| topkeys_push_front | `MC_TopKeysPushFront.cfg` | violation | A `push_front` failure orphans a key in the map. |
| config_reload | `MC_ConfigReload.cfg` | pass (about 10k states, under 1 min) | `NoLeak`: every live string is owned by the running settings after any load, validation or reload, including refused and half-parsed files, breakpad objects and interface and extension arrays. `RefusedReloadChangesNothing`: a reload whose parse fails or that any validator refuses leaves the running settings, the listening sockets and every string the settings point to as they were, whatever the handlers before the refusing one would have changed (validate every handler, then reconfigure). The other half of "all or nothing", that an accepted reload applies the whole file, is false for this code (finding 7) and is not a passing property. |
| config_dangling | `MC_ConfigDangling.cfg` | violation | After one reload setting `ssl_cipher_list`, the running settings point at a freed string. |
| config_reload_crash | `MC_ConfigCrash.cfg` | violation | `NoCrash` fails: a server listening on an interface crashes when it reloads a file without `interfaces`. |
| badmalloc | `MC_BadMalloc.cfg` | pass | One thread: `RecursionDepthCounts`, the depth equals the calls inside the library; `NestedCallsNeverFail`, an allocation made while reporting a failure never fails. |
| badmalloc_race | `MC_BadMallocRace.cfg` | violation | Two threads: a lost update of `recursion_depth` lets a nested allocation fail. |

Every property of a passing run has a mutant in `PROJECT.json`. A mutant is
a plausible bug in a mapped definition, such as a dropped reset, an
off-by-one or a missing CAS. TLC finds the property violated under the
mutant.

## Findings

1. **Retry bound restarts** (`subdocument.cc:141`). `attempts` is a local
   of `subdoc_executor`. It is reset on every re-entry after EWOULDBLOCK,
   so the MAXIMUM_ATTEMPTS bound only holds between two suspensions.
2. **uint32 underflow in `subdoc_validator`** (`subdocument_validators.cc:38`).
   - The bug: `valuelen = bodylen - keylen - extlen - pathlen` wraps when
     `pathlen` is larger than what is left of the body.
   - The consequence: a mutation is accepted, and the executor computes
     the same `vallen` and reads past the packet.
   - The counterexample: keylen 1, extlen 3, pathlen 1, bodylen 4.
3. **`push_front` failure** (`part_002:62`).
   - The bug: the key stays in the map but not in the list.
   - It is then never reported or evicted.
   - A later hit on it splices `end()`.
   - When such keys fill a shard, `list.back()` is called on an empty list.
4. **Dangling `ssl_cipher_list`** (`config_parse.cc:1523`, and 1532 for
   `ssl_minimum_protocol`).
   - The bug: the reconfig handler keeps `new_settings`' pointer, and
     `free_settings(&new_settings)` then frees it.
   - The consequence: the server's setting is freed memory, and the next
     reload that sets it frees it again.
5. **Reload without `interfaces` crashes** (`config_parse.cc:1400`).
   - The bug: `dyna_reconfig_interfaces` is the one reconfig handler
     without a `has` check. It reads `new_settings->interfaces[ii]` for
     every running interface, and that array is NULL when the file has
     no `interfaces` key; `dyna_validate_interfaces` accepted such a file.
   - The counterexample: load a file with one interface, then reload a
     file that only sets `verbosity`.
   - Related NULL dereferences: the `strcmp` of hosts at 1109 when an
     interface has no host, and the `strcmp` of ssl certificates at 1375
     and 1384 when a reload removes `ssl`. They are listed as hazards.

6. **Data race on `recursion_depth`** (`part_004:94`). Lost updates
   between threads unbalance the recursion guard. Allocations inside a
   failure report can then fail; or, the other way, failure injection
   stops for good.
7. **A reload is not all or nothing** (`config_parse.cc:1168` and 1375).
   No run checks this. It was found while modelling and is recorded with
   the hazards.
   - Extension configs: the comment at 1168 says a new config must be NULL
     or equal to the old one. The code tests whether the running config
     is NULL. A reload adding a config to an extension started without
     one is therefore accepted, and no reconfig handler applies it. A
     reload leaving out a config the server has is refused.
   - Interface ssl: adding `ssl` to an interface without it is validated.
     `dyna_reconfig_iface_ssl` only changes interfaces that already have a
     certificate, so TLS is silently not enabled.
   - The refused half does hold: `RefusedReloadChangesNothing`.

## Bounds and why they are enough

- **Executor safety.**
  - Setup: two connections (symmetric model values), one key, client CAS
    0 (auto-retry) or a fixed wrong value, datatypes JSON,
    COMPRESSED_JSON and RAW.
  - Bounds: MAXIMUM_ATTEMPTS = 2, one command per connection, two external
    writes, one engine fault.
  - Why enough: with these, one command can exhaust its attempts, a
    conflict can hit both the allocate and the store step, and an
    EWOULDBLOCK or DISCONNECT can fall at any engine call. Every branch of
    the executor's switches is reached.
- **Executor liveness.**
  - Setup: one connection and two faults, without symmetry.
  - Why no symmetry: symmetry is unsound with liveness.
- **Validator.**
  - Setup: path limit 2 and at most 2 paths, standing for 1024 and 16;
    up to 3 specs, so that the cap is exceeded by one.
  - Why enough: path lengths 0, 1 and 3 cover empty, valid and too long.
    Cuts of 0..3 bytes cover a walker that stops inside a spec header.
  - The modulus: `UINT32` is 2^30. Only the wrap-around matters, not its
    size.
- **TopKeys.**
  - Setup: eight shards, `MaxKeys` 2, and four keys. Three of the keys
    share shard 0, so eviction happens.
  - Bounds: six updates and two clock ticks.

- **Config.**
  - Setup: the start-up load, then two reloads or validations. Each file
    has up to two entries with distinct keys; every key can take two
    values or `BAD`, and there is an unknown key.
  - Why enough: two operations suffice for a reload to refuse a static
    change and for a second reload to free a handed-over string again.
    Two entries suffice for a handler to fail after another allocated.
  - Interfaces: 13 values of `interfaces` (`IfaceValues`), each alone or
    with a verbosity change. They change each dynamic field, each static
    field, remove the ssl or the host, name a missing certificate file,
    disable both IP versions, give a bogus protocol, an out-of-range
    port, a repeated port, or a wrong type for the array or an element.
  - Every integer and boolean setting (`ScalarFiles`) is given a value
    other than the zero default (4096 MiB for `max_packet_size`, which
    wraps to 0) or `BAD`, alone or with a verbosity change. One start file
    gives four of them, so that a reload can be refused for a static one.
  - The other settings (`ExtraValues`, `BreakpadValues`,
    `ExtensionValues`) come alone, with a verbosity change, and (the
    strings) before a failing `threads`. Each has a changed value and each
    value its parser or validator refuses.
  - Start-up uses one of five files (`StartConfigs`), and the reloads use
    the others (`StartFiles` and `Files` are separate constants).
    - One start file sets every string, breakpad and an extension.
    - One listens on an interface; any reload without `interfaces` then
      crashes (finding 5), which is why the others have none.
    - One starts an extension without a module, which reaches the crash
      at `config_parse.cc:1164`.
    - No start file gives an extension a module without a config. With
      one, a reload adding a config is accepted and not applied (finding
      7). `RefusedReloadChangesNothing` is not about accepted reloads, so
      the case would add states and nothing checked.
  - Two-entry files list their keys in one order only (`Rank`), since
    the handlers of distinct keys touch distinct fields.
  - `MaxBufs` is 32, enough for the largest parse of a run.
  - Refused reloads are reached for every handler: files setting a static
    setting to a new value, values each validator refuses, and such a
    value with a verbosity change, which a reconfigure before validation
    would apply.
  - `RepeatedKeyFiles` in `MC_ConfigReload.tla` gives a key twice; with
    it, `NoLeak` fails (the hazard at `config_parse.cc:347`).
  - The crash run has two files and one reload.
  - Buffers are never reused, so a dangling pointer stays visible.

- **badmalloc.**
  - Bounds: a grace period of 1 (for 1000), four calls on one thread and
    three on two threads, and nesting depth 2.
  - Why enough: the grace period is exhausted, calls fail and nest, and
    two threads' loads and stores interleave.
  - The passing run is single-threaded on purpose. Its properties are what
    the code promises, and the race run shows they fail with two threads.

## Fairness

- **Executor liveness.** `FairSpec` assumes weak fairness of each
  connection's worker steps. The connection's worker thread runs a ready
  connection's state machine until it blocks. It also assumes weak
  fairness of `Notify`, because the engine contract requires
  `notify_io_complete` after every EWOULDBLOCK.
- **Never fair.** External writers and clients sending new commands.
- **Safety runs.** They use `Spec`, with no fairness.

## Not modelled

- **JSON operations.** subjson's path language and the JSON bytes are
  abstracted away.
- **Buffer sizes and the connection's dynamic buffer.** This is listed as
  a hazard.
- **The multi-path executors.** They are not in this tree.
- **The engine applying a store and then returning EWOULDBLOCK.** The
  model's engine parks a store before applying it. A store that is
  re-issued is therefore applied once. This is listed as a hazard.

- **Interface side effects outside this tree.** `calculate_maxconns`,
  `get_listening_port_instance` and the opening of sockets live in
  `memcached.c`; `Listen` and `listening` stand for their result.
  Interfaces on port 0, the `management` flag and the `protocol` value
  have no effect the model can observe and are only parsed.
- **Relative paths.** `get_absolute_file` is modelled for absolute
  paths; a `getcwd` failure is not.
- **The JSON text.** `config_load_file`, `cJSON_Parse` and
  `cJSON_PrintUnformatted` are abstracted: a file is a sequence of
  entries, a value of the wrong type is `BAD`, and `s->config` holds one
  printed string. The side effects of a setting on the rest of the server
  (`auth_set_privilege_debug`, `perform_callbacks`, the packet reader that
  uses `max_packet_size`) are outside this tree.
- **Negative sizes.** `connection_idle_time` and `bio_drain_buffer_sz`
  are cast from `int` to `size_t`; the model's files give non-negative
  values only, where the cast is the identity.
- **`CB_DISABLE_BREAKPAD` and `settings_init`.** The environment
  variable is taken to be unset. The running settings before the file
  is read are the zeroed struct, with `DEFAULT_THREADS` threads; this is
  from `memcached.cc`, which is not in this tree.
- **ioctl, allocator hooks and the index engine stub.** ioctl is a key
  dispatch into allocator and connection code outside this tree. The
  hooks are chosen at build time. Every operation of the stub engine
  aborts.

## Plan for further work

1. **Sub-document response and stats.** The `add_bin_header` failure
   path of `subdoc_response`, and the topkeys update made by the executor.
2. **Concurrent readers of the settings.** The worker threads read the
   strings that a reload frees (hazard at `config_parse.cc:1524`).
3. **Abstract specification of sub-document commands.** An abstract spec
   in which each command is one atomic read-modify-write. The executor
   would be shown to refine it.
