# Väkil: verification project

Väkil is a reverse proxy whose behaviour is decided by plugins: shared libraries
that hook into HTTP requests (served by Pingora), TCP connections and UDP
datagrams (served by Rama). These are TLA+ models of the code under `src/`, TLC
configurations that check them on small instances, and TLAPS proofs of the
properties that matter most for every value of the constants.

Source references are `crate/file:line` with `src/crates/` or `src/plugins/` left
out; `PROJECT.json` maps every definition to its lines.

    tlc -workers 2 -config MCHttpFlow.cfg MCHttpFlow      # a run
    tlapm HttpFlowProofs.tla                              # the proofs of a module

## 1. The system

| Component | State | Operations | What makes it correct |
|---|---|---|---|
| HTTP plugin chain, `vakil-runtime/http.rs`, behind the `ProxyHttp` adapter of `vakil-http` | per request: `HttpContext` (request with body, route, response), the URI, the Host header, what was sent and answered | `early_request_filter`, `request_filter`, `upstream_peer`, `upstream_request_filter`, the body and response filters; each calls a hook of every module in order | a request is sent where one route decision says, answered once and by the right party, and is not kept busy for ever |
| Plugin host, `vakil-plugin-host` | per library: handle, root module, HTTP/TCP/UDP module | `LoadedPlugin::load`, `Drop` | nothing runs in a library that is not loaded; whatever was loaded is shut down and closed, on every path |
| Runtime, `vakil-runtime/lib.rs` | the vector of plugins, the sorted chains, the services in a `JoinSet`, tasks inside hooks | `load_plugins`, `Runtime::build`, `PluginProxyHooks::from_loaded`, `Runtime::run` | hooks are called on live modules only, in priority order; teardown waits for the services |
| Runtime configuration, `vakil-runtime/lib.rs` | environment, overrides of the file | `from_env`, `parse_config_file` | a file is taken or refused as a whole, and wins over the environment |
| TCP service and chain, `vakil-l4`, `vakil-runtime/l4.rs` | per connection: context and its clone | accept, `tcp_connection_init`, upstream selection, relay | a connection goes where the plugins route it |
| UDP service and chain | one context for the socket, one per datagram | session start, datagram, upstream selection, session end | the same for datagrams |
| Sticky sessions plugin, `example-l4-sticky` | a static with the configuration or the error of its load; a table of assignments | `sticky_init`, `select_backend` | one backend per client and listener; modules agree on the configuration |
| `vakil-plugin-api`, `vakil-plugin-sys` | none | types and conversions | the vocabulary of the above |
| `example-http-mw` | a request counter that all requests share | `http_on_route`, `http_on_request_headers`; the others log | a number is used once; a request goes where its number says |
| `example-noop` | none | one callback for HTTP, TCP and UDP each | it answers `GET /local-reply` and changes nothing else |
| `vakil-cli` | none | `--config`, then build and run | the argument wins over the variable |
| `vakil-tests-common` | none | test support | not modelled |

How they interact. `vakil-cli` reads the configuration, builds the runtime (which
loads the plugins on the main thread) and runs it. `run` copies the modules into
`PluginProxyHooks`, one chain per protocol, and starts three services that call
the chains through function pointers from several threads. The copies hold raw
pointers into the libraries but no handle of them, so the libraries must stay open
until no service is left. Per request, Pingora calls the filters through
`VakilHttpProxy`; the filters hand the plugins a mutable context and read their
decision from it and from the `HookOutcome` they return.

What is hard in it: state read again after somebody else could change it (the
route, read in `upstream_peer` and once more for the Host header; L4 contexts that
are cloned before the hooks write to them); Pingora's retries, which run half of
the filters again over what the last attempt left; who answers first; failures
half way through loading; plugin data that make the host panic or wait (statuses, routes,
silent upstreams); raw pointers shared with threads during teardown; process
exit from a service's thread; in the sticky plugin, a clock that is read before the
lock is taken. `PROJECT.json` lists 39 such hazards with the line where each bites
and the properties that cover it.

## 2. Modules

    PluginLifecycle   <-- implemented by --   Runtime  -- extends -->  PluginHost
    HttpFlow          <-- implemented by --   ExampleHttp (and extended by it and HttpErr)
    TcpFlow           <-- extended by ----   ExampleTcp
    UdpFlow     StickyTable     RuntimeConfig
    Listing           <-- extended by ----   Runtime, RuntimeConfig

The theorems are in `<module>Proofs`, those about TcpFlow and UdpFlow in L4Proofs.

In HttpFlow, TcpFlow and UdpFlow a plugin is what any plugin may do: each hook call
chooses what it leaves in the context and which outcome it returns, `Err` included. In
HttpFlow it may leave any route, a response with any `u16` as status, and the request
with any body, without one or taken out (`Touched`): hooks get `&mut HttpContext`.
ExampleHttp and ExampleTcp put the repository's own plugins in their place.

**HttpFlow** is one downstream request. `phase` is the filter it is in, `at` the
module the filter's loop has reached; every call of a hook is a step. `ctx`,
`short_circuit`, `uri` are the code's variables; `peer`, `host`, `forwarded`,
`reply` are what Pingora is told, sends and receives; `selected` and `edit` (the body
when a hook last changed it) are history. `EarlyRequestFilter`, `OnRequestHeaders`, `OnLocalReply` and
`RequestFilterDone` are the request filter; `OnRoute*` and `NoUpstreamSelected` are
`upstream_peer`; `Connect`, `InsertHost` and `UpstreamRequestFilterDone` follow; the
body filters share `OnBody`. `Retry`, `UpstreamBroken` and `ClientGone` are what
Pingora does around them. Points a reader of the code may stumble over:
- `match_owned(.., |_| HookOutcome::default())` turns `Err` into `Continue`.
- `request_filter` rewrites the URI if the context has a route (http.rs:80), but
  `early_request_filter` has just reset it: no action corresponds to those lines.
- A response in `upstream_request_filter` is written to the client, and the request
  is sent upstream all the same: the filter returns `Ok(())`.
- `http_path.unwrap()` and the URI's `unwrap()` in `upstream_peer` panic for routes
  a plugin is free to make: `panicked_route`. Pingora unwraps the response header it makes
  of a plugin's status, which may be none of HTTP: `panicked_status`.
- A response with a 1xx status is not final: the one Pingora writes later follows it
  (`Replied`, `Written`).
- `HttpPeer::new` (http.rs:52) keeps Pingora's default options, which have no timeouts:
  a request may wait for a silent upstream for ever (`Waiting`).
- Bodies are sequences of chunk numbers, so that order, loss and repetition show, and what
  a hook writes is `Bodies`; header bytes and response bodies are left out. What hooks make of
  the body goes to the next hook only: `request_body_filter` gives Pingora nothing back.

Each hook's step is an operator of what the hook leaves and returns (`Hook(c, o)`), and
everything else is `HostStep`. **HttpErr** adds a record of the hooks' errors, for the
sentence of docs/ABI.md about them; HttpFlow cannot tell `Err` from `Continue`.

**ExampleHttp** is HttpFlow with plugins that do what `example-http-mw` and
`example-noop` do, in chains of any order and length. `MwOnRoute` draws a number from
`REQUEST_COUNTER` and selects one of three hosts by it, `OtherRequest` is a request on
another thread that draws one too, `PluginEvent` is every other callback. `SetRoute` is `HttpContext::set_route`. `mine`
and `others` are histories of the numbers, `mine` with the upstream decided on for each. That the plugins do no more than HttpFlow allows
(`ImplementsHttpFlow`) is checked and proved; the identity is the refinement mapping.
Where the no-op plugin's `unwrap` would abort, no step is given.

**PluginHost** is loading and unloading. `load_plugins` goes through `plugin_paths`, of
which it has reached `at`; `EntryFails` is a directory entry that cannot be read, also
behind the directory's last library. Each library takes a slot. `stage` is how
far `LoadedPlugin::load` is with the last one: symbol, manifest, then one
`load_block!` per protocol. `Abandon` is every `?` and `bail!` in it: the locals go, root
before library in two steps (`CloseAbandoned`), then the vector of loaded plugins. `DropOrder` is
`LoadedPlugin::drop` followed by the fields in the order of their declaration. Why a
load fails is a choice between outcomes.

**Runtime** extends it with `run`, the services, the chains and the workers inside
hooks. `Sorted` is the stable `sort_by_key`: `Ahead` says which modules come before
which, and `Listing` puts them in a row. Who can be inside hooks at once is
`RuntimeAssumption`: the HTTP service has one thread (`Server::new(Some(Opt::default()))`,
lib.rs:149, reads no configuration) and its hooks do not await, one task runs the UDP hooks, but each
TCP connection is a task of its own on Tokio's threads. `ProcessExit` is Pingora's
`process::exit` after a signal, from the thread of `run_forever`.

**PluginLifecycle** is what a plugin may rely on: absent, loading, ready, stopping,
unloaded, in this order; hooks are called only while it is ready, and it is not
stopped under a hook.

**Listing** lists a finite set in a given order. It puts at place `k` the element that
has `k - 1` others before it, so no recursion is needed and what it returns can be
proved. The stable sort of the chains and the filter of the path lists are listings.

**TcpFlow** and **UdpFlow** are the connection and the datagram loop up to the choice
of an upstream. Behind it comes a relay that no execution reaches: the upstream is
read from a context that was not given to the hooks, so it is always absent
(section 5); L4Proofs proves it. `TcpFlow` stops there, and `UdpFlow` has the sending step although it
never fires. **ExampleTcp** puts the no-op and the sticky plugin in TcpFlow's chain: the
former's `unwrap` of a payload that `on_connect` never has aborts the process.

**StickyTable** is the plugin's static and table. `sticky_init` of a module is one
step, because it holds the lock of the static throughout. `select_backend` is two: it
reads the clock before it takes the table's lock, so `SelectBackend` and the steps
that hold the lock are separate and callers overtake each other. In this version no
exported hook calls `select_backend`; its callers are the plugin's tests. An
overflowing `now + ttl` panics and poisons the lock: `AssignPanics`, `LockPanics`.
A load finds any of `Files`: the configuration file may be edited, appear or vanish
before a module loads it. `StickyShutdown` frees a module and leaves the static alone.

**RuntimeConfig** is `main` of the command line (`Main`), the parser, one line per
step, and the merge (`FromEnv`). `ParsePluginPaths` lists the entries of a value that
are not blank. A line enters as
its key and value: splitting at `=` and `;`, quotes and white space are part of the
input, and a `Blank` entry is one with nothing but white space. If neither
`--config` nor `VAKIL_CONFIG` is given, the parser is not called, which has the outcome of an
empty file.

## 3. Runs

| Run | Instance | States | Shows |
|---|---|---|---|
| `http` | 3 chains of up to 2 modules (none; one that only answers before one that answers and routes; one that routes and sees bodies), 2 upstreams (one TLS), statuses 0, 103 and 200, hooks that empty the body or take the request, 2 attempts, 2 request chunks | 113 k | routing and answering hold whatever plugins do, and a request is answered, ends or waits for a silent peer |
| `examples` | the two HTTP plugins alone and in both orders, 3 hosts (one that does not resolve), 2 attempts, 5 numbers | 4.2 k | each forwarded request is the one its number says; the refinement of HttpFlow |
| `runtime` | 3 configurations (file/missing/file, a directory of 2, file/unreadable), 2 slots, 2 priorities, one worker per protocol | 388 k | loading, serving, teardown; the refinement of PluginLifecycle |
| `sticky` | 2 modules, 2 callers, 2 listeners, 2 clients, 8 files, clock up to 3 | 589 k | answers are sticky under overtaking, modules agree |
| `config` | every file of up to 3 lines out of 9 as `--config` or none, 3 values of the variable, 2 environments | 9.2 k | the parser against a definition over the whole file |
| seven runs that find a violation | see section 5 | | disagreements of code and documents |

What the properties say is written above each of them in the modules. The ones that
took thought:
- `ForwardedAsSelected`: address, TLS choice, Host and URI of a forwarded request
  stem from one `RouteDecision`, although the code takes them from the context at
  two moments and a retry starts from what the last attempt left.
- `HostUnwrapSafe`: the `unwrap` at http.rs:161 cannot panic. It rests on no hook
  being called between `upstream_peer` and the insertion of the Host header.
- `ResponseStopsChain`, `AnsweredBeforeRouting`, `LocalAnswerWins`, `RejectionFinal`,
  `EndedAnswered`: who answers, and that an answer is final. The exceptions are named: a client
  that left, the two panics, and a plugin's 1xx status, behind which another answer comes or
  (from `request_filter`) nothing.
- `HookOnLiveModule` and `ImplementsLifecycle`: no thread is in a hook of a plugin
  that is being stopped. The safety comment at vakil-runtime/lib.rs:88 claims it and
  only the loop over `join_next` in `run` provides it.
- `LoadedShutDownFirst`, `NothingLeftOpen`, `NoRootAfterClose`: on every way out.
- `BuiltWithAllLoaded`: a runtime has every library of every configured path that exists, and each
  directory was read to its end. A path that does not exist is skipped, against docs/ABI.md:38
  (section 5), and the property says so.
- `ForwardedByNumber`, `NumbersUnique`: the middleware is asked again for a retry, over
  the route of the attempt before, while other requests draw from the same counter. The former
  says nothing of which host a number stands for: code and crate documentation differ
  in that (section 5).
- `LocalReplyKept`, `AlwaysRouted`: both plugins answer `GET /local-reply` in two
  callbacks; whichever is first, the answer stays the only one and no number is drawn.
- `NearerReply`: nothing a hook leaves or returns, and no retry, takes an unanswered request
  back to where it was.
- `BodySeenInOrder`: the host only appends to the body that the hooks share. Behind what a hook
  last left there, or what an attempt began with, are exactly the chunks read since, in
  order, whoever edits the body, takes the request out or puts one back. A retry
  appends the replayed chunks to the old ones.
- `AcceptsGoodFiles`: the outcome does not depend on which line is met first.
- `StickyAnswers`: a client is told one backend per listener for ever, because the
  choice after an eviction is the same hash over the same pool. `KeptWhileFresh`: a
  caller with an old clock reading evicts nothing that is still fresh.

Every property of a passing run has a mutant, a variant of one definition as a
plausible bug would make it, kept next to the original and listed in
`PROJECT.json`; TLC finds the property violated with it.

Bounds. The runs finish in seconds, so that every mutant can be run too; the proofs
carry the properties to all values of the constants. Two modules are enough to have one
before and one after any module. Two upstreams tell a TLS one from a plain one and a
stale one from a new one; that an address does not resolve or a path is no URI path has the
effect of a route without a path, which the plugins may leave, and `examples` has a host
that does not resolve. Of the statuses one is none of HTTP, one is interim and one is final; they
differ in nothing else. Emptying the body is the edit that moves the chunks behind it
to another place; other edits are the proof's. Two attempts let one attempt meet the leftovers of another; two chunks
show order and repetition. Five numbers let every host be drawn first and other requests
come between two attempts. Two slots let one library fail while another one is loaded.
Three clock values let an entry with a TTL of 1 be made, expire and be made again behind
a caller with an old reading. `Threads` of the sticky run are symmetric: nothing but
their being different is used. `MaxTries` stands for Pingora's limit of retries;
`MaxChunks`, `MaxCount`, `MaxDatagrams`, `MaxTime`, `MaxInstant` and `Slots` are named
bounds too. A counter that wraps around after 2^64 requests is beyond them.

Deadlock is not checked in any run: requests end, processes exit, parsers return and
the sticky callers' clock stops.

Fairness. `http` assumes `WF_vars(OwnStep)` of one request: hooks are synchronous and
return, and Tokio polls a task that waits for nobody. Nothing is assumed of the network, in
either direction, nor of which outcome is chosen. So `EventuallyReplied` is that a
request is answered or ends unless, from some point on, it waits for a peer that stays silent.
`TeardownCompletes` assumes `WF_vars(Host)`: the main thread, which loads and drops
synchronously, goes on. Nothing is assumed of services or workers.

## 4. Proofs

TLAPS proves, for every value of the constants that satisfies the module's named
assumption:

- **HttpFlowProofs.** `TypeCorrect`, `HostNeverPanics`, `ForwardingConsistent` from
  `Invariance`. The two properties are not inductive: that the Host header is the
  selected one needs that from `upstream_peer` until the header is inserted the route
  in the context is still the selected one, and that peer and URI stay those of
  `selected` afterwards, however the context changes. `SelectionInv` says this.
  `AnswerPrecedesRouting`, `NoSilentEnd`, `LocalAnswerPrevails` from
  `AnswerInvariance`; `AnswerInv` says who may have answered in each phase, for instance that
  no answer exists before `request_filter` ended; a 1xx status is no final answer in any of
  them. From it follows the action property
  `RejectionStops`. `ChainStops` needs the type invariant and that a pending local reply belongs to
  a module of the chain. `BodyInOrder` from `BodyInv`, for every set `Bodies` of what hooks write:
  whatever a hook leaves starts a new history, each chunk extends it by one, and a retry, which
  counts chunks from 1 again, starts another one.
  `NoCircles`: until the request is answered, each step begins a new attempt, or goes on to a
  later place in the attempt (`Place`, which counts the pieces of the body that were read), or to
  a later module, or to the local reply of the same one; and all of these are bounded. This is
  the part of `EventuallyReplied` that does not need fairness.
- **ExampleHttpProofs.** `PluginsImplementHttpFlow`: every step of the plugins is one
  HttpFlow's hooks may take, so all theorems of HttpFlowProofs hold of them.
  `NumbersStayUnique` needs that every number drawn is below the counter
  (`NumberInv`). `LocalReplyStays` needs `LocalInv`: at each point of the loop the answer
  is not made, pending, or final. `RoutedAlways` and `NumberDecides` come from `RouteInv`, which says
  that from `upstream_peer` on the selected route is that of the last number, together with HttpFlow's
  `SelectionInv`, which takes it from there to the wire. Neither uses which upstream `HostOf` gives a
  number, only that it is one without TLS.
- **PluginHostProofs.** `RootGoesFirst`, `ShutDownFirst`, `AllClosed`, `BuiltComplete`
  from `HostInvariance`. `HostInv` is a conjunction of named parts: slots are loaded in
  order (`InOrder`), the one being loaded is open (`LoadingOpen`) and has its earlier
  modules initialised (`ExportsLive`), later ones are unused (`Untouched`), what the drop has not
  reached is intact (`Kept`), what it has passed is closed, and the one it is at has
  had exactly the steps before `drop` (`DroppedSteps`); `NotDropping` ties this to the phase.
  An abandoned library has lost its root before it is closed. `BuiltComplete` needs
  `PathsRead`: no path that was reached is one that cannot be read.
  `ModulesExported`: a library has modules only of protocols it exports. `TeardownIsFinite`:
  a teardown of `n` plugins takes `5n + 1` steps of the host and nothing else happens in it
  (`StepsLeft`), which leaves only the main thread's fairness to `TeardownCompletes`.
- **ListingProofs.** `ListingFacts`: a listing has every element of the set at one place, in the
  order asked for. The numbers of elements before each element are all different, and there
  are as many as elements, so each place is taken once (`CountsOnto`, from the library's theorem
  about injections between finite sets of one size).
- **RuntimeProofs.** `RunsHost`: every behaviour of Runtime is one of PluginHost, so
  the results about the host hold in the running system (`UnloadsSafely`).
  `RuntimeInvariance`: `RuntimeInv` with `HostInv` and `OnlyExported`. `HookOnLiveModule` is
  not inductive: that a worker enters a live module needs that the chains hold live
  modules only (`ChainInOrder`), and that the module stays live needs that nothing is
  dropped while a worker is inside. `HookInChain` puts a worker that is in a hook into a
  service that runs, and `PluginsHeld` says that plugins go only after all services have
  ended. From it follow `RuntimeTypes`, `HooksOnLive` and `ChainsOrdered`; the latter also
  needs that `Ahead` is a strict order (`AheadOrders`) and, by `HostInv`, that modules are live
  in every slot that exports them when the load is complete.
  `RefinesLifecycle`: the refinement of PluginLifecycle, one lemma per kind of step.
  `OpenLibrary` maps to Open, closing an abandoned library to Fail, the last
  `load_block!` to Ready, the first step of a drop to Stop and its last to Unload,
  entering and leaving a hook to Call and Return, or to a stutter if another worker is in
  the same plugin; every other step is a stutter.
- **StickyTableProofs.** All properties of the run, from `TableInvariance`. `ConfigInv` says
  that the configuration is the translation of one accepted file; it never changes again
  (`ConfigStep`), so the hash's choice for a key is a constant, and `ChoiceInv` says
  that every entry and every answer is that choice. `AnswersStick` follows. `FreshStays`
  needs besides that a caller's reading is in the past, and that a caller replaces an entry only
  if its backend is not in the pool, which `ChoiceInv` excludes.
- **RuntimeConfigProofs.** `FilesAsAWhole`: the lines read so far are good, no key came
  twice, and an override is there exactly if its key came (`ReadInv`). `PrecedenceKept`: each
  override holds the value of its key's line (`OverridesRead`), and listing the entries that
  are not blank is selecting them (`PathsFiltered`, from `ListingFacts`).
- **L4Proofs.** `TcpNeverRelays`: every connection whose plugins were called is refused.
  `UdpEndsAtFirst`: no datagram is forwarded or followed by another. So the models may end
  where the relay begins.

The assumptions are the modules' named ones. They say that the constants have the types
the code gives them (an environment has the four keys, a path list is a sequence), that
`None` is none of their values, and of plugins and files nothing but their types.

The proofs are one step per action, and per conjunct where an action disturbs several.
The strengthenings of HttpFlow, PluginHost, Runtime and ExampleHttp were checked with TLC before
they were proved.

Every safety property of a passing run is proved. Only model-checked: the liveness properties
(`EventuallyReplied`, `TeardownCompletes`), which are beyond this prover: it proves that their
steps run out, but not that one is always enabled; and the counterexamples of section 5.

## 5. Where documents and code differ

Each is a run whose one property states a sentence of the repository and which TLC refutes.

| Run | Property | The code |
|---|---|---|
| `err_fails_chain` | `ErrFailsChain` (docs/ABI.md:184) | an `Err` of a hook counts as `Continue`, and the request is forwarded (http.rs:103, and 30, 141, 171) |
| `body_hook_sees_chunk` | `BodyHookSeesChunk` (docs/ABI.md:126) | body hooks are shown all that was read so far (http.rs:253) |
| `shutdown_before_unload` | `ShutdownBeforeUnload` (docs/ABI.md:61) | if the second module of a library fails to initialise, the first is not shut down (vakil-plugin-host/lib.rs:165) |
| `access_serialized` | `AccessSerialized` (vakil-runtime/lib.rs:90) | two TCP connections, tasks on two of Tokio's threads, are in hooks of one module instance (vakil-runtime/lib.rs:90) |
| `tcp_route` | `TcpRouteHonoured` (docs/ABI.md:141) | hooks write to a clone, and every connection is refused (vakil-l4/lib.rs:95) |
| `noop_panics` | `NoHookPanics` (vakil-plugin-api/lib.rs:32) | the no-op plugin unwraps the payload in `on_connect`, where there is none: the first TCP connection aborts the process (example-noop/lib.rs:125) |
| `udp_route` | `UdpRouteHonoured` (docs/ABI.md:155) | hooks write to `curr_ctx`, `udp_ctx` is read: the first datagram ends the service (vakil-l4/lib.rs:200) |

Seen while modelling, without a run: a request answered in `upstream_request_filter` is
sent upstream all the same (http.rs:190; docs/ABI.md:127 leaves open whether it should be).
A body that a hook edits is not what the upstream gets: `request_body_filter` copies chunks into
the context and nothing back (http.rs:140, 253), while docs/ABI.md:124 lets hooks mutate bodies. A
response whose status is none of HTTP panics in Pingora (http.rs:123, 191).
A silent upstream keeps its request for ever (http.rs:52).
On a signal the process exits without any `shutdown` (vakil-runtime/lib.rs:202), while
docs/ABI.md:61 has the host call it before terminating. A configured path that does not
exist is skipped (vakil-runtime/lib.rs:330), while docs/ABI.md:38 makes it a startup error;
`BuiltWithAllLoaded` excepts it. The middleware's crate documentation (example-http-mw/lib.rs:5-8)
tells of two upstreams, for even and odd numbers, and a number per request; the code has three, by
the number modulo 3, and a retry draws a new number. After a retry body hooks see the replayed
chunks behind the old ones.
No call of `on_half_close` exists.

## 6. Not modelled

The TCP relay with its data and close hooks, and what follows a UDP send: no execution reaches
them, because the upstream is never the one a hook selected (L4Proofs). The bytes of headers and
of response bodies, logging, and the conversions of `vakil-plugin-sys`. Version comparison in
`validate_manifest` (a choice between its outcomes). Several requests at once in one
model: they share nothing but the chain, which is constant, and the plugins' own
state; of the repository's plugins only the middleware has some that its hooks use,
and ExampleHttp has the other requests that draw from it. The sticky plugin's building of a
route from a backend, which nothing calls. The no-op plugin's UDP callbacks, which log and
return `Continue`, a case of UdpFlow's hooks. Test support.

## 7. Plan

The core came first: the request path (HttpFlow), then loading and teardown
(PluginHost, Runtime, PluginLifecycle), the L4 services, the sticky plugin and the
configuration; then the repository's plugins in the chains, the command line, and the
proofs about all of them. Next:

1. Models: the TCP relay with its two directions and `try_join!`, once connections get as far;
   an HTTP run with three attempts.
2. Theorems: for StickyTable, that an accepted
   file gives each listener one pool under any order of its lines.
