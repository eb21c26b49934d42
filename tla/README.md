# A TLA+ model of db-iam-auth-emulator-proxy

The program emulates the IAM login of cloud databases. It hands out fixture
credentials over HTTP in the manner of AWS, Google and Azure, accepts MySQL and
PostgreSQL logins that present them, logs in upstream with a static backend
account, and relays bytes. This directory holds TLA+ modules for its core,
TLC configurations that check them on small instances, and TLAPS proofs of the
invariants for all instances. Paths below are relative to `src/`.

## 1. Inventory

| Part | State | Operations | Hard because of |
|---|---|---|---|
| PostgreSQL sessions (`iamproxy/postgres.go`) | one goroutine per connection; `Emulator.cancels` shared by all | startup, TLS, password, upstream login, handoff, relay; CancelRequest | another connection reads the map at any moment; pairs of different upstreams may coincide; every step can fail with an upstream connection open |
| In-memory connections (`iamproxy/memconn.go`) | per direction: bytes, two closed flags, two deadlines, a channel that is replaced on every change | `Read`, `Write`, `Close`, `SetDeadline` | hand-made condition variable: lost wakeups, stale timers, partial writes |
| Lifecycle (`iamproxy/server.go`) | bound listeners, routes, semaphores, wait group, `done` | `Start`, `serve`, `accept`, `DialContext`, `Close` | partial failure of `Start`; shutdown while slots are full and dials are in flight |
| Relay (`iamproxy/server.go`) | two copying goroutines; the login deadline until it is removed | handoff, `relay` | one direction blocked on a peer that does nothing; a deadline that outlives the login; closing both ends while data is on its way |
| Credential service (`identity.go`, `aws.go`, `http.go`) | token registry, IMDSv2 tokens, signing key | issuing endpoints, `Validate` | time windows, tenants, names and grants have to agree across endpoints written separately |
| Configuration (`config.go`) | principals, listeners; the maps of a `Validate` call | `LoadConfig`, `Validate`, `Granted` | separation of principals rests on it; one pass over the entries has to find every conflict; it runs twice |
| Startup and routing (`server.go`) | certificate, bound addresses, `routes` | `Start` up to `serve` | binding changes the addresses that were validated, certified and are routed |
| MySQL sessions (`mysql.go`) | one goroutine per connection, then two | login, capability agreement, `myRelay` | an answer injected into a stream another goroutine writes |
| End-to-end harness and its command (`internal/e2e`, `cmd/...-e2e`) | proxy process, containers, directory, the channel `proxyDone` | builtins of a script, `close` | one-shot channel shared by two readers; every step can fail half done |
| Dial helpers, fake database | - | - | stateless, or the environment of the sessions |

How they interact: `Start` validates the configuration, binds, and runs one
accept loop per endpoint; a loop starts a session goroutine per connection; a
session calls `service.Validate`, dials upstream and calls `relay`, or
`myRelay` for MySQL;
sessions of the in-memory listeners read and write through `memBuffer`; the
HTTP handlers put tokens where `Validate` looks for them; `Close` cancels one
context that all of them see.

`PROJECT.json` lists the hazards at their lines, with the property that would
catch each.

## 2. Modules

| Module | Models | Uses |
|---|---|---|
| `PostgresSession` | `servePostgres`, `pgStartup`, `pgPassword`, `pgCancel`, `Emulator.cancels` | |
| `MemBuffer` | `memBuffer` and the `memConn` calls that reach it | |
| `Emulator` | `Start`, `serve`, `accept`, `DialContext`, `memListener`, `Close` | |
| `Relay` | the handoff at the end of `servePostgres`, `relay` and the two connections it joins | |
| `Credentials` | issuing endpoints, `Validate` for three providers, the IMDSv2 token map | `LoginPolicy` |
| `MySQLSession` | `serveMySQL`, `myRelay`; the MySQL side of `internal/fakedb` as its upstream | |
| `Startup` | `LoadConfig`, `Config.Validate`, the proxy's command, `Start` up to `serve`, `serverCertificate`, `routes` | |
| `Harness` | the runner's command, `RunFile`, `startDatabase`, `startProxy`, `close` | |
| `LoginPolicy` | abstract: when a session may be opened at all | |
| `PostgresSessionProofs`, `MemBufferProofs`, `EmulatorProofs`, `RelayProofs`, `CredentialsProofs`, `MySQLSessionProofs`, `StartupProofs`, `HarnessProofs` | theorems about the module each is named after | library theorems on sequences, functions and finite sets |
| `MC_*` | instances for TLC | |

Operators named `...WithoutDefer`, `...Silently`, `...Unchecked` and the like, introduced
by "Defect for P", are variants of an action with a plausible bug in it. No
specification uses them. Putting one in the place of the action it varies makes
TLC report P violated; `PROJECT.json` pairs them under "mutants".

### PostgresSession

`stage[c]` is the point the goroutine of connection `c` has reached. A stage
ends at a read from or write to the client, a call that can block, or an access
to the shared map, so that other connections can act between any two of them.
`front[c]` is the client connection with its 15 s deadline (`armed`, `expired`,
`free` once `SetDeadline` removed it). Reads can fail at any
time (`IOFail`): the client is gone, late, or sends something `pgStartup` or
`pgPassword` refuses. A relay lasts until one end is gone; `Relay` opens it up.

The code closes an upstream connection in three ways, and the model keeps them
apart. `deferred[c]` says whether the goroutine has registered a deferred
`Close` (after `Hijack`, or in `pgCancel` after the dial). `Leave` runs it if
so, and closes the client connection, as the accept loop does. `Return(c)` is a
return that closes nothing by itself, `CloseReturn(c)` one after an explicit
`backend.Close` (a failed `SyncConn` or `Hijack`); `RelayEnd` is the relay's
own closing. `NoBackendLeak` thus depends on which of them each exit takes.

Upstreams are the environment. `FreshKey` assumes that one upstream never hands
out a PID/secret pair twice; different upstreams may hand out equal pairs.
Without the assumption the deferred `Delete` of an old session could remove the
entry of a new one with its pair. PostgreSQL picks secrets at random, so the
assumption is sound there; `internal/fakedb` uses one constant pair.

### MemBuffer

Each action is one critical section of `memBuffer.mu`. The channel in
`b.changed` is not modelled as a value: what matters is whether the channel a
waiter holds has been closed, which is membership of `woken`. `timer[t]` is the
deadline the waiter passed to `wait`, and does not follow later changes of the
deadline. A write larger than the room left appends what fits, broadcasts and
waits in one action, since it holds the mutex throughout; it waits on the
channel that broadcast has just made, so it does not wake itself.
A byte is the pair of its writer and its number, so loss, repetition and
reordering are visible. A writer told that `n` bytes were written goes on from
byte `n + 1`.

### Emulator

`Bind` takes the endpoints in the order `Start` does (TCP, in-memory, HTTP) and
may be replaced by `StartFail` at any point. A TCP client can be queued by the
kernel from `net.Listen` on; an in-memory dial is a rendezvous of the dialler's
select with the loop's `Accept`. `Acquire`, `Abandon`, `Release` and
`CloseConn` are the semaphore's send, the context's case, and the two halves of
the session's deferred function, in their order.

### Relay

The model begins where the login is over and the client connection `a` still
has the login's deadline, which may pass at any moment (`Expire`). `Handoff` is
`SetDeadline(time.Time{})`, after which even a deadline that has passed counts
no more, and the start of the two copiers. A connection is two bounded buffers,
of which only the fill is kept: buffers and `io.Copy` do not reorder, and
`MemBuffer` shows that for the in-memory ones. `io.Copy` is external and holds
at most one chunk between its read and its write. A peer that has read
everything closes in order (`PeerClose`): what it sent can be read, then EOF. A
peer that dies, or closes with data unread, resets the connection
(`PeerAbort`), and so does data that arrives at a closed end; then reads fail
at once. `sent` and `passed` count what a peer has sent and what was written to
it, which is what `LastWordsDelivered` compares.

### Credentials and LoginPolicy

A token is a record of what validation compares; `sig` says whether the
signature fits the rest. Handlers touch shared state in one critical section
each, so a request is one action. AWS tokens are signed by clients with any date
and life. `Start` refuses two listeners with one dial address, so a signed host
and port name one listener. User names are tuples: `googleUsername` drops the
host for MySQL and the service-account suffix for PostgreSQL, which is how two
emails can become one name. `ConfigValid` is the part of `Config.Validate` that
rules this out among principals with a grant for the same listener. Changes of
letter case are left out.

`LoginPolicy` knows entitlements (principal, listener, name, time window) and
sessions, and lets a session begin only by an entitlement in its window. The
refinement mapping of `Credentials` computes the entitlements each token
carries. `KeepsPolicy` is the abstract specification under that mapping, and
`EntitlementsHonoured` its converse: what the mapping says a token entitles to,
`Validate` admits, in every second of the window. Together they say that the
entitlements are exact. Neither says which of several principals with the same
client ID or refresh token an endpoint serves; nothing promises that.

An AWS client first gets a key pair from the IMDSv2 endpoint, with a session
token of that endpoint, or from the ECS endpoint, with the authorization token
of the principal if it has one (`awsKeys`). `fixture` is the part of the
configuration that decides which principal an endpoint serves, chosen in `Init`.

### MySQLSession

MySQL sessions share nothing, so there is one. `wants` are the framing
capabilities of the client's response, `serves` those of the upstream, `agreed`
what go-mysql and the upstream settled on (`Negotiate`, external; the code reads
it back by `myNegotiated`); all choices are enumerated. go-mysql
asks for `CLIENT_DEPRECATE_EOF` and `CLIENT_QUERY_ATTRIBUTES` by itself, which
the code relies on by not setting them (`NotSettable`, an assumption on
`AskedByDefault`). In the relay a command is its packets and an answer two
fragments, which `io.Copy` may carry in separate turns; the pump's own answer is
two writes to the same connection. The client waits for an answer before it
sends the next command (`Window = 1`), as the protocol has it. With `Window = 2`
TLC finds `AnswersInOrder` violated: the answer to COM_CHANGE_USER overtakes,
or lands inside, the answer to the command before it. Nothing promises
otherwise, so this is a hazard with a note and not a finding.

### Startup

One action per turn of a loop of `Validate`, with the maps it fills as
variables, then the steps of `Start`. The command runs `Validate` twice, the
second time on what the first left. An address is a host and a port; `Resolve`
is the kernel's answer to `localhost`, and binding picks any free port for port
0, so the address read back differs from the one that was validated.
`WellConfigured` says over pairs of entries what the single pass with maps is
to decide. What a failed `Start` closes is in `Emulator`.

### Harness

A script calls the builtins in any order and a builtin that fails ends it, as
Starlark has no way to catch an error. Docker may fail before or after it
created a container. `proxyDone` counts the values in the channel; `waiter` is
the goroutine in `cmd.Wait`, which sends one.

## 3. Runs

| Run | Checks | Instance and why it is enough |
|---|---|---|
| `PostgresSession_safety` | cancel map against live sessions, cancels against listeners, leaks | 3 connections, 2 listeners with different upstreams, 2 pairs: two sessions and a CancelRequest, with equal pairs on both listeners; symmetric in connections and in pairs |
| `PostgresSession_liveness` | `HandshakeEnds` | 2 connections; no symmetry |
| `PostgresSession_exposed` | finding, below | 2 connections |
| `MemBuffer` | order, EOF, wakeups; `CloseUnblocks`, `DeadlineUnblocks` | 1 reader, 2 writers, a 2-byte buffer, reads and writes of 1 and 2 bytes, 2 bytes per writer, a clock of 2: bytes of both writers in the buffer at once, reads that take a part of it, writes that do not fit and are split, deadlines set, passed, moved and removed |
| `Emulator` | slots, owners, `Done`, failed `Start`; `Close` and dials end | one listener over TCP and in memory, one HTTP endpoint, one slot per loop, 3 connections: one served, one held, one waiting |
| `Relay` | the login deadline ends no session, last words are passed on; `SecondFollowsFirst`, `EndsForReadingPeers` | 2 chunks per buffer, 4 per peer: a peer can close with data in its buffer and in `io.Copy`, and the buffers on the way to a peer that does not read can be full, in both directions |
| `Relay_stalled` | finding, below | as above |
| `Credentials` | refinement of `LoginPolicy` and its converse, backend accounts, `ImdsTokensHonoured` | 2 principals with equal short names and equal backend accounts, 6 listeners of 3 providers and 2 tenants, 2 credentials in circulation, 2 sessions, a clock that outlasts every token; refresh tokens, client IDs and secrets differ, or are the same for both |
| `MySQLSession` | framing, commands and answers in order; login and relay end | 3 framing capabilities, one of each kind (asked for by default or not, settable or not), all subsets on both sides; up to 3 commands of 3 kinds, so that an intercepted one has a neighbour on either side |
| `Startup` | `Validate` against `WellConfigured`, routes, certificate, bound addresses | about 7700 configurations under 4 options: two listeners over 5 addresses and 3 hostnames, with ports that meet ephemeral ones; two principals over backend accounts, emails, grants and AWS keys; every field wrong once |
| `Harness` | clean after success, order of removal; `close` ends | 2 scenarios, 3 kinds of database |
| `Harness_exit` | finding, below | 1 scenario |

`CHECK_DEADLOCK FALSE` stands where the system may stop: all connections
finished, an emulator closed or started, a command at its end, or the bound of
the clock reached.

### Fairness

Assumed is only that goroutines which can run do, that time passes, and that
a call on a closed or expired connection returns. In detail: `PostgresSession`
has weak fairness on the steps that wait for no client (the upstream steps have
time limits of their own: 10 s for connect and sync, 3 s for the cancel dial),
on the deadline, and on failing I/O; `MySQLSession` likewise, and on each
goroutine of its relay. `MemBuffer` has it on waiters that were woken or whose
timer fired, and not on the clock: its properties begin where a deadline has
passed. `Harness` has it on the runner, whose calls have time limits or wait for
the process, on the goroutine in `cmd.Wait`, and on the exit of a killed
process; a process that is only interrupted may live on. `Emulator` has it on loops with a
ready select, on the shutdown goroutine and on servers whose listener is closed;
not on session handlers, which may never return. `Relay` has it on both copiers
and the session goroutine. Clients, peers and upstreams owe nothing; that peers
read is a hypothesis of `EndsForReadingPeers`.

### Findings

1. **A cancel can come too early** (`PostgresSession_exposed`).
   `servePostgres` writes BackendKeyData and ReadyForQuery before it stores the
   pair. A CancelRequest that is handled in between is ignored, although
   `ARCHITECTURE.md:45` says exposed pairs "are mapped to its configured
   upstream for cancellation". Storing before line 264 would close the gap.
2. **A stalled peer keeps a session** (`Relay_stalled`). `server.go:203` says
   "Relayed sessions end when either side closes." When one peer stops reading
   and the buffers towards it are full, the copy into it blocks in `Write` and
   never reads the other side's EOF. `EndsForReadingPeers` shows
   the sentence is right for peers that read.
3. **The runner hangs when the proxy dies early** (`Harness_exit`). The exit of
   the proxy is sent once. When it comes before `/healthz` answers, `startProxy`
   receives it and fails without resetting `h.proxy`; `close` then waits for
   another value that never comes, and removes nothing, although
   `README.md:162-164` says the runner cleans up "on success or failure".
   `CloseFinishes` shows that `close` ends in every other case. Resetting
   `h.proxy` at `services.go:260` would mend it.

Also seen: a container that `docker run` created before it failed is not
removed, since its name is noted only on success (`services.go:81-84`);
`azureTenantFor` gives a principal tokens for one tenant only, so a
grant in a second tenant cannot be used; the Google token registry is never
pruned; a listener configured as `localhost:port` and bound to TCP is routed by
its resolved address only. The first is listed among the hazards; the others
contradict no document.

## 4. Proofs

`PostgresSessionProofs` holds for all sets of connections, listeners, upstreams
and pairs, from `PostgresAssumption` (the listener's upstream is an upstream,
`None` is none of them) and the freshness in `Connect`. The two statements about
the map are not inductive alone: `Store` overwrites an entry and `Unmap` erases
one, so that no other session may own it. `IInv` adds that a session has a pair
exactly from `ConnectConfig` on (`HasKey`), that its upstream issued it
(`KeyIssued`) to this session only (`KeyUnique`), and, for cancels, that a
loaded target is the listener's own upstream and the pair one of its sessions'
(`CancelTarget`). Most actions touch none of this; `Quiet` names them and
`QuietPreserves` deals with them at once, the rest have a lemma each. Results:
`TypeCorrect`, `RelayedSessionsCancellable`, `NoStaleEntries`,
`CancelsStayWithListener`. `BackendsClosed` needs an invariant of its own
(`AllOwned`): there is no upstream connection in the stages before
`ConnectConfig`, and a deferred `Close` is registered in all those after
`Hijack` and in `pgCancel` after the dial. So a plain `Return` is safe in both
groups (`SafeReturn`); between them only `CloseReturn` is, and the proof goes
through every exit to see that it is the one taken there.

`MemBufferProofs` holds for every buffer limit, all sizes, and any number of
readers and writers, from `BufferAssumption`. `IInv` is the types, the two
properties, and `LeftPositive` (a waiter still has something to do), which makes
a woken call behave as a fresh one. `InOrderOnce` says by position which bytes a
sequence holds (`OnceInOrder`), so that it needs no induction: a write appends a
run of one writer's next bytes (`ConcatBytes`), a read moves a prefix from one
half of the same sequence to the other (`SplitBytes`). Results: `Bounded`,
`WakeupsNotLost`, `EofIsLast`, `BytesOnceInOrder`.

`EmulatorProofs` holds for any endpoints, any finite set of connections and any
capacity, from `EmulatorAssumption`. The four safety properties need each other
and three facts: what is open while `Start` binds is recorded in its closers
(`StartStages`), the shutdown goroutine has closed things in order
(`ShutdownOrder`), and a loop and the connection it holds point at each other
(`Owners`). That a semaphore counts its sessions exactly needs the cardinality
theorems. Results: `TypesHold`, `SlotsExact`, `NoOrphanEver`, `DoneQuiet`,
`FailedStartLeavesNone`.

`RelayProofs` holds for any buffer size and any number of chunks. `NoDeadline`
says that the copiers run only once the deadline is off, so that an end has one
cause left, which `EndsHaveCause` carries from the copiers to the session's
goroutine. `Balanced` accounts for every chunk sent (unread, held by `io.Copy`
or passed on) until the copy has ended, and `Drained` says that once a copy has
ended, whichever it is, everything from a peer that closed in order has been
passed on to one that is still there. `Progress` ties the closed connections to the session's goroutine.
Results: `TypesHold`, `NeverEndsALiveSession`, `LastWordsReachThePeer`.

`CredentialsProofs` holds for every configuration with `ConfigValid`, which is
what `Config.Validate` checks, and any clients, who may alter any field of a
token. `IInv` says what the issuing endpoints put into each store. On it rest
`AccountsDisjoint`, `ImdsHonoured`, `HonoursEntitlements` and the refinement `ImplementsPolicy`: what a
new token carries is legal (`GoogleLegal`, `AzureLegal`, `AwsLegal`), a token
that passes `Validate` carries the session it opens, and every other step
leaves the abstract state alone or adds legal entitlements.

`MySQLSessionProofs` has three parts. `FramingHolds` is the algebra of the
negotiation, for any capabilities (`NegotiateExact`). `UpstreamHolds` is for any
number of commands and any `Window`: `PumpInv` says that packets on their way
are in the order sent and behind what has been run, and, the part that is easy
to miss, that none due before one the upstream was given is missing (`NoGaps`),
which follows for a packet that is being forwarded only from everything being
accounted for while the pump lives (`Accounted`). Then what the upstream reads
as a command is one, whole (`WholeCommand`). `AnswersHold` is under
`Window = 1`, without which the property is false (see above): `AnswersInv` adds
that what is on its way belongs to the last command and that as long as a packet
of it is, `io.Copy` has nothing to write (`OneAnswer`). `AllAnswered` turns the
client's count of answers into a statement about positions.

`StartupProofs` holds for any number of listeners and principals, from
`StartupAssumption`: configurations have the fields of a `Config` (`IsConfig`),
ports are positive and `None` is no address. `ValidateInv` describes what the
maps hold after each turn of each loop (`SeenListeners`, `SeenPrincipals`), that
a turn without a conflict keeps all pairs so far free of one, and that the
second pass sees what the first accepted. `BindInv`, `CertInv` and `RouteInv`
follow the addresses through binding, certificate and routes. Results:
`ValidatesExactly`, `LoopbackOnly`, `RoutesAreExact`, `HostsCertified`.

`HarnessProofs` holds for any number of scenarios and kinds of database. A
process runs only while `h.proxy` is set and no exit is in the channel
(`ProcsOwned`); nothing created is forgotten unless an error was recorded
(`NothingLost`), and no recorded error is lost (`Reported`). Results:
`ProxyAlwaysGoneFirst`, `CleanOnSuccess`.

With these every invariant the passing runs check has a theorem, and so has the
refinement. TLC checked each inductive invariant on the run's instance before
it was proved. Checked by TLC only: the liveness properties (`HandshakeEnds`,
`CloseUnblocks`, `DeadlineUnblocks`, `CloseReturns`, `DialsEnd`,
`SecondFollowsFirst`, `EndsForReadingPeers`, `LoginEnds`, `RelayReturns`,
`CloseFinishes`), since fairness is outside the prover; and that the findings
are violations.

## 5. Not modelled

- Bytes on the wire: packet layout, JWT and SigV4 encodings, TLS itself, YAML.
- Endpoints that only describe the emulator: health, OpenID discovery, ECS task
  metadata, lists of roles and tenants. They read constants and change nothing.
- Key generation and signing of the certificate; only its names are modelled.
- Dial helpers: stateless adapters.
- The PostgreSQL side of the fake database, which is a test double of the
  upstream that `PostgresSession` has as its environment.
- `set_env`, `spawn` and `query` of the harness beyond their success or
  failure, and `-check`, which only parses scenario files.
- Letter case of user names.

## 6. Plan

1. Action properties, such as that the pair a cancel looks up is never replaced
   while its session is relayed, and what closing may never reopen, with their
   proofs from the invariants above.
2. Composition: `Relay` over two `MemBuffer` pairs, and `Emulator` with
   `PostgresSession` handlers, so that shutdown meets live sessions.
