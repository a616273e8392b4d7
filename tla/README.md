# TLA+ models of neobolt's direct Bolt driver

This directory holds the TLA+ modules, TLC configurations and the
PROJECT.json index for `src/neobolt/direct.py`. That file is the
single-address Bolt client: connection pool, connection, responses and
wire framing.

## The system

| Part | Code (direct.py) | State | Operations |
|---|---|---|---|
| Outbox | `Outbox` 130-180 | byte buffer, chunk header positions | `write`, `chunk`, `view`, `clear` |
| Inbox | `Inbox` 182-270 | receive buffer, message generator | `_load_chunks`, `_yield_messages`; calls `on_error` (= `_set_defunct`) when `recv_into` returns 0 or raises |
| Connection | `Connection` 279-664 | socket, outbox, response deque, `_closed`, `_defunct`, creation time, `pool` back-reference | `init`/`hello`, `run`, `pull_all`, `discard_all`, `begin`, `commit`, `rollback`, `reset`, `send_all`, `fetch_message`, `fetch_all`, `_set_defunct`, `timedout`, `close`, `__del__` |
| Response | `Response` 825-880 | `complete`, handlers | `on_records`, `on_success`, `on_failure` (auto-RESET, then raise), `on_ignored` |
| Pool | `AbstractConnectionPool`, `ConnectionPool` 666-823 | dict address -> deque, RLock and Condition, `_closed`, size cap, acquisition timeout | `acquire_direct`, `release`, `deactivate`, `remove`, `close`, `closed`, `in_use_connection_count` |
| ServerInfo | `ServerInfo` 87-127 | address, protocol version, metadata (the agent) | `version_info`, `supports` |
| Connect | `_connect`, `_secure`, `_handshake`, `connect` 900-1080 | socket, offered and agreed version | TCP connect, optional TLS, version handshake, INIT/HELLO |

How they interact: user threads call `acquire_direct` and `release`. A
connection keeps a `pool` back-reference. When its I/O fails it calls
`pool.deactivate(address)` **from inside** its own call:
- `send_all` does this on a failed sendall;
- `fetch_message` does it on a failed receive;
- `_set_defunct` does it when the Inbox sees the socket closed.

`Connection.close()` itself calls `send_all` to send GOODBYE. Every pool
method closes connections under the pool's re-entrant lock. So the pool
and the connections call into each other re-entrantly: deactivate →
close → send_all → deactivate. CPython's reference counting adds one more
path. A connection that no deque and no thread still references is freed
at once, and its `__del__` calls `close()`.

The hard behaviours:
- interleavings of threads around the lock and the condition variable;
- a waiter that keeps its deque across `cond.wait`;
- the re-entrant pool calls;
- server failures at any point;
- expiry by lifetime;
- the acquisition deadline racing `notify_all`;
- on the connection side, callbacks that send RESET and drain the queue
  while the queue is being dispatched.

## Modules

### ConnectionPool.tla (the pool, with the connection paths that reach it)

State:
- `lock`: the thread inside a locked section of `acquire_direct`, or None.
- `poolClosed`: the pool's `_closed` flag.
- `connections`: the dict, mapping an address to a deque id.
- `dq`: the deques, as sequences of connection ids. They are kept apart
  from the dict because a thread can hold a deque that is no longer in
  the dict.
- `conn`: per connection, `alloc`, `addr`, `inUse`, `closed`,
  `defunct`, `expired`.
- `serverUp`: whether the server at an address answers.
- Per thread: `pc`, `held` (the acquired connection), `local` (the
  deque bound in `acquire_direct`), `target`, and membership in `late`
  (its acquisition deadline has passed).
- `valueError`: a history flag, set when deactivate raises ValueError.

Actions. Each locked section is one atomic step: every other section
needs `lock = None`.
- `acquire_direct` maps to `AcquireBegin` (the `closed()` check) and
  `EnterLock` (find or create the deque). The scan is one of
  `ScanTake`, `ScanConnect`, `ScanConnectFail` (the connector raises
  ServiceUnavailable, then `remove`), `ScanConnectError` (other connector
  errors), `ScanWait` and `ScanGiveUp`.
- The wait ends in `WaitTimeout` or `Resume`, the latter after
  `notify_all`.
- `DeadlinePasses` is time reaching the acquisition timeout.
- `Release` is `release` (clear `in_use`, `notify_all`).
- `SendFail` is `send_all`'s OSError path.
- `ReceiveFail` is the Inbox's `recv_into` returning 0, which runs
  `_set_defunct`.
- `DeactivateAgain` is `fetch_message`'s ServiceUnavailable handler, a
  second locked section.
- `PoolClose` is `close()`.
- `ServerDown`, `ServerUp` and `Expire` are the environment.

`deactivate`, `remove` and `Connection.close` are recursive state
transformers: `Deactivate`, `DeactivateLoop`, `RemoveAddr`, `CloseEach`
and `CloseConn`. They run inside the step that calls them, so a
re-entrant call is a nested application. `CloseConn` models the GOODBYE
path. When the server is gone, `send_all` calls `Deactivate` and
re-raises the OSError. `close()` does not catch that OSError, so the
connection stays unclosed, and the callers (`deactivate`, `remove`)
swallow the error. Every step ends in `Settle`, which applies `Collect`:
CPython frees unreferenced connections, closing each one (which may
re-enter the pool), and empties deques that nothing references.
This assumes reference counting frees a connection as soon as its last
reference goes. A Connection is in fact in a reference cycle
(`inbox.on_error = self._set_defunct` at direct.py:290, and each
Response's `connection`), so its `__del__` runs when the cyclic
collector runs. That can happen at any allocation, including inside a
locked section: in the same thread `close()` re-enters the pool
through the RLock, and in another thread it blocks on it.
Those later, arbitrary collection points are not modelled; see
"Not modelled".

Abstractions:
- Connection and deque ids are small sets, and the least free id is
  used.
- Timestamps become the booleans `expired` and `late`.
- Connector outcomes are chosen by `serverUp` and nondeterminism.

### PoolContract.tla (what the pool promises) and the refinement

State:
- `state`: each thread is idle, acquiring or holding.
- `owner`: the connection a thread holds.
- `dead`: the connections that may not be handed out.

Actions:
- `Request`;
- `Grant`: of a connection that is alive at the end of the step and
  owned by no one;
- `Refuse`;
- `GiveBack`;
- `Churn`: connections die at any time, and come (back) to life only
  while free.

`Answered` requires every request to be answered.

ConnectionPool instantiates the contract as `Contract`, with this
mapping:
- `pc` maps to `state`:
  - `idle` is idle;
  - `holding` and `redeactivate` are holding;
  - the rest is acquiring.
- `held` maps to `owner`.
- The closed, defunct, expired and unallocated connections map to
  `dead`.

`ImplementsContract` is the contract's specification, checked as a
property.

The pool size cap is deliberately not part of the contract. The code
does not keep it for live connections (run pool_live_cap).

### Connection.tla (one connection's request pipeline and its server)

State:
- `outbox`: the messages packed into the Outbox and not yet sent, each an
  id and a kind (`pull`, `reset`, `goodbye`, `other`). The RUN "BEGIN" of
  v1/v2 also carries its `extra` map: `bookmarks` and, in v1,
  `bookmark`; other fields are left out.
- `responses`: the `responses` deque. It holds records of an id and a
  class (`plain`, `commit` for CommitResponse, `reset` for the Response
  whose `on_failure` is `fail`), or None for GOODBYE.
- `wire`, `inbound`: the messages in flight each way.
- `dropped`: the server has closed the socket.
- `srvFailed`: the server is in its FAILED state.
- `failures`: the number of FAILURE replies sent so far (bounded).
- `protocol_version`: the agreed version. It never changes.
- `closed`, `defunct`: `_closed` and `_defunct`.
- `stack`: the fetch_all frames of the running call. A frame records
  the response whose `on_failure` called `reset()`, if any.
- `result`: how the last call ended: ok, or the exception raised.
- `skipped`: the responses whose FAILURE arrived but whose `on_failure`
  and `on_summary` handlers never ran.
- `nextId`: the id of the next request.

Actions:
- The appending calls are one step each: `Run`, `PullAll`,
  `DiscardAll`, `Begin(bs)`, `Commit`, `Rollback`. In v1/v2, `begin`,
  `commit` and `rollback` append a RUN + DISCARD_ALL pair, and
  `run("COMMIT")` gives a CommitResponse.
- `Begin(bs)` takes a bookmark list from `BookmarkLists`: lists of up to
  `MaxBookmarks` of "a:1", "b:2" and "z:x". In v1, `last_bookmark`
  (`LastBookmarkFrom`, a recursive fold of `LastBookmarkOfTwo`, which is
  `_last_bookmark`) runs first. When it raises ValueError, begin
  appends nothing.
- `SendAll` is `send_all`. `SendOutcomes` gives its results:
  - an empty view returns;
  - a closed or defunct connection raises ServiceUnavailable;
  - otherwise the Outbox is sent and cleared;
  - on a dropped socket, sendall may also raise OSError, which leaves
    the Outbox unchanged.
- `Reset` and `ResetCall` are `reset()`: append RESET, `send_all`, then
  push a fetch_all frame. `FetchAll` is the user's `fetch_all`.
- Each step of a running fetch_all is one of:
  - `FetchOnNone`: fetch_all's `response.complete` on a None head;
  - `FetchDead`: fetch_message's closed/defunct checks;
  - `ReadRecord`, `ReadSuccess`;
  - `ReadFailure`: `on_failure` runs `reset()`, a nested frame;
  - `ReadEof`: the Inbox sees the socket closed, and `_set_defunct`
    runs;
  - `FetchReturn`: the innermost frame finds the deque empty. A
    nested frame's return makes `on_failure` raise CypherError, or
    ProtocolError through `fail`.
- An exception unwinds every frame (`Unwind`). The failed responses
  owed in outer frames go into `skipped`.
- `Close` is `close()`: GOODBYE in v3, swallowing only
  ServiceUnavailable.
- The server (`ServerReply`, `ServerDrop`) answers in order. It streams
  RECORD then SUCCESS for PULL_ALL, may FAIL any request, IGNOREs
  while FAILED until a RESET, closes the socket on GOODBYE, and may
  drop the socket at any time.

The pool back-reference is left out: its calls are modelled in
ConnectionPool. Payloads, metadata and user handlers are abstracted
away.

### Connect.tla (connect, _connect, _secure, _handshake, INIT/HELLO)

State:
- The configuration, chosen in `Init`:
  - `n`, the number of resolved addresses (0..`MaxAddresses`);
  - `tls`, whether an SSL context is set;
  - `authOk`, whether `Connection.__init__` accepts the auth config.
- Per attempt:
  - `i`, the attempt's address;
  - `phase`, where connect is;
  - `sock`, the socket's state;
  - `version` and `initMsg`, the Connection's agreed version and the
    INIT or HELLO it sent.
- Histories:
  - `errors`, each attempt's exception (last_error is its last entry);
  - `outcome`, what connect returned or raised.
- The attempt's server:
  - `srvClosed`, whether it has closed its end;
  - `replyLen`, `reply` and `avail`, the handshake reply: its length,
    its value, and the bytes received but not yet read;
  - `initReply`, its answer to INIT/HELLO, and `agent`, the `server`
    entry of a SUCCESS's metadata, which `on_success` merges into
    `ServerInfo.metadata`.
- `supports_bytes` is `packer.supports_bytes`, which `init()`/`hello()`
  set after the reply.

Actions:
- `Attempt` is the loop over `resolver.addresses`, with `raise
  last_error` at the end. `Fail` is `except Exception as error:
  last_error = error`.
- `Connect` is `_connect`, and `Secure` is `_secure`.
- `_handshake` is split into:
  - `SendHandshake`: `sendall`;
  - `SelectReady`: the select loop ends when bytes or the end of the
    stream arrive;
  - `Recv`: the single `recv(4)` and every branch on its length and
    version;
  - `Build`: `Connection.__init__`.
- `InitSend` and `InitFetch` are `init()`/`hello()` with
  `InitResponse.on_failure`. On SUCCESS, `InitFetch` evaluates
  `server.supports("bytes")`, which may raise TypeError.
- The server replies in one or more segments (`ServerReply`), answers
  INIT/HELLO (`ServerInitReply`), or closes (`ServerClose`).

The version values are kept as integers, with 4 standing for every
unknown version. The pool's `ScanConnectError` covers everything connect
raises other than ServiceUnavailable, and the AttributeError that a None
from connect causes at `connection.pool = self`. It may fire whether or
not the server is up: a wrap_socket that fails with a plain OSError
(not an SSLError), for example, escapes `_secure` unconverted, with the
socket left open. `Connect`'s `Secure` models that path as the OSError
raised once the peer has closed the connection.

### ServerInfo.tla (the agent string and supports())

ServerInfo.tla holds operators only. Its state, the metadata, lives in
Connect.

Representation:
- An agent is None, or a record of its product (the text before `/`)
  and its version tokens (the rest, split at `.` after `-` is replaced
  by `.`).
- The string operations are represented by their result. The `int()`
  conversion of each token is modelled: single digits parse, words
  stay strings.

Operators:
- `VersionInfo` is `version_info()`.
- `TupleGE` is Python's tuple `>=` against `(3, 2)`. It returns
  "TypeError" when the first differing element is a string.
- `Supports` is `supports(feature)`.
- `Neo4jAtLeast32` is the reference from spec 3: raw bytes need Neo4j
  3.2 or later.

Connect's `Agents` lists the agents a server may report:
- none;
- another product;
- Neo4j 3.1.9, 3.2, 3.5.0 and 4.0.0-alpha01;
- `Neo4j/dev`.

### Framing.tla (Outbox and Inbox, back to back over one byte stream)

State:
- `ob` is the Outbox: its bytearray `data` and the offsets `header`,
  `start` and `end`. The offsets are the code's own 0-based values, and
  slicing follows Python's bytearray rules: slice assignment beyond the
  end appends, which is how the array grows past `capacity`.
- `wire` holds the bytes sent and not yet received.
- `ib` is the Inbox's `Unpackable` buffer (`data`, `used`) and the target
  `end` of the `receive()` in progress.
- History variables, kept only for the properties:
  - `written`: every message appended, as the writes that packed it;
  - `sent`: how many messages have been flushed;
  - `delivered`: the payloads the Inbox yielded.

Operators and actions:
- `WriteFrom` is `Outbox.write`'s loop, as a recursive operator over the
  Outbox record. `Chunk`, `View`, `Clear` and `OutboxInit` are the other
  methods.
- `AppendMessage` is `Connection._append`: `Packer.pack_struct`'s writes,
  then `chunk()` twice. The packer is PackStream's, outside this
  repository: a message is one or two writes of 1 to `MaxWriteLen`
  bytes.
- Payload byte n has value n, so a reassembled message can be compared
  byte for byte with what was written.
- `SendAll` is a successful `send_all`: the view goes out and the Outbox
  is cleared. Its failure paths are modelled in Connection.
- `Recv(n)` is one `recv_into` returning any n of the bytes asked for.
- `Pop` is everything from a completed `receive()` to the next socket
  read:
  - `pop_u16`;
  - for a nonzero length, `receive(size + 2)`: the chunk and the next
    prefix;
  - for the terminator, the yield to `_yield_messages`, which hands the
    payload on, resets the unpacker and asks the loader for the next
    prefix.

`Deframe` is the reference. It parses a byte stream the way the protocol
states the format, independently of the Inbox code.

Not here:
- the recv-returns-0 path, which is in Connection and ConnectionPool;
- decoding the payload (PackStream), including the RECORD size check;
- a `sendall` that raises.

## Runs

| Run | cfg | Expect | What it shows |
|---|---|---|---|
| pool_safety | MC_ConnectionPool.cfg | pass | 3 threads, 1 address, size 1, v3: in_use gives exclusive ownership across acquire, release, failures, deactivate and garbage collection (`ExclusiveOwnership`); plus `TypeOK`. That acquire hands out only live connections is what the refinement (`ImplementsContract`, run pool_liveness) checks. The cap is broken only across a deque that `remove()` orphaned, which run pool_live_cap shows. 329k distinct states, 42 s. |
| pool_liveness | MC_ConnectionPool_live.cfg | pass | 2 threads:<br>- every acquire returns or raises (`AcquireCompletes`), even when holders never release;<br>- the pool refines `PoolContract` (`ImplementsContract`).<br>24k states, 80 s. |
| pool_acquire_after_close | MC_ConnectionPool_closed.cfg | violation | `NoAcquireAfterClose`: `close()` between the `closed()` check and `with self.lock` does not stop the acquire. |
| pool_live_cap | MC_ConnectionPool_cap.cfg | violation | `LiveConnectionCap`: `remove()` pops a deque whose held connection stays open (its GOODBYE raised an OSError that `close()` does not catch). A fresh deque then lets another live connection be created, so two live connections exceed size 1. |
| pool_deactivate_valueerror | MC_ConnectionPool_deactivate.cfg | violation | `DeactivateNeverRaises`: 3 threads, size 3. Two idle connections and a server failure make deactivate re-enter through close → send_all → deactivate. The outer loop then calls `deque.remove` on a connection the inner call already removed. |
| conn_pipeline | MC_Connection.cfg | pass | Bolt v1 and v3 (chosen in `Init`), 4 user requests, up to 2 FAILUREs including a failing RESET (on_failure → reset → on_failure → reset):<br>- the deque stays aligned with the replies in flight, through failures, nested RESETs, failed sends and drops (`QueueMatchesWire`);<br>- a v1 RUN "BEGIN" whose bookmarks all end in an integer carries the one with the greatest number as `bookmark` (`BeginCarriesLatestBookmark`, spec 4.4);<br>- a CypherError leaves nothing queued and the server out of FAILED (`FailureLeavesConnectionReady`);<br>- every fetch_all started with an empty Outbox returns or raises (`FetchReturns`);<br>- plus `TypeOK`, which includes `defunct => closed`.<br>215k states, 26 s. |
| conn_terminal_callback | MC_Connection_callback.cfg | violation | `TerminalCallbackGuaranteed`: the server fails a request and then drops. The RESET that `on_failure` sends raises OSError, so the failed response's `on_failure`/`on_summary` handlers never run, against spec 4.5. |
| conn_goodbye_none | MC_Connection_goodbye.cfg | violation | `FetchAllNeverMeetsNone`: v3, no server failures. `close()` appends GOODBYE with a None response, which `_append` pushes onto the deque although spec 4.4 says a None response pushes nothing. A later fetch_all reads `.complete` on that None and raises AttributeError, before fetch_message could raise the closed connection's ServiceUnavailable. |
| framing_loopback | MC_Framing.cfg | pass | Max chunk 2 bytes, capacity 3, up to 2 messages of 1 or 2 writes of 1 to 3 bytes, every split of the stream by recv_into:<br>- each state of the Outbox view deframes into the pending messages, with chunks of 1 to max_chunk_size bytes and headers equal to their lengths (`ViewFramesPending`);<br>- a write that fits in a chunk is never split (`WriteNotSplit`);<br>- the Inbox yields exactly the payloads sent, in order (`InboxYieldsSent`), and eventually all of them (`SentIsDelivered`).<br>9.7k states. |
| connect_safety | MC_Connect.cfg | pass | Up to 2 addresses, TLS on or off, auth accepted or not:<br>- a returned Connection did INIT (v1/v2) or HELLO (v3) for the version the server agreed and got SUCCESS (`ReturnedConnectionReady`);<br>- connect raises only after every address, and raises the last attempt's error (`RaisesLastError`);<br>- connect ends when each server eventually answers or closes (`ConnectTerminates`);<br>- a returned connection encodes raw bytes exactly when its server is Neo4j 3.2 or later (`BytesIffNeo4j32`);<br>- plus `TypeOK`.<br>18k states. |
| connect_version_zero | MC_Connect_ConnectNeverReturnsNone.cfg | violation | `ConnectNeverReturnsNone`: agreed version 0 makes `_handshake` fall off its end. connect returns None without trying the next address, and the pool's `connection.pool = self` then fails. |
| connect_error_kinds | MC_Connect_ConnectErrorKinds.cfg | violation | `ConnectErrorKinds`: connect can raise AttributeError (socket() failed, so `s.close()` runs on None) or a raw OSError, outside spec 7's kinds. The OSError comes from `_handshake`'s sendall, or from `Connection.send_all` during INIT/HELLO, which re-raises it where spec 4.4 says ServiceUnavailable.<br>The agent `Neo4j/dev` also violates it: `supports("bytes")` raises TypeError after a successful HELLO, and connect re-raises it. |

Bounds:
- 3 threads are the fewest that give a holder, a waiter and a thread
  racing a `remove`.
- Pool size 1 makes the cap bite at once.
- 3 connection ids cover a held, an orphaned and a new connection.
- 2 deque ids cover the dict's deque and one orphan (or its
  replacement). When both ids are in use, a new deque cannot be created,
  so `EnterLock` waits; this bounds the model, it is not behaviour of the
  code.

Threads are a symmetry set in the safety run. The liveness run has no
symmetry.

Fairness (liveness run only):
- Strong fairness on taking the lock (`EnterLock`, `Resume`,
  `WaitTimeout`). The other locked sections all end within one step, so
  the lock is free infinitely often, and CPython's RLock does not starve
  a thread forever.
- Weak fairness on the scan steps: a locked section runs to its end.
- Weak fairness on `DeadlinePasses`: time advances.

Nothing is assumed about `release`: a user may hold a connection
forever, and the timeout alone must then end the wait.

Connection bounds and fairness:
- 4 user requests fit a transaction: BEGIN, RUN, PULL_ALL, COMMIT, or
  two v1 pairs.
- 1 or 2 FAILUREs reach a failure, the nested reset and, in the second,
  a failing RESET inside it.
- Bookmark lists of up to 2 of "a:1", "b:2", "z:x" cover the ones
  `last_bookmark` keeps, the ones it replaces, a ValueError, and a lone
  non-integer bookmark that it returns without parsing.
- `UserStep` caps ids at `UserRequests + MaxFailures`.
- `protocol_version` is fixed by the handshake. It is chosen in `Init`
  from `Versions`, so one run covers v1 and v3. v2 runs the same code
  as v1 except begin's `if self.protocol_version < 2` line (the
  singular `bookmark`), so v1 covers every v2 path.
- Deadlock checking is off. A fetch_all blocked on a socket with nothing
  to read is a real stop of the program, and `FetchReturns` is the
  property that judges it.
- Fairness:
  - weak on the fetch steps: the thread inside fetch_all keeps reading;
  - weak on `ServerReply`: the server answers what it has received.
  - No fairness on user calls or on drops.

Framing bounds and fairness:
- Max chunk size 2 with writes of 1 to 3 bytes covers all three cases:
  - a write that fits;
  - a write that fits in a chunk but not in what is left of it;
  - a write longer than a chunk.
- Capacity 3 makes the Outbox grow.
- Two messages cover:
  - two messages in one flush;
  - buffer reuse in the Inbox;
  - stale bytes left behind a cleared Outbox.
- Three messages (389k states, nearly 2 minutes) add no new branch.
- Deadlock checking is off: the Inbox blocks in `recv_into` once
  everything sent has been read, which is where the program waits for
  the server.
- Weak fairness on the reader: fetch_message keeps reading while a
  response is outstanding, and recv_into returns once bytes are there.
- No fairness on the writer.

Connect bounds and fairness:
- 2 addresses are enough for a failed attempt followed by another.
- Replies cover every branch of `_handshake`, including splits into 1 to
  4 bytes.
- Deadlock checking is off: connect returns or raises, and the model
  then stops.
- Weak fairness on the client steps: the calling thread runs connect.
- Weak fairness on the server: a server that accepted the TCP
  connection eventually answers or closes. Nothing in the code enforces
  this. A silent server hangs connect in the select loop, and with it
  the pool, which calls the connector under its lock (a hazard in
  PROJECT.json).

## Not modelled (yet), and the plan

Several failure paths raise with the attempt's socket still open:
- the recv and sendall OSErrors of `_handshake`;
- AuthError from `Connection.__init__`;
- an INIT/HELLO FAILURE.

`Connect` leaves these sockets in state "open", and PROJECT.json lists
them as a hazard. No run checks their closing: the code never promises
it, and the garbage collector eventually closes them.

The handshake reads its 4-byte reply with one `recv(4)`. `Connect` models
every length that recv may return, so a reply split across TCP segments
is rejected with ProtocolError. No run states that it should be accepted:
spec 4.3 itself lists "not exactly 4 bytes" as a ProtocolError outcome.
The project's 12 runs go to the GOODBYE divergence instead.

`run` and `begin` check their `metadata`, `timeout` and `mode`
arguments before anything is appended. The TypeError and
NotImplementedError they raise change no state, and the v3 `extra` map
is not read by any property, so both are left out. Two things a
property could say are left unchecked:
- `tx_timeout` is `int(1000 * timeout)`, which truncates where spec 4.4
  says `round(1000*seconds)`;
- `if timeout:` lets a timeout of 0 through under v<3 without the
  NotImplementedError.

Bookmark lists are given as lists. An iterator would be consumed by
v1's `last_bookmark` before `list(bookmarks)` reads it. That makes
`bookmarks` empty while `bookmark` is set.

Garbage collection is modelled as reference counting, applied at the
end of every step (`Collect`). Because each Connection is in a
reference cycle, CPython actually calls its `__del__` → `close()` when
the cyclic collector runs. That can be at an arbitrary later point,
possibly inside another thread's locked section, where `close()` then
blocks on the pool's RLock or, in the same thread, re-enters
`deactivate`/`remove` mid-iteration. Modelling that would need a
`Collect` step that can fire inside any locked section. It is left out:
the interleavings it adds are of the re-entrant kind that run
pool_deactivate_valueerror already shows.

TLS, DNS resolution, PackStream encoding and logging are out of scope:
they are pure I/O or pure conversion, with no concurrency. Packaging
(setup.py) is build metadata with no runtime behaviour.
