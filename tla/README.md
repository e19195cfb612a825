# Verification of tggp

`tggp` is an MTProto/SOCKS5/Hysteria2 proxy server written in Go, with an
Android VPN client. This directory holds TLA+ modules that model it from the
start of the program to the last byte of a relay, TLC configurations that check
them on small instances, and TLAPS proofs for instances of any size. `PROJECT.json` lists the components,
runs, mutants, source lines, findings, hazards and theorems.

To run a check: `tlc -config MCServer_session.cfg MCServer`; to check the
proofs of a module: `tlapm ServerProofs.tla`.

## 1. The system

| part | source | state it keeps | operations |
|---|---|---|---|
| stats | `stats/stats.go` | four atomic counters, a map name -> two atomic counters under a mutex | `ConnOpen`, `ConnClose`, `AddBytesIn/Out`, `GET /stats` |
| TCP proxy | `proxy/server.go` | per connection: two sockets, a deadline, the channel `done`, three goroutines | accept, peek, handshake, dial, relay, deferred closes |
| SOCKS5 proxy | `proxy/socks5.go` | as above, without statistics | negotiation, dial, relay |
| MTProto handshakes | `proxy/obfuscated.go`, `proxy/faketls.go` | two cipher streams, a read buffer | match a secret, answer, frame and unframe |
| Hysteria2 server | `proxy/hysteria2.go` | QUIC connections and streams | authenticate, one relay per stream |
| DC table, configuration, main | `dc/`, `config/`, `cmd/mtproxy` | read-only after start | lookup, parsing, start-up |
| Android Go client | `android/go/hysteria2.go` | `mu`, `running`, `cancelFunc`, one session | `Start`, `Stop`, `IsRunning`, a local SOCKS5 listener |
| Android VPN service | `ProxyVpnService.kt` | `isRunning`, TUN descriptor, worker | connect, disconnect, destroy |
| Android TUN worker | `TunWorker.kt` | map of TCP flows | SYN, data, FIN, RST from the device; data and EOF from SOCKS5 |
| Android UI | `MainActivity.kt` | button and status text | click, status broadcast |

How they interact: a handler of the TCP proxy calls `ConnOpen`, has its two
copier goroutines call `AddBytesIn` and `AddBytesOut`, and calls `ConnClose` as
a deferred call; an HTTP goroutine reads the same counters. On the phone the
button sends intents to the service, whose coroutines call `Start` and `Stop`
of the Go client and create the worker, whose flows are SOCKS5 clients of the
Go client, whose streams end at the Hysteria2 server.

What is hard about it: every relay has three threads and two remote ends that
stop in any order; the first direction to end ends the session; deferred calls
run in an order that matters; one mutex is held while an HTTP page is written,
another while a QUIC connection is set up; flags are written by goroutines and
coroutines that nothing orders. A handshake is read from a stream that is cut
anywhere, after a detection that has already swallowed some of it; what follows
is deciphered with keystreams that must advance by exactly the bytes that pass;
the client is told of success only through two hops. `hazards` in `PROJECT.json` lists these places
with the property that covers each.

## 2. Modules

| module | models | uses |
|---|---|---|
| `Stats` | `stats/stats.go` | |
| `Server` | `proxy/server.go`, relay of `proxy/socks5.go` | extends `Stats` and implements it |
| `ByteStream` | what one direction of a connection promises | |
| `Framing` | `fakeTLSConn`, `obfuscatedConn` | implements `ByteStream`, in both directions |
| `Entry` | protocol detection, the three handshakes, `dc/list.go` | extends `Framing` |
| `Startup` | `config/config.go`, `cmd/mtproxy/main.go`, the four listeners | |
| `Hy2` | `proxy/hysteria2.go` and the streams of `android/go/hysteria2.go` | |
| `GoClient` | `Start`, `Stop` and sessions of `android/go/hysteria2.go` | |
| `VpnService` | `ProxyVpnService.kt` and the button of `MainActivity.kt` | extends `GoClient` and implements it |
| `TunWorker` | `TunWorker.kt`, one key of its table of flows | |
| `MCServer`, `MCEntry`, `MCStartup` | the clients and environments of the runs | |
| `StatsProofs`, `ServerProofs`, `FramingProofs`, `EntryProofs`, `StartupProofs`, `Hy2Proofs`, `VpnServiceProofs`, `TunWorkerProofs` | theorems about the module of that name (`VpnServiceProofs`: also about `GoClient`) | |

`Server` has a connection whose handshake is a verdict and whose bytes are
counted; `Entry` has the bytes of the handshake and ends where the relay of
`Server` begins. `GoClient` has the life of a client and its sessions; `Hy2` one
session of it, with the streams it carries and the server at the other end.

### Stats

Every atomic operation is a step. `call[c]` is the next step of connection
`c`'s `ConnOpen` or `ConnClose`; `page[s]` is a `/stats` page being rendered.
`secretStats()` with its Lock and Unlock is one step, as its critical section
touches only the map (`LookupStep`); the page's critical section is many steps,
with `mu` held (`ScrapeLock` .. `ScrapeUnlock`). `StatsSpec` lets any
connection be opened and closed at any time: it is the abstract specification
of the component, which `Server` is shown to implement. `MayReport` says what
`Stats` expects of the callers of `AddBytesIn/Out`. Left out: `/health`, the
uptime, and the two byte loads of the page.

### Server

`pc[c]` is the handler goroutine: `peek`, `hello` (any of the three
handshakes), `dial`, `init` (64 bytes to the DC), `clear` (the deadline),
`connopen`, `wait` (`<-done`), then the deferred calls `connclose`, `closedc`,
`closeraw`. `cop[c][d]` is the copier of direction `d` (`up`: client to DC):
`read`/`write` is `io.Copy`, then `count`, `shut` (`CloseWrite`, up only),
`send` (`done <-`). SOCKS5 connections take the same points without `init`,
`clear`, `connopen`, `count` and `connclose`. `raw` and `dcs` are the proxy's
sockets, `deadline` that of `rawConn`.

The remote ends are `peer` (still open, FIN, a TLS record that is not
ApplicationData, reset), `sent` (bytes sent), `outq` (bytes not read yet).
Bytes are numbers, not contents; a byte of a fake-TLS client counts as sent
when its record is complete. What a handshake reads is `hello` (nothing, part,
all) and its verdict is a choice (`HandshakeOK`, `HandshakeReject`), which
`Entry` makes.

### ByteStream and Framing

`ByteStream` is the abstract specification: two sequences, of which `read` is
always a prefix of `written`. In `Framing` a byte of a direction is its number.
A record stands for `len` bytes from number `from`, enciphered at position `key`
of the keystream; `Decipher` gives the numbers back if the reader stands at that
position and `Garbage` if not. `encPos` is `c.enc`, `readBuf` is `c.readBuf`,
`ReadBuffered`, `ReadRecord` and `ReadEnds` are the paths of `fakeTLSConn.Read`,
`ReadStream` that of `obfuscatedConn.Read`; `WriteCall` is a `Write` of
`io.Copy`, `WriteChunk` one turn of its loop, `decPos` is `c.dec`. The client's
own wrapper is external. It may send empty records and records of another type,
and its end may cut a record off.

### Entry

One connection. `client` is a script, what it sends and what it wants; `wire` is
what has arrived; `at` and `need` are what the handler reads next with
`io.ReadFull`, one point for every read of `handle` and the three handshakes.
`Peek` takes any part of what has arrived, as `io.ReadAtLeast(.., 1)` does, and
either gives it back (`prependConn`) or hands it to `socks5Handshake`, which
drops what it cannot use. `ClientHello` parses the record with the positions of
the code. `Match` is the loop over the secrets, `DcGet` the lookup with its
16-bit arithmetic. A byte stands for itself except in the enciphered init: its
last three stand for the secret it was made with, the tag and the DC number, and
an init comes out as garbage under another secret. An early return is
`Close(cause)`. After an MTProto handshake the connection goes on with the
actions of `Framing` (`Streaming`), so the two specifications are checked as one:
the keystream that `Enter` has moved by the init is the one the relay uses.

What relates the bytes of a script to what its client asks for is stated apart from
the handler, as the assumption `ClientsAssumption` on the scripts: `SocksScript`,
`ObfsScript` and `TlsScript` are the formats of the three protocols, position by
position. TLC evaluates it on the 85 clients of the run, the proofs use it for any.

### Startup

`main` is the main goroutine, one step for each call of `main()` and each turn of
`Load`'s loop over `SECRETS`; `stats`, `hy2`, `socks` are the goroutines of the
other listeners. `Die` is `log.Fatal`, in whichever goroutine. Texts are
sequences of characters with the hexadecimal digits as numbers, so
`parseSecret`, `HexString`, the trimming, the lower case and the default name are
modelled by what they do. What a part of `SECRETS` is meant to be is stated apart
from the parser (`EnvironmentsAssumption`): it is blank, or spells a secret after the
usage text (`Writes`: spaces around a name, a colon and the digits of the secret, in
either case), or does neither (`IsNoSecret`). The ports that others use are part of the environment;
`Busy` adds those this program has bound itself.

### Hy2

`auth`, `srv` and `word` are `sendAuth`, `hy2HandleConn` and what is said on the
first stream; `live` are the ends that still have the connection. A flow is a
record: `h` is `handleSocks5Client`, `s` is `hy2HandleStream` with
`hy2HandleTCP`, `cop` the four copiers, `done` the two channels, `q` the bytes in
the six pipes between app and target, `fin` the pipes that their writer has
ended. Of quic-go (external) the model keeps what the code depends on: `Close`
ends the write side only and does not wake a `Write` that waits for the reader
(`CopyBlock`, `WriteBroken`), behind whose bytes the FIN then waits (`FinSent`); a
stream counts against `MaxIncomingStreams` until the server has read its FIN and the
server's own FIN has been acknowledged (`FinAcked`, `Returned`); the FIN may come with
the last byte or with the read after it; reads and writes fail when the connection is
lost, which the other end learns later. Each pipe has a window of its own; the window
of the connection is left out.

### GoClient

`at[t]` is the point of a thread in `Start` or `Stop`, `mu` the thread that
holds the mutex over the dial and the authentication. A start that passes the
check uses a session `s` with a context, a QUIC connection, a goroutine
`serve[s]` (listen, accept loop, `running.Store(false)`, `CloseWithError`) and
a listener that another goroutine closes when the context is cancelled. A session
can fail by itself at any time: the port is taken, `Accept` fails, the connection is
lost. The SOCKS5 clients of the listener are in `Hy2`.

### VpnService

A job is one request, from the click to the end of the coroutine that serves
it, or one `onDestroy`; `step[j]` is its next step: `sent` (or `queued`, when
the service is about to be destroyed and the next instance will get it),
`launched`, the steps of `connect` (`start`, `establish`, `worker`, `run`,
`connected`) and of `cleanup` (`c1` .. `c5`), `after` (`stopSelf` or
`serviceScope.cancel`). The job is also the thread that calls the Go client, so
a coroutine that waits in `start` or `stop` stands at a point of `GoClient`,
and so does the main thread in `onDestroy`. `isRunning` and the Go client
belong to the process, `tunPfd`, `tunWorker` and the scope to an instance. What
the system does (queueing intents, creating and destroying the service,
revoking the VPN) is external. Every step of a connect may throw. `TunnelIsHeld`
is what the service itself holds when it is connected: descriptor, worker, and a
session that nobody has cancelled. It is not that the session serves: `start` returns
before the port is bound, and the service never asks again. `RunningMeansUp` therefore
says what `isRunning` does guarantee (what is held, and that for as long as the Go
client's `running` is true it is the held session that serves, with its port bound
if it accepts), and not what the user is told (see the end of section 3).

### TunWorker

One key is modelled: `table` is `flows[key]`. A flow stands for one SYN that
`handleSyn` did not ignore; `syn[f]` is its coroutine (connect, SOCKS5
handshake, `flows[key] = flow`, SYN-ACK, launch), `relay[f]` the relay it
launches, `sock[f]` its socket. `seg[w]` is a coroutine that writes a segment:
write, set `clientSeq`, ACK. `CloseFlow` is `closeFlow(key)`: whatever the key
maps to is removed, cancelled and closed. The device (external) opens one
connection after the other, repeats SYNs and segments that have no answer, and
resets a SYN-ACK it does not know. The read loop ends when it sees that `running` is
false or its descriptor closed, and at any exception of a read (`ReadLoopFails`): then
the flows go on and nothing the device sends is handled any more (`DevUnheard`). What the server sends, packet layout and the
contents of the handshake are left out. A flow that a second SYN has replaced
in the table is closed by nobody but its own end of stream, which then closes
the newer one: the properties speak of the entry of the table, not of it.

## 3. Runs

| run | bounds | shows |
|---|---|---|
| `Stats_counters` | 2 connections, 2 names, 1 scraper, for ever | counters exact under all interleavings, a page nobody disturbs adds up, a call that needs `mu` is served |
| `MCServer_session` | 1 connection of each kind, 2 bytes per direction | the whole life of a session; every step is a step of `Stats`; stalled handshakes, goroutines and sessions end |
| `MCServer_activecut` | 1 connection, 1 byte | violation, see below |
| `MCEntry_entry` | 85 clients, 3 bytes each way after the handshake | a client gets what it asks for or is refused for a cause; its bytes come through in order; a FIN loses the cut record only |
| `MCStartup_startup` | 1908 environments | `SECRETS` are read as they are meant, the program dies only for a cause, links can be read back, a start settles |
| `Hy2_relay` | 1 flow, 2 bytes, 1 fault | what an app is told is true; bytes arrive before the end does; goroutines end and streams are given back, but for a writer whose reader has gone; the end of the connection ends everything; the authentication returns |
| `Hy2_streams` | 2 flows, room for 1 stream | violation, see below |
| `GoClient_client` | 2 threads, 2 sessions | overlapping starts and stops; Stop returns; a cancelled session ends |
| `VpnService_requests` | 3 jobs, at most 2 of them at once | `isRunning` and what is held agree when requests do not overlap; coroutines and `onDestroy` end in any case |
| `VpnService_hasty` | 2 jobs | violation, see below |
| `TunWorker_flows` | 2 connections with one key, 2 SYNs handled, 1 segment being written | no dead entry is in the table; while the TUN is read no stale one stays and a repeated SYN is answered; the table empties after stop, and what is closed ends, also when the read loop has failed |
| `TunWorker_nextseq` | 1 flow, 2 segments | violation, see below |

Why the bounds are enough:

* `Stats`, `Server`. A connection shares nothing with another one but the
  counters, so one connection shows a session and two show every conflict on a
  counter (that sessions drive them as `Stats_counters` does is `StatsSpec`,
  checked in `session` and proved for any number). A name counter is touched by
  connections of one name only. Two bytes per direction with `Window = 1` let a
  copier be idle, hold a byte, and be blocked by a receiver that does not read,
  in each direction, while the other ends. `session` has no scraper: that
  `ConnClose`, which runs before the sockets are closed, gets `mu` although pages
  hold it is `CallsReturn` of `counters`.
* `Framing`, `Entry`. `InitLen = 8` leaves room for each of its parts.
  With `MaxRecord = 1` and `BufLen = 2` a `Write` of two bytes makes two records,
  and a record of three bytes does not fit in one `Read`; `MaxBytes = 3` makes an
  empty, a short and a long record meet. The clients are SOCKS5 on both ports,
  eager and waiting, with every place of the method 0 in its list and every kind
  of address; obfuscated inits with known and unknown secrets, tags and DC
  numbers, among them 65537 and -32768, and with first bytes that another
  protocol has; ClientHellos with and without extensions, host names in any case,
  twice, cut off and too long. Their bytes arrive in every partition that `Peek`
  can tell apart, and every client may stop anywhere. That `Framing` implements
  `ByteStream` is proved for all lengths.
* `Startup`. `KeyLen = 2`, `NameLen = 3`: lengths matter only against these. Every
  list of up to two of 27 parts (with and without prefix, name, capitals, spaces,
  domain; too short, too long, odd, not hexadecimal; keys whose digits begin with
  dd and ee), and every combination of ports, of those others use, of a password,
  a broken certificate and a used UDP port, for one secret.
* `Hy2`. Flows share the connection and the count of streams only, so one flow
  shows a relay; `streams` has two for the count. With `Window = 1` two bytes fill a
  pipe and keep its writer waiting, in either direction; `MaxFaults = 1` is a reset of
  either remote end or a loss of the connection, at any step. The type invariant, `SuccessIsEarned` and
  `SlotLostForCause` are proved for any number of each.
* `GoClient`. Two sessions are one that ends and its successor.
* `VpnService`. Three jobs are a whole life and the next one (a connect that
  fails, the `onDestroy` it leads to, a connect to the new instance), two at once
  are every pair that can race.
* `TunWorker`. Two SYNs are a repeated one, or an old and a new connection with
  the same key; `EntryWorks` is proved for any number.

`DoneCap` is the constant 2 of the code. `MaxBytes`, `Window`, `MaxFaults`,
`Sessions`, `Callers`, `AtOnce`, `Flows`, `Writers`, `MaxConns` and `MaxSegs` are
bounds. The type invariants of `Stats`, `Server`, `GoClient`, `VpnService` and
`TunWorker` are proved and not checked again by the runs. `CHECK_DEADLOCK FALSE`
is set everywhere: connections that have returned and sessions that are used up
have no step left.

Each violation run states what a document says:

* `MCServer_activecut`: README.md calls `TIMEOUT_SEC` the "Idle connection
  timeout". It is an absolute deadline for the handshake, which a SOCKS5 relay
  on the main port keeps and which cuts it while bytes are in flight. (For an
  MTProto relay it is cleared and nothing replaces it: an idle one stays.)
* `Hy2_streams`: "Each TCP connection becomes a separate QUIC stream to the
  server", says the README of the app. A handler that returns before it has read
  the client's FIN, as after every failed dial, leaves the stream counted against
  `MaxIncomingStreams` for as long as the connection lasts; when all are used up
  `OpenStreamSync` waits for ever. `SlotLostForCause` says which flows cost a
  stream: those whose target cannot be dialled (an IPv6 address never can, the
  network being `tcp4`) or stops first.
* `VpnService_hasty`: the app's README says that when the status is Connected
  all traffic goes through the tunnel. `connect` ends with `isRunning = true`
  whatever has happened since it began; a cleanup that overlaps its end (a
  disconnect from the notification, a revoked VPN) leaves `isRunning` set
  without a tunnel.
* `TunWorker_nextseq`: `clientSeq` is commented "Next seq we expect from
  client". Each segment is written by its own coroutine, which then assigns
  it: of two segments the later may be written first, and `clientSeq` goes
  back.

Behaviour that the properties take into account, and that a reader of the code
may not expect:

* One obfuscated client in 32 is refused or misread if it does not avoid the
  first bytes by which other protocols are detected (`proxy/server.go:99`); the
  init is random, and `RejectsForCause` names this as a cause.
* `socks5Handshake` drops what was peeked beyond the method list
  (`proxy/socks5.go:83`): a client that sends its request with the greeting may
  be left waiting, but is never connected elsewhere (`AcceptsWhatWasAsked`).
* A DC number is taken modulo 65536 (`proxy/obfuscated.go:92`): 65537 is served as
  1. -32768, whose negation overflows, is refused.
* After a fake-TLS handshake a record of another type, such as a
  ChangeCipherSpec, ends the direction (`proxy/faketls.go:50`).
* A plain secret of 32 digits that begins with dd or ee is taken for a prefixed
  one and the program refuses to start (`config/config.go:114`), although the
  usage text allows it (`TakenForPrefixed`).
* A statistics page or a SOCKS5 port whose port is in use is left out without an
  end of the program; the statistics goroutine may take the proxy's own port
  first (`DiesForCause`, `SettlesAsAsked`).
* A connected app may be deaf. `start` has returned success when its goroutine calls
  `net.Listen` (`android/go/hysteria2.go:181`): if that fails, or `Accept` does later, the
  session ends and closes QUIC, the error goes to the log (line 115), and the service
  keeps `isRunning` and the status Connected while nothing listens on the port to which
  `TunWorker` connects. The app's README says that when the status is Connected all
  traffic goes through the tunnel (`android/README.md:138`) and lists `listen :10808:
  address in use` among the errors its user sees (line 148). `RunningMeansUp` says what
  does hold.
* `IsRunning` of the Go client stands for its accept loop and stays true when the
  QUIC connection is lost (`android/go/hysteria2.go:105`, against the comment at
  line 45). An accept loop that fails while the client is not stopped leaves a
  listener which, after another `Start`, no `Stop` closes (line 197, against the
  comment at line 40). `RunningIsServing` and `CancelledEnds` say what does hold; no
  property covers these two.
* An app that breaks off a download leaves the server's copier waiting in a `Write`
  (`proxy/hysteria2.go:204`): the client has stopped reading the stream and does not
  say so (nobody calls `CancelRead`), and `Close` does not wake a `Write`. The same holds
  of the client's copier (`android/go/hysteria2.go:354`) when the server's has ended, as
  after a reset by the target. The goroutine stays, and on the server's side the stream
  stays counted, until the connection ends. `Abandoned` and `AnswerLeft` are these
  cases; `StopEndsFlow` and `RequestArrives` say that there is no other, and the first
  also that the connection's end frees all.
* An exception of a read ends the read loop of `TunWorker` (`TunWorker.kt:101`) and
  nothing else: `isRunning` stays true, and no packet of the device is handled any more,
  not even a FIN or a RST. Flows that are up go on until their server ends them
  or `stop` does.
* A `/stats` page reads the totals before it takes the mutex (`stats/stats.go:92`), so
  with sessions that open or close meanwhile its totals and rows need not agree. No
  property is about such a page, as nothing is promised of it; `QuietPageAgrees` is about
  the others.
* A flow of `TunWorker` that a repeated SYN has replaced is closed by nobody but
  its own end of stream, which then closes the newer one by its key
  (`TunWorker.kt:210`, `:304`).

## 4. Fairness

* Weak fairness of every goroutine's next step: Go runs runnable goroutines.
* Strong fairness of lock acquisition: `sync.Mutex` hands the lock to a waiter
  of more than 1 ms (starvation mode), however often others take it.
* Weak fairness of `Expire`: the runtime timer fires.
* A page that has started is finished. Its rows are written to buffers; a
  client that never reads is the one thing that could hold `mu` for ever, and
  the properties exclude it by this assumption.
* Dials end (`DialTimeout`, QUIC handshake timeout), the 64-byte write on a
  fresh socket ends.
* In `GoClient` the server answers the authentication or closes: `sendAuth` has no
  timeout. `Hy2` justifies this for this server: `AuthReturns` needs only that
  both programs run and that an end which is left alone notices it
  (`ConnNoticed`, the idle timeout of QUIC).
* In `Hy2` a FIN is sent and acknowledged while the connection lasts, once the bytes
  before it are sent; this is assumed only if the stream has room, although a FIN
  needs none, as a FIN behind bytes the client does not read may never be sent.
* `Hy2` assumes nothing of the remote ends. `StopEndsFlow`, `AnswerArrives`
  and `RequestArrives` are conditional: what is queued for a remote end is read
  (`Reads`), and for the last two nothing else ends the flow (`AppStays`,
  `TargetStays`).
* `Startup`: the goroutines of the listeners run.
* For the service, weak fairness of every coroutine's next step and strong
  fairness of the steps that need the Go client's mutex. Requests are not fair:
  nobody has to click, and the system need not destroy the service.
* For the worker, every coroutine runs (it has a thread of `Dispatchers.IO`:
  with 64 relays that block it would not), the local proxy answers a handshake
  or closes, the device repeats a SYN, as TCP does, and answers a SYN-ACK it does
  not know. A write that waits for the server may wait for ever. The read loop ends
  after `stop`; that a read fails before is possible and not fair, and
  `StaleEntryGoes` and `SynAnswered` promise nothing after it.
* Nothing is assumed of the remote ends, of `AcceptFails`, of `ConnLost`, of
  `QuicLost` or of `ListenerFails`. `StopEndsSession` is conditional on the end that did not stop: it
  must not refuse for ever to read what is queued for it.

## 5. Proofs

All theorems hold for any finite set of connections, flows, threads or jobs, any
sets of names and scrapers, any amount of data and any mix of clients, for all
lengths of inits, records, buffers and keys, and for any `SECRETS` and machine. Every
invariant that a run checks is proved, and of the action and temporal properties
those that are not liveness: the refinements `StatsSpec`, `UpIsStream` and
`DownIsStream`.

The assumptions are named and stated in the modules. `StatsAssumption`,
`ServerAssumption`, `FramingAssumption`, `Hy2Assumption`, `GoClientAssumption`,
`VpnAssumption`, `TunAssumption`, `EntryAssumption` and `StartupAssumption` are about
sizes and kinds of constants. (`EntryAssumption`: an init is twice `Half`, which is 32
in the code and written into one byte of a ClientHello. `StartupAssumption`: the
default name is not longer than a secret without prefix.) `ClientsAssumption` and
`EnvironmentsAssumption` are the formats described in section 2. For a ClientHello
`TlsScript` says which name the extensions hold with the operator `ServerName` of the
model, so that the walk over the extensions is not proved against anything; it is
checked on the concrete ClientHellos of the run, whose names are given.
`ObfsScript` leaves out an init that begins with 5 and has a 5 again where a SOCKS5
request would begin: it could be a SOCKS5 negotiation down to its last byte, and
`AcceptsWhatWasAsked` would be false of it. Inits are random, and the assumption
excludes fewer than one in 30000.

* `StatsProofs`. `CountersExact` is about cardinalities of sets of connections
  that stand at certain steps. Each step moves one connection, so each set
  gains or loses at most one element; `StatsInv` adds the types and `CallNamed`
  (a running call has a name), without which the counter of a name could not
  be found again. `StatsQuietPage` is about sums over rows: `SumOf(f, S)` is the
  cardinality of a set with `f[x]` elements for each `x` (`Units`), so that a sum
  changes as such a set does, by one element. While no connection opens or closes
  each row that is rendered keeps its share of the totals.
* `ServerProofs`. `ServerInv` relates the three threads of a connection:
  `HandlerInv` (which step of `ConnOpen`/`ConnClose` goes with which point of
  the handler, which sockets are open there), `CopierInv` (a copier exists only
  after the session was counted and, for MTProto, the deadline cleared; it
  reports once; it writes no more than was sent) and `DoneInv` (a message in
  `done` comes from a copier that has ended). From `HandlerInv` and `CopierInv`
  follows `ServerImplementsStats`: every step of the proxy is a step of `Stats`
  or leaves it alone. So `CountersExact` and `QuietPageAgrees` carry over, and with
  `HandlerInv` the first gives `ActiveIsRelays`. `ServerTrafficExact`: a copier adds
  what it has written once and as a whole, and writes no more after it, so each sum
  grows by exactly the units of the copier that reports.
* `FramingProofs`. That what was delivered is a prefix of what was sent is not
  inductive: it says nothing of the records under way. `FramingIInv` adds that
  `delivered`, `readBuf` and the records of the wire hold consecutive bytes
  (`Counted`, `Queue`), and that the distance between the number of a byte and its
  position in the keystream is the same in every record and at the reader. Every
  action moves one boundary between these parts (`UpMove`, `DownMove`), which is
  then a step of `ByteStream` or a stutter: `UpRefinesStream`,
  `DownRefinesStream`. `EndLosesTheCut` reads the boundary off when reading ends.
* `EntryProofs`, about one connection from its first byte. `StreamInv` is the invariant
  of `Framing` over a keystream that has not been moved yet, or has by the init:
  the steps of the handshake leave the streams alone and `Enter` moves `encPos` to
  `InitLen`, where the client's own wrapper starts, so `EntryUpIsStream`,
  `EntryDownIsStream` and `EntryEndLosesTheCut` hold across the handshake.
  `AcceptsWhatWasAsked` and `RejectsForCause` are not inductive: they say nothing of
  what has been read so far. `NegotiationInv` does. `Stage` says for each value of `at`
  how many bytes of the script have been read (`HasRead`) and what they must have been
  for the handler to come there; `Carries` makes `wire` the part of the script that was
  sent and not read yet, so that what `io.ReadFull` returns is known by its position in
  the script, however the bytes were cut up. `Common` has the types and `PeekOK`, that
  the bytes of the detection are the first ones, and go beyond the first message of
  eager clients only: these may lose some, and are the ones that may be left waiting.
  A client that another protocol's handshake reads has begun like that protocol
  (`TakenForAnother`), which is its cause when it is refused. There is one lemma for
  each read of the code. `MatchIs`, `DcServes`
  and `HelloRead` are the lemmas about the loop over the secrets (the first that
  fits), the 16-bit lookup of the DC, and the positions in a ClientHello.
* `StartupProofs`. The parser first: `EncodeIs` (decoding the digits of bytes gives the
  bytes), `SpellsParse` (what spells a secret is read as that secret, but for a plain
  one that begins like a prefixed one), `ParseIsSecret` (nothing else is accepted),
  `CutRead` (what trimming and the first colon leave), and from these `PartRead`. Then
  the loop: `LoadInv` says that `left` are the texts of the parts after the first `k`
  and that each of these that means something stands in `cfg.Secrets` at the place
  which counting gives it. `DiesForCause` is inductive together with the order in which
  main starts the others (`OrderInv`), `LinkIsSecret` follows from `SpellsParse`.
* `Hy2Proofs`. The invariant is local to a flow: `Earned` follows the word "ok"
  from the target through the response to the reply, `Slot` says what the server
  has closed at each of its points and that it leaves a relay only when it knows
  of a cause; `AuthInv` ties both to the password. One lemma for the steps of
  each thread shows that a flow keeps them, one that the others do not touch it.
* `VpnServiceProofs`, the client. `LockInv` (the mutex is held by the thread that is setting
  a session up, and `running` is false meanwhile) and `FreshInv` (its session
  is not published yet) make `RunningIsServing` and `CanBeStopped` inductive.
* `VpnServiceProofs`, the service. `VpnImplementsClient`: requests, however they overlap, are
  threads of `ClientSpec`, so the client's invariant can be used. `VpnInv` holds
  of all behaviours for which step goes with which point of the Go client
  (`CallInv`), which jobs exist (`OpInv`) and which instance they belong to
  (`InstInv`). For requests that come one after the other `OrderlyInv` adds that
  one job is under way at a time (`OneByOne`), that nothing is open which the
  fields do not name (`NothingElse`), and what is held at each step of a connect
  or cleanup (`HeldAt`). The client's invariant adds that `cancelFunc` is of a session
  that nobody has cancelled (`OwnInv`), and what a session has at each of its points
  (`ServeInv`); `RunningMeansUp` and `NotRunningMeansDown` follow.
* `TunWorkerProofs`. `EntryWorks` needs `PutBefore`: only a flow that has been
  put is in the table, its relay is launched later, and a socket is open when
  it is put; `StopOrder` says that stop has cleared `running` before it closes
  a socket that is still in the table.

Only model-checked: the liveness properties, which are beyond the prover
(`CallsReturn`, `HandshakeBounded`, `NoGoroutineLeak`, `StopEndsSession`,
`StopReturns`, `CancelledEnds`, `JobsEnd`, `StaleEntryGoes`, `SynAnswered`,
`StopEmpties`, `ClosedEnds`, `StopEndsFlow`, `AnswerArrives`,
`RequestArrives`, `AuthReturns`, `SettlesAsAsked`), and the four violations, which need
one counterexample each.

## 6. Not modelled

* What the ciphers compute. An init or a byte comes out right with the right
  secret at the right position and as garbage otherwise, and garbage is never
  taken for a protocol tag; a real one would be with probability 3 in 2^32.
* Packets of QUIC and the flow-control window of a connection: what abandoned streams
  have received and nobody reads (`android/go/hysteria2.go:354`) counts against it, and
  many of them could stop the other flows. The generation of the certificate, the
  contents of the length-prefixed texts of Hysteria2, a Hysteria2 client other
  than this repository's.
* `BIND_ADDR` and the number in `TIMEOUT_SEC`, `/health`, the uptime, logging.
* The dedicated SOCKS5 port sets no deadline (`proxy/server.go:76`), so a client
  that stalls there is never dropped. `Entry` and `Server` model this (`Deadline`
  and `Expire` are of the main port); no property is about it, as no document
  promises one.
* The bytes of `TunWorker`'s flows and their sequence numbers. A FIN of the device
  ends both directions and loses what is under way (`TunWorker.kt:162`), segments
  are written in any order (see `nextseq`); there is no stream for such a flow to
  implement. Flows of several keys share the 64 threads of `Dispatchers.IO`
  (`TunWorker.kt:250`), which the model of one key assumes to be enough.
* The restart of a killed app process, status broadcasts, layouts and preferences
  of the app: they change no state of the modelled parts.
