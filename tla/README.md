# TLA+ models of patty's AX.25 daemon

This directory holds TLA+ models of `pattyd`, the AX.25 packet-radio daemon in
`src/`. The models are checked with TLC. `PROJECT.json` lists the following:

- the components and their status;
- the runs;
- the mutants that show each checked property can fail;
- the map from every model definition to the source lines it translates;
- the findings;
- the hazards, each at its source line.

## The system

`pattyd` runs one event loop (`patty_ax25_server_event_handle`,
`src/src/server.c:2369-2420`):

1. `select()` waits on every descriptor, with a 1 s timeout.
2. `handle_socks` walks `socks_by_fd` with `patty_dict_each`. For each socket,
   `handle_sock` ticks T1/T2/T3 by the elapsed time. It then acts on an expired
   timer, or reads the client's pty and sends I frames.
3. `handle_clients` serves one request per readable client on the Unix request
   socket. The requests are `socket`, `bind`, `listen`, `accept`, `connect` and
   `close`.
4. `handle_ifaces` reads each interface, decodes KISS and passes each frame to
   `handle_frame`. `handle_frame` dispatches to a handler per frame type: I,
   RR, REJ, SREJ, DISC, UA, DM, SABM or XID.
5. New clients are accepted.

Two stations interact only through frames on the air. A client interacts with
its daemon through the request socket, the listening socket's accept messages
and the pty of each connection. Every table of the daemon is a `patty_dict`:
sockets by fd, by client, by local address hash and by address-pair hash.

### Components and modules

| Component | Source | Module | Status |
|---|---|---|---|
| Connected-mode data link | server.c, sock.c | `Ax25Link` | partly |
| Connection set-up and XID negotiation | server.c, sock.c, frame.c | `Ax25Conn`, `Ax25Xid` | partly |
| Client request protocol | server.c, client.c | `Ax25Conn` | partly |
| Interfaces and KISS receive path | tnc.c, kiss.c, server.c | `KissTnc` (with `Ax25Frame`) | partly |
| APRS-IS receive path | aprs_is.c, server.c | `AprsIs` (with `Ax25Frame`) | partly |
| Frame codec | frame.c, ax25.c | `Ax25Frame`, `Ax25Xid` | partly |
| Timer arithmetic | timer.c | `Timer` | modelled |
| Dictionary | dict.c | `Dict`, `DictSpec` | partly (list.c and hash.c not) |
| Routing table, config, programs | route.c, conf.c, bin/ | — | not modelled (see below) |

The modules compose where the components interact:

- `KissTnc` and `AprsIs` extend `Ax25Frame`. The bytes on the line are real
  encodings of frames, and each frame the interface passes on is decoded by
  `patty_ax25_frame_decode_address` and `decode_control`.
- `Ax25Conn` extends `Ax25Xid`. The XID frames on the air carry the bytes
  `patty_ax25_frame_encode_xid` makes from the sending socket's parameters.
  `handle_xid` decodes them and runs `patty_ax25_sock_params_negotiate`.

Each `MC_*` module instantiates one of these for TLC. The runs are listed in
`PROJECT.json`.

## Ax25Link: two patty stations on an established link

### State

| Variable | Code |
|---|---|
| `state`, `vs`, `vr`, `va`, `retries`, `rxPending` | the `patty_ax25_sock` fields |
| `slot[s][i]` | tx slot `i`: `len > 0` as `data # 0`, and `ack` |
| `t1`, `t2`, `t3` | a timer as stopped, running or expired |
| `watched` | whether the pty is in the `select()` read set |
| `chan[d]` | the FIFO of frames on the air towards station `d`; a send onto a full channel is lost |
| `written`, `hup`, `delivered`, `duplicated`, `skipped` | the two clients' ptys; an I frame carries the index of the pty read that produced it |

### Actions

- Each `Handle*` action is one handler of `handle_frame`. It includes the
  `frame_ack`, `sock_ack` and `resend` calls the handler makes, and its reply.
- `HandleSock` is the whole of `handle_sock`. In `ESTABLISHED` it takes the
  first branch whose timer expired, in the code's order: `T1Retry`,
  `T1GiveUp`, `T2Ack`, `T3Poll`. In `PENDING_DISCONNECT` it takes
  `DiscRetry`. Otherwise it takes `ReadPty`.
- The environment actions are `Tick` (time passes), `Lose` (at most `MaxLoss`
  losses) and `ClientClose`.
- `Tick` is `TickT1`, `TickT2` or `TickT3`: one running timer runs out
  (`patty_timer_tick` at the top of `handle_sock`, server.c:2211-2213).

### Timers and fairness

`FairSpec` adds weak fairness on `HandleSock(s)`, `Receive(s)` and on each
timer's tick. The event loop calls `handle_sock` for every socket on every
pass (server.c:2396) and drains each readable interface. A running timer's
time eventually passes, because `select()` has a timeout. Losses get no
fairness.

With `QuietTimers = TRUE` the untimed model is kept to the orders the
timer lengths allow:
- A timer runs out only when no frame is on the air and no pty waits to be
  read. A round trip and a pass of the loop are far shorter than 3 s.
- T3 runs out only when every live socket's T1 and T2 are stopped. T3 is
  30 s (`PATTY_AX25_SOCK_DEFAULT_KEEPALIVE`); T1 and T2 are 3 s
  (`DEFAULT_ACK`, `DEFAULT_DELAY`; sock.h, sock.c:257-259).

Without these assumptions a keep-alive poll can arrive before every T1 retry,
forever. That needs T3 shorter than T1, which the defaults exclude. The
safety runs keep `QuietTimers = FALSE`, so any timer may run out at any
moment.

### Runs

All runs use SABM (modulo 8), k=2 and a receive window of 4.
`Exchanged` starts the link as a loss-free exchange of that many frames would
leave it, so that V(S) reaches the 7→0 wrap without enumerating the prefix.

- **acked** (`FairSpec`, `QuietTimers`): three new frames after five exchanged
  ones (N(S) 5, 6, 7). N2=2, up to four losses, and six frames per channel.
  - `TypeOK` and `AckedDelivered` hold: a slot marked acknowledged holds data
    the peer has already written to its pty. This ties `sock_ack`,
    `frame_ack`'s V(S) rollback and `handle_i` together across both stations.
  - `WritesDelivered` holds: every datum client A writes eventually reaches
    B's pty, unless a socket closes (T1 give-up after N2 retries). Once A has
    written everything, a lost frame is resent only by T1 (server.c:2252),
    so this depends on `frame_ack` restarting T1 while frames are still
    unacknowledged.
  - No client hangs up in this run. With hang-ups, a lost DISC followed by
    the peer's RR poll makes `frame_ack` stop the T1 that times the DISC
    retry (`sock_ack` returns 1 for N(R) = V(A), server.c:1310). The socket
    then stays in PENDING_DISCONNECT for ever. This is the defect that
    `conn_hang` shows for PENDING_CONNECT, and it is listed under that
    hazard.
- **teardown** (`Spec`, N2=1, one loss, one frame per channel): one new frame
  after seven exchanged ones, with both clients hanging up. It checks
  `AckedDelivered` through DISC/UA/DM, T1 retries and give-up, with timers
  that may run out at any moment. The type invariant is left to `acked`.
  - `CHECK_DEADLOCK FALSE`: both sockets end closed, and the daemon then idles
    in `select()`.
- **dup** (violation, `NoDuplicate`; `Spec`, N2=1, one loss, two frames per
  channel): after one lost I frame, the SREJ resend
  and the F=1 checkpoint rollback both resend the same frame. `handle_i` writes
  N(S) < V(R) to the pty again (server.c:1661).

## Ax25Conn: connection set-up and the client protocol

### Topology

- Client A, at station A, runs `ProgA = socket, connect, close`.
- Client B, at station B, runs `ProgB = socket, bind, listen, accept`.
- Each call writes a request and blocks reading one response, as in
  `client.c`. `accept` then also blocks on the accept message from the
  listening socket.

### Sockets

There are three socket ids:

- `a`: A's socket;
- `l`: B's listening socket;
- `r`: the socket station B creates for A's connection.

A socket is a record with the following fields:

- state;
- T1 and T3, each stopped, running or expired;
- retries;
- whether a local address is bound;
- its membership of `socks_remote`, `socks_local` and `socks_by_fd`;
- `mode` (DM, SABM or SABME), `version`, and the parameters XID negotiates:
  `flags_classes`, `flags_hdlc`, `n_maxlen_tx/rx`, `n_window_tx/rx`, `n_ack`
  and `n_retry`.

`SockSave` and `SockClose` are `sock_save` and `sock_close` on those
memberships. `ShutdownFrames` is the DISC that `sock_shutdown` sends.
`SockInit`, `BindIf`, `ParamsUpgrade` and `SockReset` are the `sock.c`
functions of those names. `SabmFrame` and `SFrame` choose the frame type from
the mode, as `send_sabm` and `control_s` do. A socket in mode DM therefore
sends an S frame as an I frame.

### XID (Ax25Xid)

- `EncodeXid` is `patty_ax25_frame_encode_xid`: a group header, then one
  parameter per flag bit set, each in the fewest big-endian bytes.
- `DecodeXid` is `patty_ax25_frame_decode_xid` as RECURSIVE operators over the
  groups and parameters. A read past the frame is marked rather than taken.
- `ParamsNegotiate` is `patty_ax25_sock_params_negotiate`. It keeps the code's
  flag tests on enum indices (`flags & PATTY_AX25_PARAM_CLASSES`), so the
  classes and HDLC checks are skipped between patty stations.

TLC evaluates an operator again at each use, and XID encoding and decoding
are slow to evaluate. `XidInfoTable` and `XidDecodedTable` therefore hold the
encoding of each socket parameter set that can occur, and its decoding. They
are computed once as constant sets of pairs.

### Actions

- The clients: `ClientCall`, `ClientReturn` and `ClientAccepted`.
- The daemon's client handling: `HandleClient`, which runs `server_socket` …
  `server_close` (`ServerSocket` … `ServerClose`) for the next request.
- The frame handlers for set-up: `HandleXid`, `HandleSabm` (with
  `SabmAccept`), `HandleUa`, `HandleDm`, `HandleDisc` and `HandleRr`.
- `HandleSock`: the `PENDING_ACCEPT`, `PENDING_CONNECT` and `ESTABLISHED` timer
  branches of `handle_sock`.
- `Expire`: a running timer runs out.
- `Lose`: the radio loses a frame.

Timers expire in any order, since the model has no durations. It therefore
includes delays on the air longer than T1. These happen on a busy half-duplex
channel and through digipeaters.

### Runs

Each run uses N2=1 (n_retry), one frame on the air per direction and a route to the
peer. The state constraint `MCBound` allows at most 5 responses per client
and 2 accept messages. The bound is needed because a refused connect is
retried for ever (see conn_refused). The bound never cuts a behaviour before
the connect is answered.

- **conn** (`Spec`, at most one loss, `CHECK_DEADLOCK FALSE` because the
  clients finish and the daemons idle). It checks `TypeOK` and
  `ConnectAnnounced`: whenever A's connect returns success, B's daemon has
  written the accept message to the listening socket. This holds in every
  interleaving of the two clients, both daemons and their timers. That
  includes A connecting before B listens, and the XID reply being resent.
  385,573 distinct states.
- **conn_refused** (violation, `RepliesMatch`, B never listens, no loss).
  - The DM answering A's XID makes `handle_dm` respond `ECONNREFUSED`.
  - But `patty_ax25_sock_reset` restarts T1 and the socket stays in
    `PENDING_CONNECT` (server.c:1558).
  - T1 sends SABM, the second DM is answered `ECONNREFUSED` again, and A's
    `close` reads that stale connect response.
- **conn_hang** (violation, `ConnectAnswered` under `FairSpec`, one loss).
  - The UA is lost.
  - The T1 that `handle_xid` started on B's new socket (server.c:1961) was
    never stopped by `handle_sabm`. It expires and polls A with RR.
  - A is still in `PENDING_CONNECT`. `frame_ack` stops its T1, because
    `sock_ack` returns 1 for N(R) = V(A).
  - Nothing then retries the SABM or times the connect out, so
    `patty_client_connect` blocks for ever.
  - The same leftover T1 can also give up the just-accepted link after one
    spent retry, after which A's retransmitted SABM is accepted a second time.
    This is why `ConnectAnnounced` says "at least one" accept message.
- **conn_mode** (violation, `ModesAgree`, two frames per direction, no loss):
  both ends are ESTABLISHED in different modes.
  - A connecting socket leaves mode DM only in `handle_xid`, on an XID
    response. If the first XID is answered with DM, A's T1 retry sends SABM
    from mode DM (server.c:2233). `handle_ua` then establishes the link
    without setting a mode.
  - In mode DM, `patty_ax25_sock_write` fails with EBADF (sock.c:1035), and
    `control_s` encodes every RR as an I frame.
  - A second path: the retried SABM overtakes the XID response, so A moves to
    SABME. B has already established on the SABM in modulo 8, and
    `handle_sabm`'s ESTABLISHED branch (server.c:1424) resets without taking
    the new mode.

The conn and conn_hang runs have the state constraint `MCNoStrayI`. It stops
a behaviour at the first I frame sent in mode DM. That frame only
`Ax25Link`'s `handle_i` would take, and conn_mode shows the problem first.

`FairSpec` is weak fairness on these actions:

- each client's next call, its read of a response and its read of an accept
  message;
- `handle_client`;
- frame reception at each station;
- `handle_sock` for each socket;
- every running timer's expiry.

The event loop serves every readable descriptor on each pass, and a running
timer does run out. Losses get no fairness. The run allows one loss and then
none.

## Ax25Frame: the frame codec

`Ax25Frame` holds the operators of `frame.c` and `ax25.c` that the receive
paths use:

- `Pton` is `patty_ax25_pton`, a RECURSIVE scan of the callsign text;
- `FrameEncode` is `patty_ax25_frame_encode` with its address encoding;
- `DecodeAddress` and `DecodeControl` are `patty_ax25_frame_decode_address`
  and `decode_control`, modulo 8 only;
- `View` is what `handle_frame` uses of a decoded frame.

It has no run of its own. `KissTnc` and `AprsIs` check it on the frames they
carry.

## KissTnc: the KISS receive path

- The peer TNC's byte stream is the `patty_kiss_frame_send` encoding of a
  sequence of frames. Each frame's body is the `FrameEncode` of a real AX.25
  frame: a UI command, an I frame through a repeater and an RR response,
  whose information bytes need both KISS escapes.
- `HandleIfaces` is one call of `handle_iface` for a readable line:
  - one `read()` of 1..`BufSz` of the waiting bytes;
  - then the `patty_kiss_tnc_drain` / `pending` / `flush` loop, as the
    RECURSIVE operators `DrainFrom` and `IfaceLoop`;
  - then `handle_frame`'s decoding of each frame, and `handle_ifaces`' error
    handling.
- `PeerHangup` closes the line.
- The MRU is 64 instead of 4096: it is just above the longest frame.
  `BufSz` = 6 is just above the shortest frame, so one `read()` can end one
  frame and start the next.

| Run | Kind | What it checks |
|---|---|---|
| **kiss_frames** (`FairSpec`) | pass | `TypeOK`, `FramesInOrder` and `AllDelivered`. `FramesInOrder`: `handle_frame` receives, decoded, a prefix of the port-0 frames sent, whatever way `read()` splits the stream. `AllDelivered`: it eventually receives every one. Weak fairness on `HandleIfaces` is justified because the fd stays readable while bytes wait. |

`MC_KissTnc_twoport.cfg` is kept beside it, though it is not one of the
project's runs. It sends a frame for KISS port 1, then one for port 0, and TLC
finds `FramesInOrder` violated. The port-1 frame ends with nothing pending.
`handle_iface` leaves its loop with that frame's bytes still counted in
`offset_o`, and the next port-0 frame is delivered with those bytes in front
(tnc.c:366, server.c:2072). The hazard at server.c:2072 records this.

## AprsIs: the APRS-IS receive path

- The APRS-IS server writes TNC2 text lines (`SRC>DEST,RPT:BODY\r\n`) on a
  TCP connection.
- `HandleIfaces` is one `handle_iface` call on it:
  - one `read()` (`patty_ax25_aprs_is_fill`);
  - the four-state line parser of `patty_ax25_aprs_is_drain`, with its drop
    paths and `Pton`;
  - the UI frame each complete line is encoded into;
  - `pending` and `flush`;
  - `handle_frame`'s decoding of each frame.
- Callsigns are one letter and bodies one byte. `BufSz` = 8 lets one `read()`
  hold the end of one line and the start of the next.

| Run | Kind | What it checks |
|---|---|---|
| **aprs_lines** | violation, `AllDelivered` under `FairSpec` | `patty_ax25_aprs_is_flush` sets `offset_i = readlen` (aprs_is.c:328), which discards the rest of the read after the first complete line. The next line then starts mid-text, its source callsign is empty, `pton` fails, and the line is dropped. The second of two back-to-back lines is never delivered. |

## Timer: timespec arithmetic

- `Timer` follows one T1 through the event loop:
  - `before` and `after` clock readings around `select()`;
  - `patty_timer_sub` with C's truncating division;
  - `tick`, `expired`, and the retry or give-up of `handle_sock`;
  - `frame_ack`'s stop and restart.
- A second is scaled down to 4 ns, to keep the clock small.

| Run | Kind | What it checks |
|---|---|---|
| **timer_fires** | violation, `T1Fires` under `FairSpec` | `patty_timer_sub`'s carry has the wrong sign (timer.c:42). Once `before` is read after the handlers ran (server.c:2379), the nanosecond difference can pass a full second, and a running T1 never expires. |

The timer model has no passing run: with the carry as the code has it,
`T1Fires` fails. `Ax25Link` and `Ax25Conn` abstract a timer to stopped,
running or expired.

## Dict and DictSpec: the dictionary and what it promises

- `DictSpec` is the abstract finite map: `Set` and `Delete`, with the call and
  its return value recorded in `op` and `ret`. Recording them means that a set
  the implementation loses is not a stuttering step.
- `Dict` is `dict.c`'s trie of 16-slot buckets, indexed by successive nibbles
  of the key. `FindFrom`, `SetFrom` and `EachBucket` are RECURSIVE operators
  following `patty_dict_slot_find`, `patty_dict_set` and `dict_each`.
  - Slots are a function from paths to slot records. A path not in its domain
    is a zeroed slot.
- `Dict` implements `DictSpec` under the refinement mapping
  `DictMap == [k \in Keys |-> Get(slots, k)]`
  (`Abstract == INSTANCE DictSpec WITH map <- DictMap`). This is checked as
  `PROPERTY Refines`.

| Run | Kind | What it checks |
|---|---|---|
| **dict** | pass | fds 3, 19 and 275 share nibbles, so chains of buckets form; fd 4 is also deleted. It checks `Refines` and `EachVisitsAll`: `dict_each` visits each present key exactly once. |
| **dict_orphan** | violation, `Refines` | Fds 3 and 19 are present, with 19 chained below 3. `patty_dict_delete(3)` clears the slot with its next pointer, and fd 19 disappears from `socks_by_fd` (dict.c:173). |

## Mutants

Every property of a passing run has a mutant in `PROJECT.json`: a plausible
bug in one mapped definition that TLC catches with the run's own
configuration. Examples:

- `SabmAcceptCreatedOnly` announces only sockets that `handle_sabm` created
  itself. This breaks `ConnectAnnounced`.
- `RetriesLeftAfterDecrement` tests the retry count after the decrement. This
  breaks `TypeOK`.
- `SetFromLostUpdate` breaks `Refines`.
- `AckT1NoRestart` cancels T1 on an acknowledgement and never restarts it for
  frames still outstanding. This breaks `WritesDelivered`.

## Not modelled, and why

- **RNR, FRMR, TEST, segmentation, UI/datagram and raw sockets.** patty never
  sends RNR or FRMR. The others do not take part in the connected-mode
  protocol.
- **Data transfer in modulo 128.** `Ax25Conn` negotiates the mode (SABME
  between two patty stations), but `Ax25Link`'s established link uses modulo
  8 only. The extended control field differs only in width, and `Ax25Frame`
  decodes the normal form only.
- **XID from peers other than pattyd.** The negotiation's flag tests use enum
  indices rather than bits (sock.c:328). Between patty stations the tests
  cannot be told apart, and the model keeps them as the code has them.
- **A client disconnecting from the request socket** (`handle_client` closing
  all its sockets through `patty_dict_each`).
- **A read error on a TNC line.** `patty_kiss_tnc_fill` stores `read()`'s
  result in a `size_t`, and `patty_kiss_tnc_reset` always fails with ENOSYS,
  so `handle_ifaces` stops the daemon. This is listed as a hazard. No run
  checks it.
- **Routing table (route.c).** `server_connect` only asks whether a route
  exists, which is the constant `Routed`. Two hazards are listed. First,
  `route_table_add` fails with EEXIST for any route added after a default
  route, because its duplicate test uses `find`, which falls back to the
  default. Second, `server_connect` looks the route up by the local address
  rather than by the destination (server.c:909). Neither makes a difference
  between two stations that use only a default route, which is what
  `Ax25Conn` models.
- **The APRS-IS send path, connect and reconnect.** `encode_reply_to`,
  `ntop` and the TNC2 formatting are text output. Connect and login are
  `getaddrinfo` and `socket` calls. The reset after a read error and the
  reconnect are listed as hazards.
- **Configuration, daemon start-up, printing, and the programs in bin/ and
  examples/.** They are text and process set-up, with no concurrent state to
  explore.
- **list.c and hash.c.** A list is only appended to and walked. A hash value is
  taken as an arbitrary dictionary key.
