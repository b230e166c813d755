------------------------------ MODULE Ax25Conn ------------------------------
(***************************************************************************)
(* Connection set-up between two pattyd stations, with the clients that   *)
(* drive it over the daemon's Unix request socket.                         *)
(*                                                                         *)
(* Client A (station A) calls socket, connect and close; client B         *)
(* (station B) calls socket, bind, listen and accept (client.c).  Each     *)
(* call writes a request and then blocks reading one response from the     *)
(* request socket; accept then also reads the accept message from the      *)
(* listening socket.  handle_client runs the server call (server.c,        *)
(* server_socket ... server_close); handle_frame dispatches the XID, SABM, *)
(* UA, DM, DISC and RR frames that set up and tear down the link.          *)
(*                                                                         *)
(* Three sockets exist: "a", client A's; "l", client B's listening socket; *)
(* "r", the socket station B creates for A's connection.  A record field   *)
(* per dictionary says whether the socket is in socks_remote (remote),     *)
(* socks_local (local) and socks_by_fd (fd).  Timers are stopped, running  *)
(* or expired; time passes by Expire.  Connected-mode data transfer (I     *)
(* frames, T2) is Ax25Link's.                                              *)
(***************************************************************************)
EXTENDS Integers, Sequences, SequencesExt, Ax25Xid

CONSTANTS
    ProgA,     \* the calls client A makes, in order
    ProgB,     \* the calls client B makes, in order
    NRetry,    \* n_retry, N2
    Routed,    \* the route table has a default route (server_connect)
    ChanCap,   \* frames on the air per direction
    MaxLoss    \* frames lost per behaviour

Stations == {"A", "B"}
Peer(d) == IF d = "A" THEN "B" ELSE "A"
SockIds == {"a", "l", "r"}
SocksAt(d) == IF d = "A" THEN {"a"} ELSE {"l", "r"}
StationOf(x) == IF x = "a" THEN "A" ELSE "B"
\* The socket a client's calls name by fd
SockOf(c) == IF c = "A" THEN "a" ELSE "l"
\* clients_by_sock: r belongs to the client of the listening socket
Owner(x) == StationOf(x)
Prog == [c \in Stations |-> IF c = "A" THEN ProgA ELSE ProgB]

Frame(t, cr) == [type |-> t, cr |-> cr, info |-> <<>>]

\* The socket fields send_xid reads, over the values they take here: the
\* classes before and after bind_if, the default ack time and NRetry
XidSocks == [flags_classes : {SockDefaultClasses, SockDefaultClasses | IfDefaultClasses},
             n_ack : {SockDefaultAck}, n_retry : {NRetry}]
XidKey(s) == [flags_classes |-> s.flags_classes, n_ack |-> s.n_ack, n_retry |-> s.n_retry]

\* What patty_ax25_sock_send_xid encodes for each, and what
\* patty_ax25_frame_decode_xid makes of those bytes; constant tables, so
\* that TLC runs the codec once and not on every step it evaluates
XidInfoTable == {<<k, SendXid(k).bytes>> : k \in XidSocks}
XidDecodedTable == {<<e[2], DecodeXid(NoParams, e[2], 0)>> : e \in XidInfoTable}
Lookup(table, key) == (CHOOSE e \in table : e[1] = key)[2]

\* patty_ax25_sock_send_xid: an XID frame with the socket's parameters
XidFrame(s, cr) == [type |-> "XID", cr |-> cr, info |-> Lookup(XidInfoTable, XidKey(s))]

\* patty_ax25_sock_send_sabm: SABME in modulo-128 mode, SABM otherwise
SabmFrame(s) == Frame(IF s.mode = "SABME" THEN "SABME" ELSE "SABM", "cmd")

\* An S frame of type t: control_s gives 0 for a socket in neither SABM
\* nor SABME mode, which goes out as an I frame with N(S) = N(R) = 0
SFrame(s, t, cr) == IF s.mode \in {"SABM", "SABME"} THEN Frame(t, cr) ELSE Frame("I", cr)

\* A socket that does not exist, or has been destroyed
NoSock == [state |-> "NONE", t1 |-> "stopped", t3 |-> "stopped",
           retries |-> 0, bound |-> FALSE,
           remote |-> FALSE, local |-> FALSE, fd |-> FALSE,
           mode |-> "DM", version |-> "2.0", flags_classes |-> 0, flags_hdlc |-> 0,
           n_maxlen_tx |-> 0, n_maxlen_rx |-> 0, n_window_tx |-> 0, n_window_rx |-> 0,
           n_ack |-> 0, n_retry |-> 0]

\* patty_ax25_sock_init: CLOSED, mode DM and the v2.0 defaults; n_retry
\* is NRetry rather than PATTY_AX25_SOCK_DEFAULT_RETRY
SockInit(s) ==
    [s EXCEPT !.state = "CLOSED", !.mode = "DM", !.n_maxlen_tx = SockDefaultILen,
              !.n_maxlen_rx = SockDefaultILen, !.n_window_tx = SockDefaultWindow,
              !.n_window_rx = SockDefaultWindow, !.n_ack = SockDefaultAck,
              !.n_retry = NRetry, !.retries = NRetry]

\* patty_ax25_sock_new for a stream socket: sock_init, version 2.0 and the
\* default classes and HDLC flags
NewSock == [SockInit(NoSock) EXCEPT !.version = "2.0",
                                    !.flags_classes = SockDefaultClasses,
                                    !.flags_hdlc = SockDefaultHdlc]

\* patty_ax25_sock_bind_if: the interface's classes (half duplex) are added
BindIf(s) == [s EXCEPT !.bound = TRUE, !.flags_classes = @ | IfDefaultClasses]

\* patty_ax25_sock_params_upgrade: a v2.0 socket takes the v2.2 defaults
ParamsUpgrade(s) ==
    IF s.version = "2.2" THEN s
    ELSE [s EXCEPT !.version = "2.2", !.flags_hdlc = Sock22DefaultHdlc,
                   !.n_maxlen_tx = 255, !.n_maxlen_rx = 255,
                   !.n_window_tx = 32, !.n_window_rx = 32]

\* sock_save: saved by local address when LISTENING, by address pair when
\* PENDING_ACCEPT, PENDING_CONNECT or ESTABLISHED, and by fd in any state
SockSave(s) ==
    [s EXCEPT !.local  = @ \/ s.state = "LISTENING",
              !.remote = @ \/ s.state \in {"PENDING_ACCEPT", "PENDING_CONNECT",
                                          "ESTABLISHED"},
              !.fd     = TRUE]

\* sock_shutdown: an ESTABLISHED socket enters PENDING_DISCONNECT, starts T1
\* and sends DISC; here sock_close always follows at once, so only the
\* DISC outlives it
ShutdownFrames(s) ==
    IF s.state = "ESTABLISHED" THEN <<[type |-> "DISC", cr |-> "cmd"]>> ELSE <<>>

VARIABLES
    sock,      \* the patty_ax25_sock of each socket id
    chan,      \* chan[d]: the frames on the air towards station d
    lost,      \* frames lost so far
    calls,     \* calls[c]: the calls client c has written
    served,    \* served[c]: how many of them handle_client has run
    resp,      \* resp[c]: the responses written to client c, [call, ret]
    rd,        \* rd[c]: how many of them client c has read
    busy,      \* busy[c]: "no", or blocked reading a "resp" or a "notify"
    notified,  \* accept messages written to the listening socket
    accepted   \* accept messages client B has read

vars == <<sock, chan, lost, calls, served, resp, rd, busy, notified, accepted>>
cliVars == <<calls, rd, busy, accepted>>

SendTo(q, out) == IF Len(q) >= ChanCap THEN q ELSE q \o out

\* Station d sends frame f to its peer (a full channel loses it)
Emit(d, f) == chan' = [chan EXCEPT ![Peer(d)] = SendTo(@, <<f>>)]

\* Station d sends the frames out, none or one, to its peer
EmitAll(d, out) == chan' = [chan EXCEPT ![Peer(d)] = SendTo(@, out)]

\* sock_close: the socket leaves socks_local only when LISTENING and
\* socks_remote only when PENDING_ACCEPT, PENDING_CONNECT, PENDING_DISCONNECT
\* or ESTABLISHED, then socks_by_fd and clients_by_sock, and is destroyed.
\* An entry it does not remove stays behind, naming the destroyed socket.
SockClose(x) ==
    LET s == sock[x] IN
    sock' = [sock EXCEPT ![x] =
                [NoSock EXCEPT
                    !.local  = s.local /\ s.state # "LISTENING",
                    !.remote = s.remote /\ s.state \notin {"PENDING_ACCEPT",
                                  "PENDING_CONNECT", "PENDING_DISCONNECT",
                                  "ESTABLISHED"}]]

\* Station d takes the frame at the head of its channel and sends the
\* frames out (none or one) in reply
Consume(d, out) ==
    chan' = [chan EXCEPT ![d] = Tail(@), ![Peer(d)] = SendTo(@, out)]

Respond(c, call, ret) ==
    resp' = [resp EXCEPT ![c] = Append(@, [call |-> call, ret |-> ret])]

\* sock_by_addrpair(socks_remote, ...) and sock_by_addr(socks_local, ...)
\* at station d: the peer has one address, so a lookup is a set of at most
\* one socket
RemoteAt(d) == {x \in SocksAt(d) : sock[x].remote}
LocalAt(d)  == {x \in SocksAt(d) : sock[x].local}

(***************************************************************************)
(* The clients (client.c)                                                  *)
(***************************************************************************)
\* patty_client_socket, _bind, _listen, _accept, _connect, _close: write
\* the call and its request
ClientCall(c) ==
    /\ busy[c] = "no"
    /\ Len(calls[c]) < Len(Prog[c])
    /\ calls' = [calls EXCEPT ![c] = Append(@, Prog[c][Len(@) + 1])]
    /\ busy' = [busy EXCEPT ![c] = "resp"]
    /\ UNCHANGED <<sock, chan, lost, served, resp, rd, notified, accepted>>

\* ... then read the next response on the request socket, whatever call
\* it answers; accept goes on to wait for the accept message when the
\* response says the socket is listening
ClientReturn(c) ==
    /\ busy[c] = "resp"
    /\ rd[c] < Len(resp[c])
    /\ rd' = [rd EXCEPT ![c] = @ + 1]
    /\ busy' = [busy EXCEPT ![c] =
                  IF calls[c][Len(calls[c])] = "accept"
                       /\ resp[c][rd[c] + 1].ret = "ok"
                  THEN "notify" ELSE "no"]
    /\ UNCHANGED <<sock, chan, lost, calls, served, resp, notified, accepted>>

\* patty_client_accept reading the accept message from the listening fd
ClientAccepted(c) ==
    /\ busy[c] = "notify"
    /\ accepted < notified
    /\ accepted' = accepted + 1
    /\ busy' = [busy EXCEPT ![c] = "no"]
    /\ UNCHANGED <<sock, chan, lost, calls, served, resp, rd, notified>>

(***************************************************************************)
(* The server calls (server.c), run by handle_client for the next request *)
(***************************************************************************)
\* server_socket: patty_ax25_sock_new, then sock_save (by fd only, the
\* socket being CLOSED)
ServerSocket(c) ==
    /\ sock' = [sock EXCEPT ![SockOf(c)] = SockSave(NewSock)]
    /\ Respond(c, "socket", "ok")
    /\ UNCHANGED <<chan, notified>>

\* server_bind
ServerBind(c) ==
    LET x == SockOf(c)
        ret == CASE ~sock[x].fd                       -> "EBADF"
                 [] sock[x].bound                     -> "EINVAL"
                 [] LocalAt(StationOf(x)) # {}        -> "EADDRINUSE"
                 [] OTHER                             -> "ok"
    IN /\ sock' = IF ret = "ok" THEN [sock EXCEPT ![x].bound = TRUE] ELSE sock
       /\ Respond(c, "bind", ret)
       /\ UNCHANGED <<chan, notified>>

\* server_listen; on an unbound socket it writes a response whose ret it
\* never set
ServerListen(c) ==
    LET x == SockOf(c)
        ret == CASE ~sock[x].fd    -> "EBADF"
                 [] ~sock[x].bound -> "uninitialized"
                 [] OTHER          -> "ok"
    IN /\ sock' = IF ret = "ok"
                  THEN [sock EXCEPT ![x].state = "LISTENING", ![x].local = TRUE]
                  ELSE sock
       /\ Respond(c, "listen", ret)
       /\ UNCHANGED <<chan, notified>>

\* server_accept: only says whether the socket is listening; the
\* connection itself is announced by handle_sabm
ServerAccept(c) ==
    LET x == SockOf(c)
    IN /\ Respond(c, "accept", CASE ~sock[x].fd                 -> "EBADF"
                                 [] sock[x].state # "LISTENING" -> "EINVAL"
                                 [] OTHER                       -> "ok")
       /\ UNCHANGED <<sock, chan, notified>>

\* server_connect: with a route, bind the interface (and its address),
\* save the socket by address pair, enter PENDING_CONNECT, send an XID
\* command and start T1.  The response waits for UA, DM or T1.
ServerConnect(c) ==
    LET x == SockOf(c)
        err == CASE ~sock[x].fd                      -> "EBADF"
                 [] sock[x].state = "LISTENING"      -> "EINVAL"
                 [] sock[x].state = "ESTABLISHED"    -> "EISCONN"
                 [] ~Routed                          -> "ENETDOWN"
                 [] OTHER                            -> "none"
    IN IF err # "none"
       THEN /\ Respond(c, "connect", err)
            /\ UNCHANGED <<sock, chan, notified>>
       ELSE LET s == [BindIf(sock[x]) EXCEPT !.remote = TRUE, !.state = "PENDING_CONNECT"]
            IN /\ sock' = [sock EXCEPT ![x] = [s EXCEPT !.retries = s.n_retry,
                                                        !.t1 = "running"]]
               /\ Emit(StationOf(x), XidFrame(s, "cmd"))
               /\ UNCHANGED <<resp, notified>>

\* server_close: sock_shutdown (DISC if ESTABLISHED) and at once
\* sock_close, which forgets and destroys the socket
ServerClose(c) ==
    LET x == SockOf(c)
    IN IF ~sock[x].fd
       THEN /\ Respond(c, "close", "EBADF")
            /\ UNCHANGED <<sock, chan, notified>>
       ELSE /\ EmitAll(StationOf(x), ShutdownFrames(sock[x]))
            /\ SockClose(x)
            /\ Respond(c, "close", "ok")
            /\ UNCHANGED notified

\* handle_client: read the call and run it (server_calls)
HandleClient(c) ==
    /\ served[c] < Len(calls[c])
    /\ served' = [served EXCEPT ![c] = @ + 1]
    /\ LET call == calls[c][served[c] + 1]
       IN CASE call = "socket"  -> ServerSocket(c)
            [] call = "bind"    -> ServerBind(c)
            [] call = "listen"  -> ServerListen(c)
            [] call = "accept"  -> ServerAccept(c)
            [] call = "connect" -> ServerConnect(c)
            [] call = "close"   -> ServerClose(c)
    /\ UNCHANGED <<lost, cliVars>>

(***************************************************************************)
(* The frame handlers of handle_frame at station d, for the frame at the  *)
(* head of chan[d]                                                         *)
(***************************************************************************)
Arrived(d, t) == chan[d] # <<>> /\ Head(chan[d]).type = t

\* patty_ax25_sock_reset: T1 started, T2 and T3 cleared, retries restored
SockReset(s) == [s EXCEPT !.t1 = "running", !.t3 = "stopped", !.retries = s.n_retry]

\* The mode handle_xid gives a socket for the peer's parameters
XidMode(p, mode) == IF (p.hdlc & HdlcModulo128) # 0 THEN "SABME" ELSE mode

\* handle_xid.  The frame's parameters are decoded (a frame patty encodes
\* always decodes).  A socket saved by address pair must be waiting in
\* PENDING_CONNECT: patty_ax25_sock_params_negotiate applies the
\* parameters; if it refuses them the socket is re-initialised and reset
\* and connect fails, else the socket takes modulo 128 if offered, sends
\* SABM or SABME, and restarts T1 and the retries.  Otherwise a listening
\* socket gets a new socket in PENDING_ACCEPT, in modulo 128 if offered,
\* bound, at the v2.2 maxima, negotiated down and saved, which answers
\* with its own XID response and starts T1.  Anything else gets DM.
HandleXid(d) ==
    /\ Arrived(d, "XID")
    /\ \E dec \in {Lookup(XidDecodedTable, Head(chan[d]).info)} :
       /\ dec.ok
       /\ \/ \E x \in RemoteAt(d) :
               IF sock[x].state # "PENDING_CONNECT"
               THEN /\ Consume(d, <<Frame("DM", "resp")>>)
                    /\ UNCHANGED <<sock, resp>>
               ELSE \E n \in {ParamsNegotiate(sock[x], dec.p)} :
                    IF ~n.ok
                    THEN /\ sock' = [sock EXCEPT ![x] = SockReset(SockInit(n.sock))]
                         /\ Respond(Owner(x), "connect", n.err)
                         /\ Consume(d, <<>>)
                    ELSE LET s == [n.sock EXCEPT !.mode = XidMode(n.params, @),
                                                 !.t1 = "running", !.retries = n.sock.n_retry]
                         IN /\ sock' = [sock EXCEPT ![x] = s]
                            /\ Consume(d, <<SabmFrame(s)>>)
                            /\ UNCHANGED resp
          \/ /\ RemoteAt(d) = {}
             /\ \E x \in LocalAt(d) : sock[x].state = "LISTENING"
             /\ LET r0 == BindIf([NewSock EXCEPT !.state = "PENDING_ACCEPT",
                                                 !.mode = XidMode(dec.p, @)])
                    n  == ParamsNegotiate(ParamsMax(r0), dec.p)
                    r  == SockSave([n.sock EXCEPT !.t1 = "running",
                                                  !.retries = n.sock.n_retry])
                IN IF n.ok
                   THEN /\ sock' = [sock EXCEPT !["r"] = r]
                        /\ Consume(d, <<XidFrame(r, "resp")>>)
                   ELSE /\ Consume(d, <<>>)
                        /\ UNCHANGED sock
             /\ UNCHANGED resp
          \/ /\ RemoteAt(d) = {}
             /\ ~\E x \in LocalAt(d) : sock[x].state = "LISTENING"
             /\ Consume(d, <<Frame("DM", "resp")>>)
             /\ UNCHANGED <<sock, resp>>
    /\ UNCHANGED notified

\* handle_sabm making r ESTABLISHED: SABME upgrades it to the v2.2
\* defaults and modulo 128, SABM sets modulo 8; then it is bound to the
\* interface
SabmEstablish(d, r) ==
    LET m == [r EXCEPT !.state = "ESTABLISHED"]
    IN BindIf(IF Head(chan[d]).type = "SABME"
              THEN [ParamsUpgrade(m) EXCEPT !.mode = "SABME"]
              ELSE [m EXCEPT !.mode = "SABM"])

\* A handle_sabm that announces only the sockets it created itself, not
\* those an XID created
SabmAcceptCreatedOnly(d, r) ==
    LET est == [SabmEstablish(d, r) EXCEPT !.t3 = "running"]
    IN /\ sock' = [sock EXCEPT !["r"] = IF RemoteAt(d) = {} THEN SockSave(est) ELSE est]
       /\ notified' = notified + (IF RemoteAt(d) = {} THEN 1 ELSE 0)
       /\ Consume(d, <<Frame("UA", "resp")>>)

\* The tail of handle_sabm for the socket r, new or in PENDING_ACCEPT: it
\* becomes ESTABLISHED, is saved if new (sock_save), its pty is watched,
\* notify_accept writes the accept message to the listening socket, T3
\* starts and UA is sent.  T1, running since the XID reply, is left alone.
SabmAccept(d, r) ==
    LET est == [SabmEstablish(d, r) EXCEPT !.t3 = "running"]
    IN /\ sock' = [sock EXCEPT !["r"] = IF RemoteAt(d) = {} THEN SockSave(est) ELSE est]
       /\ notified' = notified + 1
       /\ Consume(d, <<Frame("UA", "resp")>>)

\* handle_sabm.  Without a listening socket for the address, DM.  The
\* socket for the address pair (from an earlier XID) or a new one in
\* PENDING_ACCEPT is accepted; one already ESTABLISHED is reset
\* (patty_ax25_sock_reset: T1 started, T3 cleared, retries restored) and
\* answered with UA; one in any other state gets DM.
HandleSabm(d) ==
    LET listening == \E x \in LocalAt(d) : sock[x].state = "LISTENING"
        r == IF RemoteAt(d) = {}
             THEN [NewSock EXCEPT !.state = "PENDING_ACCEPT"]
             ELSE sock["r"]
    IN /\ Arrived(d, "SABM") \/ Arrived(d, "SABME")
       /\ \/ /\ ~listening
             /\ Consume(d, <<Frame("DM", "resp")>>)
             /\ UNCHANGED <<sock, notified>>
          \/ /\ listening /\ r.state = "ESTABLISHED"
             /\ Consume(d, <<Frame("UA", "resp")>>)
             /\ sock' = [sock EXCEPT !["r"] = SockReset(@)]
             /\ UNCHANGED notified
          \/ /\ listening /\ r.state # "ESTABLISHED"
             /\ IF r.state = "PENDING_ACCEPT"
                THEN SabmAccept(d, r)
                ELSE /\ Consume(d, <<Frame("DM", "resp")>>)
                     /\ UNCHANGED <<sock, notified>>
       /\ UNCHANGED resp

\* handle_ua.  In PENDING_CONNECT: stop T1, start T3, ESTABLISHED, saved
\* again, and the connect call is answered.  In ESTABLISHED nothing;
\* without a socket, or in another state, DM.
HandleUa(d) ==
    /\ Arrived(d, "UA")
    /\ \/ \E x \in RemoteAt(d) :
            /\ sock[x].state = "PENDING_CONNECT"
            /\ sock' = [sock EXCEPT ![x].t1 = "stopped", ![x].t3 = "running",
                                     ![x].state = "ESTABLISHED"]
            /\ Respond(Owner(x), "connect", "ok")
            /\ Consume(d, <<>>)
       \/ \E x \in RemoteAt(d) :
            /\ sock[x].state = "ESTABLISHED"
            /\ Consume(d, <<>>)
            /\ UNCHANGED <<sock, resp>>
       \/ /\ ~\E x \in RemoteAt(d) :
                 sock[x].state \in {"PENDING_CONNECT", "ESTABLISHED"}
          /\ Consume(d, <<Frame("DM", "resp")>>)
          /\ UNCHANGED <<sock, resp>>
    /\ UNCHANGED notified

\* handle_dm.  In PENDING_CONNECT: patty_ax25_sock_reset (which starts T1,
\* clears T3 and restores the retries) and the connect call is answered
\* ECONNREFUSED; the socket stays in PENDING_CONNECT.  Otherwise ignored.
HandleDm(d) ==
    /\ Arrived(d, "DM")
    /\ Consume(d, <<>>)
    /\ \/ \E x \in RemoteAt(d) :
            /\ sock[x].state = "PENDING_CONNECT"
            /\ sock' = [sock EXCEPT ![x] = SockReset(@)]
            /\ Respond(Owner(x), "connect", "ECONNREFUSED")
       \/ /\ ~\E x \in RemoteAt(d) : sock[x].state = "PENDING_CONNECT"
          /\ UNCHANGED <<sock, resp>>
    /\ UNCHANGED notified

\* handle_disc.  ESTABLISHED: sock_close and UA; otherwise DM.
HandleDisc(d) ==
    /\ Arrived(d, "DISC")
    /\ \/ \E x \in RemoteAt(d) :
            /\ sock[x].state = "ESTABLISHED"
            /\ SockClose(x)
            /\ Consume(d, <<Frame("UA", "resp")>>)
       \/ /\ ~\E x \in RemoteAt(d) : sock[x].state = "ESTABLISHED"
          /\ Consume(d, <<Frame("DM", "resp")>>)
          /\ UNCHANGED sock
    /\ UNCHANGED <<resp, notified>>

\* handle_rr with nothing outstanding, in whatever state the socket is:
\* frame_ack starts T3, stops T1 (patty_ax25_sock_ack returns 1 for
\* N(R) = V(A)) and, the RR having P/F set, restores the retries; a
\* command is answered with an RR response.  Without a socket, ignored.
HandleRr(d) ==
    /\ Arrived(d, "RR")
    /\ \/ \E x \in RemoteAt(d) :
            /\ sock' = [sock EXCEPT ![x].t3 = "running", ![x].t1 = "stopped",
                                     ![x].retries = sock[x].n_retry]
            /\ Consume(d, IF Head(chan[d]).cr = "cmd"
                          THEN <<SFrame(sock[x], "RR", "resp")>> ELSE <<>>)
       \/ /\ RemoteAt(d) = {}
          /\ Consume(d, <<>>)
          /\ UNCHANGED sock
    /\ UNCHANGED <<resp, notified>>

(***************************************************************************)
(* handle_sock: the timers of a socket in socks_by_fd                      *)
(***************************************************************************)
\* A retry test made after the decrement
RetriesLeftAfterDecrement(s) == s.retries >= 0

\* if (sock->retries--): a retry is left while the count is non-zero
RetriesLeft(s) == s.retries > 0

\* On T1 expiry, while retries-- is non-zero: PENDING_ACCEPT resends the
\* XID response, PENDING_CONNECT resends SABM, ESTABLISHED polls with RR
\* (nothing being pending to resend); each restarts T1.  When the retries
\* are spent: PENDING_ACCEPT closes; PENDING_CONNECT closes and answers
\* connect ETIMEDOUT; ESTABLISHED sends DISC (sock_shutdown) and closes.
\* In ESTABLISHED with T1 not expired, T3 expiry restores the retries,
\* stops T3, starts T1 and polls with RR.
HandleSock(x) ==
    LET s == sock[x]
        d == StationOf(x)
        Resend == CASE s.state = "PENDING_ACCEPT"  -> XidFrame(s, "resp")
                    [] s.state = "PENDING_CONNECT" -> SabmFrame(s)
                    [] OTHER                       -> SFrame(s, "RR", "cmd")
    IN /\ s.fd
       /\ s.state \in {"PENDING_ACCEPT", "PENDING_CONNECT", "ESTABLISHED"}
       /\ \/ /\ s.t1 = "expired" /\ RetriesLeft(s)
             /\ sock' = [sock EXCEPT ![x].t1 = "running", ![x].retries = @ - 1]
             /\ Emit(d, Resend)
             /\ UNCHANGED resp
          \/ /\ s.t1 = "expired" /\ ~RetriesLeft(s)
             /\ SockClose(x)
             /\ EmitAll(d, ShutdownFrames(s))
             /\ IF s.state = "PENDING_CONNECT"
                THEN Respond(Owner(x), "connect", "ETIMEDOUT") ELSE UNCHANGED resp
          \/ /\ s.t1 # "expired" /\ s.t3 = "expired"
             /\ s.state = "ESTABLISHED"
             /\ sock' = [sock EXCEPT ![x].retries = s.n_retry, ![x].t3 = "stopped",
                                      ![x].t1 = "running"]
             /\ Emit(d, SFrame(s, "RR", "cmd"))
             /\ UNCHANGED resp
    /\ UNCHANGED <<lost, served, notified, cliVars>>

(***************************************************************************)
(* The environment                                                         *)
(***************************************************************************)
\* patty_timer_tick: time passes until a running timer expires
Expire(x, t) ==
    /\ sock[x][t] = "running"
    /\ sock' = [sock EXCEPT ![x][t] = "expired"]
    /\ UNCHANGED <<chan, lost, served, resp, notified, cliVars>>

\* The radio loses a frame
Lose(d) ==
    /\ lost < MaxLoss
    /\ chan[d] # <<>>
    /\ chan' = [chan EXCEPT ![d] = Tail(@)]
    /\ lost' = lost + 1
    /\ UNCHANGED <<sock, served, resp, notified, cliVars>>

Receive(d) ==
    /\ \/ HandleXid(d) \/ HandleSabm(d) \/ HandleUa(d)
       \/ HandleDm(d) \/ HandleDisc(d) \/ HandleRr(d)
    /\ UNCHANGED <<lost, served, cliVars>>

Init ==
    /\ sock = [x \in SockIds |-> NoSock]
    /\ chan = [d \in Stations |-> <<>>]
    /\ lost = 0
    /\ calls = [c \in Stations |-> <<>>]
    /\ served = [c \in Stations |-> 0]
    /\ resp = [c \in Stations |-> <<>>]
    /\ rd = [c \in Stations |-> 0]
    /\ busy = [c \in Stations |-> "no"]
    /\ notified = 0
    /\ accepted = 0

Next ==
    \/ \E c \in Stations :
          ClientCall(c) \/ ClientReturn(c) \/ ClientAccepted(c) \/ HandleClient(c)
    \/ \E d \in Stations : Receive(d) \/ Lose(d)
    \/ \E x \in SockIds : HandleSock(x) \/ \E t \in {"t1", "t3"} : Expire(x, t)

Spec == Init /\ [][Next]_vars

\* The event loop keeps serving clients, frames and timers; clients that
\* are not blocked go on with their programs; a running timer runs out
FairSpec ==
    /\ Spec
    /\ \A c \in Stations : /\ WF_vars(ClientCall(c)) /\ WF_vars(ClientReturn(c))
                           /\ WF_vars(ClientAccepted(c)) /\ WF_vars(HandleClient(c))
    /\ \A d \in Stations : WF_vars(Receive(d))
    /\ \A x \in SockIds : /\ WF_vars(HandleSock(x))
                          /\ \A t \in {"t1", "t3"} : WF_vars(Expire(x, t))

(***************************************************************************)
(* Properties                                                              *)
(***************************************************************************)
TypeOK ==
    /\ \A x \in SockIds :
         /\ sock[x].state \in {"NONE", "CLOSED", "LISTENING", "PENDING_ACCEPT",
                               "PENDING_CONNECT", "ESTABLISHED"}
         /\ {sock[x].t1, sock[x].t3} \subseteq {"stopped", "running", "expired"}
         /\ sock[x].retries \in 0..NRetry
         /\ sock[x].mode \in {"DM", "SABM", "SABME"}
    /\ \A d \in Stations : Len(chan[d]) <= ChanCap
    /\ lost \in 0..MaxLoss
    /\ \A c \in Stations : rd[c] <= Len(resp[c]) /\ served[c] <= Len(calls[c])

\* Every response the daemon writes to a client's request socket answers
\* that client's calls one for one and in order, so that each blocking
\* call of client.c reads the response to itself: no server call or frame
\* handler answers a call twice or answers one that was not made
RepliesMatch ==
    \A c \in Stations :
        IsPrefix([i \in DOMAIN resp[c] |-> resp[c][i].call], calls[c])

\* When client A's connect call returns success, station B has written
\* the accept message for the connection to client B's listening socket:
\* the UA that handle_ua takes for PENDING_CONNECT comes only from a
\* handle_sabm that announced the socket
ConnectAnnounced ==
    (\E i \in DOMAIN resp["A"] : resp["A"][i] = [call |-> "connect", ret |-> "ok"])
        => notified >= 1

\* Once both ends of the link are ESTABLISHED they use the same sequence
\* numbering: the connecting socket's mode (modulo 128 after an XID
\* exchange, set in handle_xid) is the mode the listener's socket took
\* from the SABM or SABME that established it (handle_sabm), so control
\* fields are encoded and decoded with the same width on both sides
ModesAgree ==
    sock["a"].state = "ESTABLISHED" /\ sock["r"].state = "ESTABLISHED"
        => sock["a"].mode = sock["r"].mode

\* Client A's connect call always returns: UA, DM or the T1 retries
\* running out answers it, whatever frame (one at most) the radio loses
ConnectAnswered ==
    <>(\E i \in DOMAIN resp["A"] : resp["A"][i].call = "connect")

====
