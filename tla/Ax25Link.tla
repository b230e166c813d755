------------------------------ MODULE Ax25Link ------------------------------
(***************************************************************************)
(* Data transfer on an established AX.25 stream connection between two    *)
(* patty connection sockets (src/src/sock.c, src/src/server.c).            *)
(*                                                                         *)
(* Each socket runs the same code: the event loop's handle_sock() drives   *)
(* its timers and reads its pty, and handle_frame() dispatches every       *)
(* frame addressed to it to handle_i/rr/rnr/rej/srej/disc/ua/dm.  Frames   *)
(* travel over a radio channel per direction that keeps their order but    *)
(* may lose any of them.  Data is abstracted to the index of the pty read  *)
(* that produced it: the n-th read of a socket's pty yields datum n.       *)
(*                                                                         *)
(* Timers are abstracted to stopped / running / expired: elapsed time may  *)
(* expire any running timer before handle_sock() looks at it.              *)
(***************************************************************************)
EXTENDS Integers, Sequences, SequencesExt, FiniteSets

CONSTANTS
    Socks,          \* the two connection sockets, one per station
    Mode,           \* sock->mode of both sockets: "SABM" or "SABME"
    WindowTx,       \* sock->n_window_tx
    WindowRx,       \* sock->n_window_rx
    NRetry,         \* sock->n_retry
    Writes,         \* Writes[s]: pty reads that return data on socket s
    Exchanged,      \* Exchanged[s]: of those, already sent and acked at start
    Hangup,         \* the sockets whose client closes its pty at some point
    ChanCap,        \* bound: frames on the air per direction
    MaxLoss,        \* bound: frames the radio loses in one behaviour
    QuietTimers     \* TRUE: a timer runs out only while the link is idle

ASSUME Cardinality(Socks) = 2
ASSUME Mode \in {"SABM", "SABME"}
ASSUME WindowTx \in Nat \ {0} /\ WindowRx \in Nat /\ NRetry \in Nat
ASSUME ChanCap \in Nat \ {0}
ASSUME \A s \in Socks : Exchanged[s] \in 0 .. Writes[s]
ASSUME Hangup \subseteq Socks
ASSUME QuietTimers \in BOOLEAN

Peer(s) == CHOOSE t \in Socks : t # s

\* tx_slots(), patty_ax25_sock_vs_incr(), patty_ax25_sock_vr_incr()
Modulus == IF Mode = "SABME" THEN 128 ELSE 8
SeqNo   == 0 .. Modulus - 1

TimerState == {"stopped", "running", "expired"}
\* the frames patty sends on a stream connection (it never sends RNR)
FrameKind  == {"I", "RR", "REJ", "SREJ", "DISC", "UA", "DM"}
Frame == [kind: FrameKind, cr: {"C", "R"}, pf: {0, 1},
          nr: SeqNo, ns: SeqNo, data: Nat]

VARIABLES
    state,      \* sock->state; "CLOSED" once sock_close() destroyed it
    vs, vr, va, \* sock->vs, sock->vr, sock->va
    slot,       \* sock->tx_slots: [data, ack]; data 0 is slot->len == 0
    rxPending,  \* sock->rx_pending
    t1, t2, t3, \* sock->timer_t1, timer_t2, timer_t3
    retries,    \* sock->retries
    watched,    \* sock->fd is in server->fds_watch
    written,    \* pty reads that returned data so far
    hup,        \* the client has closed its side of the pty
    delivered,  \* how many of the peer's data reached the pty in order
    duplicated, \* handle_i() wrote a datum the pty already had
    skipped,    \* handle_i() wrote a datum ahead of the next one due
    chan,       \* chan[s]: frames on the air addressed to s
    lost        \* frames lost so far

vars == <<state, vs, vr, va, slot, rxPending, t1, t2, t3, retries,
          watched, written, hup, delivered, duplicated, skipped, chan, lost>>

\* the pty side of a socket as the client sees it
pty == <<delivered, duplicated, skipped>>

sockVars == <<state, vs, vr, va, slot, rxPending, t1, t2, t3, retries,
              watched>>

-----------------------------------------------------------------------------
(* Frames and the channel *)

\* Mutation of VsIncr: the & 0x07 mask forgotten
VsIncrUnmasked(s) == [vs EXCEPT ![s] = @ + 1]

\* patty_ax25_sock_vs_incr(): V(S) advances modulo the sequence space
VsIncr(s) == [vs EXCEPT ![s] = (@ + 1) % Modulus]

\* patty_ax25_sock_flow_left() for V(S) = v and V(A) = a
FlowLeftOf(v, a) ==
    IF WindowTx = 1 THEN 1 ELSE v - ((a + WindowTx) % Modulus)

FlowLeft(s) == FlowLeftOf(vs[s], va[s])

\* control_i(): N(R) = V(R); P is set when flow_left() is 1
IFrameWith(s, ns, d, flow) ==
    [kind |-> "I", cr |-> "C", pf |-> IF flow = 1 THEN 1 ELSE 0,
     nr |-> vr[s], ns |-> ns, data |-> d]

IFrame(s, ns, d) == IFrameWith(s, ns, d, FlowLeft(s))

\* control_s(): supervisory frame carrying N(R) = V(R)
SFrame(kind, cr, pf, nr) ==
    [kind |-> kind, cr |-> cr, pf |-> pf, nr |-> nr, ns |-> 0, data |-> 0]

\* control_u(), reply_dm(), reply_ua()
UFrame(kind, cr, pf) ==
    [kind |-> kind, cr |-> cr, pf |-> pf, nr |-> 0, ns |-> 0, data |-> 0]

\* patty_ax25_if_send(): a frame sent while the channel is full is lost
Sent(c, d, f) == [c EXCEPT ![d] = IF Len(@) < ChanCap THEN Append(@, f) ELSE @]

Consumed(s) == [chan EXCEPT ![s] = Tail(@)]

\* write(sock->fd, frame->info, ...) in handle_i(): datum d reaches the pty
Deliver(s, d) ==
    /\ delivered' = [delivered EXCEPT ![s] = IF d = @ + 1 THEN d ELSE @]
    /\ duplicated' = [duplicated EXCEPT ![s] = @ \/ d <= delivered[s]]
    /\ skipped' = [skipped EXCEPT ![s] = @ \/ d > delivered[s] + 1]

-----------------------------------------------------------------------------
(* Sliding window helpers of sock.c *)

Unacked(sl, i) == sl[i].data # 0 /\ ~sl[i].ack

\* Mutation of AckSpan: the loop runs to N(R) inclusive (i <= max)
AckSpanThrough(s, nr) ==
    {(va[s] + j) % Modulus : j \in 0 .. (nr - va[s] + Modulus) % Modulus}

\* The sequence numbers patty_ax25_sock_ack() walks: V(A) up to N(R), wrapping
AckSpan(s, nr) ==
    {(va[s] + j) % Modulus : j \in 0 .. ((nr - va[s] + Modulus) % Modulus) - 1}

NewlyAcked(s, nr) == {i \in AckSpan(s, nr) : Unacked(slot[s], i)}

\* patty_ax25_sock_ack(): its return value
AckCount(s, nr) ==
    IF nr = va[s] THEN 1 ELSE Cardinality(NewlyAcked(s, nr))

\* patty_ax25_sock_ack(): V(A) moves past the last slot it newly acked
AckVa(s, nr) ==
    IF NewlyAcked(s, nr) = {} THEN va[s]
    ELSE LET pos(i) == (i - va[s] + Modulus) % Modulus
             last   == CHOOSE i \in NewlyAcked(s, nr) :
                           \A k \in NewlyAcked(s, nr) : pos(k) <= pos(i)
         IN  (last + 1) % Modulus

AckSlot(s, nr) ==
    [i \in SeqNo |-> IF i \in NewlyAcked(s, nr)
                     THEN [slot[s][i] EXCEPT !.ack = TRUE] ELSE slot[s][i]]

\* patty_ax25_sock_ack_pending(), after the ack
PendingAfter(s, nr) ==
    Cardinality({i \in SeqNo : Unacked(AckSlot(s, nr), i)})

(***************************************************************************)
(* frame_ack() in server.c, as the values it leaves behind.  rx_pending is *)
(* cleared and T3 started by every call.                                   *)
(***************************************************************************)
\* A frame_ack() that cancels T1 and never starts it again for frames still
\* unacknowledged
AckT1NoRestart(s, f) ==
    IF AckCount(s, f.nr) > 0 THEN "stopped" ELSE t1[s]

AckT1(s, f) ==
    IF AckCount(s, f.nr) > 0
    THEN IF PendingAfter(s, f.nr) > 0 THEN "running" ELSE "stopped"
    ELSE t1[s]

\* Section 6.4.11: a supervisory frame with F set and N(R) between V(A)
\* and V(S) rolls V(S) back to N(R)
Checkpoint(s, f) ==
    LET min == AckVa(s, f.nr)
        max == IF vs[s] < min THEN vs[s] + Modulus ELSE vs[s]
    IN  /\ f.kind \in {"RR", "REJ", "SREJ"}
        /\ f.pf = 1
        /\ f.nr >= min /\ f.nr <= max

AckVs(s, f) == IF Checkpoint(s, f) THEN f.nr ELSE vs[s]

AckRetries(s, f) ==
    IF \/ AckCount(s, f.nr) > 0 /\ PendingAfter(s, f.nr) > 0
       \/ Checkpoint(s, f)
    THEN NRetry ELSE retries[s]

\* The part of every handler that applies frame_ack()
FrameAck(s, f) ==
    /\ va' = [va EXCEPT ![s] = AckVa(s, f.nr)]
    /\ slot' = [slot EXCEPT ![s] = AckSlot(s, f.nr)]
    /\ vs' = [vs EXCEPT ![s] = AckVs(s, f)]
    /\ t1' = [t1 EXCEPT ![s] = AckT1(s, f)]
    /\ retries' = [retries EXCEPT ![s] = AckRetries(s, f)]

-----------------------------------------------------------------------------
(***************************************************************************)
(* The link as handle_sabm() and handle_ua() leave it, after each side has *)
(* sent Exchanged[s] data without loss and had all of them acknowledged:   *)
(* datum n went out with N(S) = (n - 1) % Modulus, and a slot holds the    *)
(* last datum sent with its number.                                        *)
(***************************************************************************)
SlotAtStart(s, i) ==
    LET sentThere == {n \in 1 .. Exchanged[s] : (n - 1) % Modulus = i}
    IN  IF sentThere = {} THEN [data |-> 0, ack |-> FALSE]
        ELSE [data |-> CHOOSE n \in sentThere : \A m \in sentThere : m <= n,
              ack |-> TRUE]

Init ==
    /\ state = [s \in Socks |-> "ESTABLISHED"]
    /\ vs = [s \in Socks |-> Exchanged[s] % Modulus]
    /\ vr = [s \in Socks |-> Exchanged[Peer(s)] % Modulus]
    /\ va = [s \in Socks |-> Exchanged[s] % Modulus]
    /\ slot = [s \in Socks |-> [i \in SeqNo |-> SlotAtStart(s, i)]]
    /\ rxPending = [s \in Socks |-> 0]
    /\ t1 = [s \in Socks |-> "stopped"]
    /\ t2 = [s \in Socks |-> "stopped"]
    /\ t3 = [s \in Socks |-> "running"]
    /\ retries = [s \in Socks |-> NRetry]
    /\ watched = [s \in Socks |-> TRUE]
    /\ written = [s \in Socks |-> Exchanged[s]]
    /\ hup = [s \in Socks |-> FALSE]
    /\ delivered = [s \in Socks |-> Exchanged[Peer(s)]]
    /\ duplicated = [s \in Socks |-> FALSE]
    /\ skipped = [s \in Socks |-> FALSE]
    /\ chan = [s \in Socks |-> <<>>]
    /\ lost = 0

-----------------------------------------------------------------------------
(* Frame handlers of server.c; chan[s] holds the frames addressed to s *)

Live(s) == state[s] # "CLOSED"

Arrived(s, kind) == chan[s] # <<>> /\ Head(chan[s]).kind = kind

\* Sending f to the peer while consuming the frame being handled
Reply(s, f) == Sent(Consumed(s), Peer(s), f)

\* handle_i(): an I frame for a socket that is gone or not ESTABLISHED
HandleIRefused(s) ==
    /\ Arrived(s, "I")
    /\ state[s] # "ESTABLISHED"
    /\ chan' = IF Head(chan[s]).pf = 1 THEN Reply(s, UFrame("DM", "R", 1))
                                       ELSE Consumed(s)
    /\ UNCHANGED <<sockVars, written, hup, pty, lost>>

(***************************************************************************)
(* handle_i(): frame_ack(), then N(S) is compared with V(R) as plain       *)
(* integers.  N(S) = V(R) + 1 asks for a selective reject, a larger N(S)   *)
(* for a reject, and any other N(S) -- the expected one, or one below V(R) *)
(* -- is written to the pty; only the expected one advances V(R).          *)
(***************************************************************************)
HandleI(s) ==
    LET f == Head(chan[s]) IN
    /\ Arrived(s, "I")
    /\ state[s] = "ESTABLISHED"
    /\ FrameAck(s, f)
    /\ t3' = [t3 EXCEPT ![s] = "running"]
    /\ \/ /\ f.ns = vr[s] + 1
          /\ chan' = Reply(s, SFrame("SREJ", "R", 1, vr[s]))
          /\ rxPending' = [rxPending EXCEPT ![s] = 0]
          /\ UNCHANGED <<vr, t2, pty>>
       \/ /\ f.ns > vr[s] + 1
          /\ chan' = Reply(s, SFrame("REJ", "R", 1, vr[s]))
          /\ rxPending' = [rxPending EXCEPT ![s] = 0]
          /\ UNCHANGED <<vr, t2, pty>>
       \/ /\ f.ns <= vr[s]
          /\ LET vr1 == IF f.ns = vr[s] THEN (vr[s] + 1) % Modulus ELSE vr[s]
                 \* ++rx_pending, frame_ack() having cleared it
                 rx1 == 0 + 1
             IN  /\ vr' = [vr EXCEPT ![s] = vr1]
                 /\ Deliver(s, f.data)
                 /\ IF f.pf = 1 \/ rx1 = WindowRx \div 2
                    THEN /\ rxPending' = [rxPending EXCEPT ![s] = 0]
                         /\ t2' = [t2 EXCEPT ![s] = "stopped"]
                         /\ chan' = IF f.pf = 1
                                    THEN Reply(s, SFrame("RR", "R", 1, vr1))
                                    ELSE Consumed(s)
                    ELSE /\ rxPending' = [rxPending EXCEPT ![s] = rx1]
                         /\ t2' = [t2 EXCEPT ![s] = "running"]
                         /\ chan' = Consumed(s)
    /\ UNCHANGED <<state, watched, written, hup, lost>>

\* handle_rr(), handle_rej(): frame_ack(); a command with P set is answered
\* by RR with F set; a response starts reading the pty again
HandleS(s, kind) ==
    LET f == Head(chan[s]) IN
    /\ Arrived(s, kind)
    /\ Live(s)
    /\ FrameAck(s, f)
    /\ rxPending' = [rxPending EXCEPT ![s] = 0]
    /\ t3' = [t3 EXCEPT ![s] = "running"]
    /\ chan' = IF f.cr = "C" /\ f.pf = 1 THEN Reply(s, SFrame("RR", "R", 1, vr[s]))
                                         ELSE Consumed(s)
    /\ watched' = IF f.cr = "R" THEN [watched EXCEPT ![s] = TRUE] ELSE watched
    /\ UNCHANGED <<state, vr, t2, written, hup, pty, lost>>

HandleRR(s)  == HandleS(s, "RR")
HandleREJ(s) == HandleS(s, "REJ")

\* handle_srej(): frame_ack(), then resend the slot N(R) names, acked or not;
\* the resent frame's P bit is flow_left() after frame_ack() moved V(S), V(A)
HandleSREJ(s) ==
    LET f == Head(chan[s]) IN
    /\ Arrived(s, "SREJ")
    /\ Live(s)
    /\ FrameAck(s, f)
    /\ rxPending' = [rxPending EXCEPT ![s] = 0]
    /\ t3' = [t3 EXCEPT ![s] = "running"]
    /\ chan' = IF slot[s][f.nr].data # 0
               THEN Reply(s, IFrameWith(s, f.nr, slot[s][f.nr].data,
                                        FlowLeftOf(AckVs(s, f), AckVa(s, f.nr))))
               ELSE Consumed(s)
    /\ UNCHANGED <<state, vr, t2, watched, written, hup, pty, lost>>

\* handle_disc(): ESTABLISHED closes and answers UA; PENDING_DISCONNECT
\* ignores it; a missing socket answers DM
HandleDISC(s) ==
    /\ Arrived(s, "DISC")
    /\ \/ /\ state[s] = "ESTABLISHED"
          /\ state' = [state EXCEPT ![s] = "CLOSED"]
          /\ watched' = [watched EXCEPT ![s] = FALSE]
          /\ chan' = Reply(s, UFrame("UA", "R", 1))
       \/ /\ state[s] = "PENDING_DISCONNECT"
          /\ chan' = Consumed(s)
          /\ UNCHANGED <<state, watched>>
       \/ /\ state[s] = "CLOSED"
          /\ chan' = Reply(s, UFrame("DM", "R", 1))
          /\ UNCHANGED <<state, watched>>
    /\ UNCHANGED <<vs, vr, va, slot, rxPending, t1, t2, t3, retries,
                   written, hup, pty, lost>>

\* handle_ua() and handle_dm(): PENDING_DISCONNECT closes the socket; a UA
\* for a missing socket is answered with DM; otherwise nothing happens
HandleUADM(s, kind) ==
    /\ Arrived(s, kind)
    /\ \/ /\ state[s] = "PENDING_DISCONNECT"
          /\ state' = [state EXCEPT ![s] = "CLOSED"]
          /\ watched' = [watched EXCEPT ![s] = FALSE]
          /\ t1' = IF kind = "DM" THEN [t1 EXCEPT ![s] = "stopped"] ELSE t1
          /\ chan' = Consumed(s)
       \/ /\ state[s] = "ESTABLISHED"
          /\ chan' = Consumed(s)
          /\ UNCHANGED <<state, watched, t1>>
       \/ /\ state[s] = "CLOSED"
          /\ chan' = IF kind = "UA" THEN Reply(s, UFrame("DM", "R", 1))
                                    ELSE Consumed(s)
          /\ UNCHANGED <<state, watched, t1>>
    /\ UNCHANGED <<vs, vr, va, slot, rxPending, t2, t3, retries,
                   written, hup, pty, lost>>

HandleUA(s) == HandleUADM(s, "UA")
HandleDM(s) == HandleUADM(s, "DM")

\* handle_rr/rej/srej() return at once when no socket matches
HandleSNoSock(s) ==
    /\ chan[s] # <<>>
    /\ Head(chan[s]).kind \in {"RR", "REJ", "SREJ"}
    /\ ~Live(s)
    /\ chan' = Consumed(s)
    /\ UNCHANGED <<sockVars, written, hup, pty, lost>>

-----------------------------------------------------------------------------
(* handle_sock(): one call for one socket of server->socks_by_fd.  Its     *)
(* branches are tried in the code's order; each action below is one of    *)
(* them and is guarded by the failure of the ones before it.              *)

Expired(t, s) == t[s] = "expired"

\* In ESTABLISHED, no timer branch returns before the pty is looked at
EstablishedPass(s) ==
    /\ ~Expired(t1, s)
    /\ ~(Expired(t2, s) /\ rxPending[s] # 0)
    /\ ~Expired(t3, s)

\* T2 expired with nothing to acknowledge is stopped on the way through
T2Passed(s) ==
    IF state[s] = "ESTABLISHED" /\ Expired(t2, s)
    THEN [t2 EXCEPT ![s] = "stopped"] ELSE t2

\* FD_ISSET(sock->fd, &server->fds_r): the client has written or hung up
Readable(s) == watched[s] /\ (written[s] < Writes[s] \/ hup[s])

\* T1 expired with retries left: resend_pending() or poll with RR, P set
T1Retry(s) ==
    /\ state[s] = "ESTABLISHED"
    /\ Expired(t1, s)
    /\ retries[s] > 0
    /\ retries' = [retries EXCEPT ![s] = @ - 1]
    /\ t1' = [t1 EXCEPT ![s] = "running"]
    /\ IF Unacked(slot[s], vs[s])
       THEN /\ chan' = Sent(chan, Peer(s), IFrame(s, vs[s], slot[s][vs[s]].data))
            /\ vs' = VsIncr(s)
       ELSE /\ chan' = Sent(chan, Peer(s), SFrame("RR", "C", 1, vr[s]))
            /\ UNCHANGED vs
    /\ UNCHANGED <<state, vr, va, slot, rxPending, t2, t3, watched,
                   written, hup, pty, lost>>

\* T1 expired, no retries left: sock_shutdown() sends DISC, sock_close()
T1GiveUp(s) ==
    /\ state[s] = "ESTABLISHED"
    /\ Expired(t1, s)
    /\ retries[s] = 0
    /\ state' = [state EXCEPT ![s] = "CLOSED"]
    /\ watched' = [watched EXCEPT ![s] = FALSE]
    /\ chan' = Sent(chan, Peer(s), UFrame("DISC", "C", 1))
    /\ UNCHANGED <<vs, vr, va, slot, rxPending, t1, t2, t3, retries,
                   written, hup, pty, lost>>

\* T2 expired with frames to acknowledge: RR response with F set
T2Ack(s) ==
    /\ state[s] = "ESTABLISHED"
    /\ ~Expired(t1, s)
    /\ Expired(t2, s)
    /\ rxPending[s] # 0
    /\ t2' = [t2 EXCEPT ![s] = "stopped"]
    /\ rxPending' = [rxPending EXCEPT ![s] = 0]
    /\ chan' = Sent(chan, Peer(s), SFrame("RR", "R", 1, vr[s]))
    /\ UNCHANGED <<state, vs, vr, va, slot, t1, t3, retries, watched,
                   written, hup, pty, lost>>

\* T3 expired: poll the idle link with RR, P set, under T1
T3Poll(s) ==
    /\ state[s] = "ESTABLISHED"
    /\ ~Expired(t1, s)
    /\ ~(Expired(t2, s) /\ rxPending[s] # 0)
    /\ Expired(t3, s)
    /\ t2' = T2Passed(s)
    /\ retries' = [retries EXCEPT ![s] = NRetry]
    /\ t3' = [t3 EXCEPT ![s] = "stopped"]
    /\ t1' = [t1 EXCEPT ![s] = "running"]
    /\ chan' = Sent(chan, Peer(s), SFrame("RR", "C", 1, vr[s]))
    /\ UNCHANGED <<state, vs, vr, va, slot, rxPending, watched,
                   written, hup, pty, lost>>

\* PENDING_DISCONNECT, T1 expired: DISC again, or sock_close()
DiscRetry(s) ==
    /\ state[s] = "PENDING_DISCONNECT"
    /\ Expired(t1, s)
    /\ \/ /\ retries[s] > 0
          /\ retries' = [retries EXCEPT ![s] = @ - 1]
          /\ t1' = [t1 EXCEPT ![s] = "running"]
          /\ chan' = Sent(chan, Peer(s), UFrame("DISC", "C", 1))
          /\ UNCHANGED <<state, watched>>
       \/ /\ retries[s] = 0
          /\ state' = [state EXCEPT ![s] = "CLOSED"]
          /\ watched' = [watched EXCEPT ![s] = FALSE]
          /\ UNCHANGED <<retries, t1, chan>>
    /\ UNCHANGED <<vs, vr, va, slot, rxPending, t2, t3, written, hup,
                   pty, lost>>

(***************************************************************************)
(* The pty part of handle_sock(), reached by ESTABLISHED when no timer     *)
(* branch returned and by PENDING_DISCONNECT when T1 has not expired.      *)
(* flow_left() == 1 stops reading the pty but one more frame still goes:  *)
(* a pending resend, else the data read, else the hangup is a shutdown.   *)
(***************************************************************************)
ReadPty(s) ==
    LET stop == FlowLeft(s) = 1 IN
    /\ \/ state[s] = "ESTABLISHED" /\ EstablishedPass(s)
       \/ state[s] = "PENDING_DISCONNECT" /\ ~Expired(t1, s)
    /\ Readable(s)
    /\ t2' = T2Passed(s)
    /\ \/ /\ Unacked(slot[s], vs[s])
          /\ chan' = Sent(chan, Peer(s), IFrame(s, vs[s], slot[s][vs[s]].data))
          /\ vs' = VsIncr(s)
          /\ t1' = [t1 EXCEPT ![s] = "running"]
          /\ watched' = [watched EXCEPT ![s] = ~stop]
          /\ UNCHANGED <<state, slot, t3, retries, written, hup>>
       \/ /\ ~Unacked(slot[s], vs[s])
          /\ written[s] < Writes[s]
          /\ LET d == written[s] + 1 IN
             /\ slot' = [slot EXCEPT ![s][vs[s]] = [data |-> d, ack |-> FALSE]]
             /\ chan' = Sent(chan, Peer(s), IFrame(s, vs[s], d))
             /\ written' = [written EXCEPT ![s] = d]
          /\ vs' = VsIncr(s)
          /\ t1' = [t1 EXCEPT ![s] = "running"]
          /\ t3' = [t3 EXCEPT ![s] = "stopped"]
          /\ watched' = [watched EXCEPT ![s] = ~stop]
          /\ UNCHANGED <<state, retries, hup>>
       \/ /\ ~Unacked(slot[s], vs[s])
          /\ written[s] = Writes[s]
          \* read() returns 0 or EIO: sock_shutdown()
          /\ watched' = [watched EXCEPT ![s] = FALSE]
          /\ IF state[s] = "ESTABLISHED"
             THEN /\ state' = [state EXCEPT ![s] = "PENDING_DISCONNECT"]
                  /\ retries' = [retries EXCEPT ![s] = NRetry]
                  /\ t1' = [t1 EXCEPT ![s] = "running"]
                  /\ chan' = Sent(chan, Peer(s), UFrame("DISC", "C", 1))
             ELSE UNCHANGED <<state, retries, t1, chan>>
          /\ UNCHANGED <<vs, slot, t3, written, hup>>
    /\ UNCHANGED <<vr, va, rxPending, pty, lost>>

\* Nothing readable: the only effect of the call is stopping an expired T2
T2Stop(s) ==
    /\ state[s] = "ESTABLISHED"
    /\ EstablishedPass(s)
    /\ Expired(t2, s)
    /\ ~Readable(s)
    /\ t2' = [t2 EXCEPT ![s] = "stopped"]
    /\ UNCHANGED <<state, vs, vr, va, slot, rxPending, t1, t3, retries,
                   watched, written, hup, pty, chan, lost>>

HandleSock(s) ==
    \/ T1Retry(s) \/ T1GiveUp(s) \/ T2Ack(s) \/ T3Poll(s) \/ DiscRetry(s)
    \/ ReadPty(s) \/ T2Stop(s)

-----------------------------------------------------------------------------
(* The environment: time, the radio and the client *)

\* server->elapsed has run a running timer down (patty_timer_tick/expired).
\* With QuietTimers the timers are longer than a round trip on the air and
\* than the event loop's service of a readable pty: one runs out only when
\* nothing is on the air and no pty waits to be read (sock.c:257-259).
Ticking(s) ==
    /\ Live(s)
    /\ QuietTimers => \A d \in Socks : chan[d] = <<>> /\ ~Readable(d)

RunOut(tm, s) == tm[s] = "running" /\ tm' = [tm EXCEPT ![s] = "expired"]

TickT1(s) == Ticking(s) /\ RunOut(t1, s) /\ UNCHANGED <<t2, t3>>
TickT2(s) == Ticking(s) /\ RunOut(t2, s) /\ UNCHANGED <<t1, t3>>
\* T3 (30 s, PATTY_AX25_SOCK_DEFAULT_KEEPALIVE) is ten times T1 (n_ack) and
\* T2 (3 s): with QuietTimers it runs out only when every T1 and T2 is stopped,
\* none running and none run out and still waiting for its handle_sock pass
TickT3(s) ==
    /\ Ticking(s)
    /\ QuietTimers => \A d \in Socks : Live(d) => t1[d] = "stopped" /\ t2[d] = "stopped"
    /\ RunOut(t3, s)
    /\ UNCHANGED <<t1, t2>>

Tick(s) ==
    /\ TickT1(s) \/ TickT2(s) \/ TickT3(s)
    /\ UNCHANGED <<state, vs, vr, va, slot, rxPending, retries, watched,
                   written, hup, pty, chan, lost>>

\* A frame on the air is lost
Lose(s) ==
    /\ lost < MaxLoss
    /\ \E i \in 1 .. Len(chan[s]) : chan' = [chan EXCEPT ![s] = RemoveAt(@, i)]
    /\ lost' = lost + 1
    /\ UNCHANGED <<sockVars, written, hup, pty>>

\* The client closes its end of the pty
ClientClose(s) ==
    /\ s \in Hangup
    /\ Live(s)
    /\ ~hup[s]
    /\ hup' = [hup EXCEPT ![s] = TRUE]
    /\ UNCHANGED <<sockVars, written, pty, chan, lost>>

\* Both sockets are gone and nothing is on the air: the system has stopped
Terminated ==
    /\ \A s \in Socks : ~Live(s) /\ chan[s] = <<>>
    /\ UNCHANGED vars

Receive(s) ==
    \/ HandleI(s) \/ HandleIRefused(s) \/ HandleRR(s)
    \/ HandleREJ(s) \/ HandleSREJ(s) \/ HandleDISC(s) \/ HandleUA(s)
    \/ HandleDM(s) \/ HandleSNoSock(s)

Next ==
    \/ \E s \in Socks : HandleSock(s) \/ Receive(s) \/ Tick(s) \/ Lose(s)
                        \/ ClientClose(s)
    \/ Terminated

Spec == Init /\ [][Next]_vars

(***************************************************************************)
(* The event loop calls handle_sock() for every socket on every pass and   *)
(* handle_frame() for every frame an interface has read; each running     *)
(* timer does run out.  The radio's losses get no fairness (MaxLoss bounds *)
(* them).                                                                  *)
(***************************************************************************)
FairSpec ==
    /\ Spec
    /\ \A s \in Socks : /\ WF_vars(HandleSock(s)) /\ WF_vars(Receive(s))
                         /\ WF_vars(Tick(s) /\ TickT1(s))
                         /\ WF_vars(Tick(s) /\ TickT2(s))
                         /\ WF_vars(Tick(s) /\ TickT3(s))

-----------------------------------------------------------------------------
(* Properties *)

TypeOK ==
    /\ state \in [Socks -> {"ESTABLISHED", "PENDING_DISCONNECT", "CLOSED"}]
    /\ vs \in [Socks -> SeqNo] /\ vr \in [Socks -> SeqNo] /\ va \in [Socks -> SeqNo]
    /\ slot \in [Socks -> [SeqNo -> [data: Nat, ack: BOOLEAN]]]
    /\ rxPending \in [Socks -> Nat]
    /\ t1 \in [Socks -> TimerState] /\ t2 \in [Socks -> TimerState]
    /\ t3 \in [Socks -> TimerState]
    /\ retries \in [Socks -> 0 .. NRetry]
    /\ watched \in [Socks -> BOOLEAN]
    /\ written \in [Socks -> Nat] /\ hup \in [Socks -> BOOLEAN]
    /\ delivered \in [Socks -> Nat]
    /\ duplicated \in [Socks -> BOOLEAN] /\ skipped \in [Socks -> BOOLEAN]
    /\ chan \in [Socks -> Seq(Frame)]
    /\ lost \in 0 .. MaxLoss

\* No datum reaches a pty twice: handle_i() must not write a frame it has
\* already written, whatever the sender resends (resend_pending() after
\* frame_ack()'s V(S) rollback, handle_srej(), T1 retries)
NoDuplicate == \A s \in Socks : ~duplicated[s]

\* A datum the sender holds as acknowledged has reached the peer's pty, and
\* every datum before it too: the N(R) that sock_ack() and frame_ack()
\* accept never runs ahead of what handle_i() has written
AckedDelivered ==
    \A s \in Socks, i \in SeqNo :
        slot[s][i].ack => slot[s][i].data <= delivered[Peer(s)]


\* Every datum a client writes to its pty eventually reaches the peer's pty,
\* unless one of the two sockets is closed: resend_pending(), the T1 retries
\* and the T3 poll together recover any loss the link survives
WritesDelivered ==
    \A s \in Socks : <>(delivered[Peer(s)] = Writes[s] \/ ~Live(s) \/ ~Live(Peer(s)))

====
