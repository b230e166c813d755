------------------------------ MODULE KissTnc ------------------------------
(***************************************************************************)
(* The receive path of a KISS TNC interface in pattyd: the peer TNC writes *)
(* frames with KISS framing (kiss.c, patty_kiss_frame_send); each time     *)
(* select() reports the serial line readable, handle_ifaces calls          *)
(* handle_iface, which does one read() into the TNC buffer                 *)
(* (patty_kiss_tnc_fill) and then drains it byte by byte through the KISS *)
(* decoder of tnc.c, passing every complete port-0 data frame to           *)
(* handle_frame, which decodes its address and control fields (frame.c, *)
(* modelled in Ax25Frame) before dispatching it.                           *)
(*                                                                         *)
(* Bytes are the integers the code compares; a read() returns any number   *)
(* of the bytes waiting, from 1 to the buffer size.                        *)
(***************************************************************************)
EXTENDS Integers, Sequences, SequencesExt, Ax25Frame

CONSTANTS
    Frames,   \* the frames the TNC sends, in order: [port, frame], frame an
              \* AX.25 frame record of Ax25Frame
    Mru,      \* iface->mru, the length drain may write to rx_buf
    BufSz     \* tnc->bufsz, the most one read() returns

ASSUME Mru \in Nat \ {0} /\ BufSz \in Nat \ {0}

\* include/patty/kiss.h: the special bytes and the command byte layout
FEND  == 192
FESC  == 219
TFEND == 220
TFESC == 221
DATA   == 0
RETURN == 255
KissCommands == 0..6
Command(c)     == c % 16
CommandPort(c) == c \div 16

\* The peer station encodes each frame with patty_ax25_frame_encode into
\* its tx_buf of PATTY_AX25_IF_DEFAULT_MTU bytes
IfDefaultMtu == 4096
Body(f) == FrameEncode(f.frame, IfDefaultMtu).bytes

ASSUME \A i \in DOMAIN Frames :
          Frames[i].port \in 0..15 /\ FrameEncode(Frames[i].frame, IfDefaultMtu).ok

\* patty_kiss_frame_send: FEND, command byte, body with FEND and FESC
\* escaped, FEND
Escape(c) == CASE c = FEND -> <<FESC, TFEND>>
               [] c = FESC -> <<FESC, TFESC>>
               [] OTHER    -> <<c>>
FrameSend(f) ==
    <<FEND, f.port * 16 + DATA>>
      \o FlattenSeq([i \in DOMAIN Body(f) |-> Escape(Body(f)[i])])
      \o <<FEND>>

\* The byte stream the TNC writes to the line
Wire == FlattenSeq([i \in DOMAIN Frames |-> FrameSend(Frames[i])])

\* What handle_frame should dispatch: the port-0 data frames, in order
\* (PATTY_KISS_TNC_PORT is 0), as they were sent
Expected == LET OnPort0(f) == f.port = 0
                Sel == SelectSeq(Frames, OnPort0)
            IN [i \in DOMAIN Sel |-> View(Sel[i].frame)]

VARIABLES
    wire,      \* bytes written by the TNC and not yet read
    tnc,       \* the decoder: struct _patty_kiss_tnc
    received,  \* frames handle_frame decoded and dispatched, in order
    dropped,   \* frames handle_frame dropped (iface->stats.dropped)
    watched,   \* the interface fd is in the select() set
    ifUp,      \* iface->status
    running,   \* the daemon's event loop is still running
    hup        \* the TNC side has closed the line

vars == <<wire, tnc, received, dropped, watched, ifUp, running, hup>>

(***************************************************************************)
(* The decoder                                                             *)
(***************************************************************************)
\* tnc_drop: forget the frame being assembled and the rest of the read
TncDrop(d) == [d EXCEPT !.state = "NONE", !.command = RETURN, !.port = 0,
                        !.offsetI = 0, !.out = <<>>, !.readlen = 0]

\* A fill that appends the read to what is already buffered
FillNoReset(d, chunk) == [d EXCEPT !.buf = @ \o chunk,
                                   !.readlen = @ + Len(chunk)]

\* patty_kiss_tnc_fill: a read() of the bytes chunk into tnc->buf
Fill(d, chunk) == [d EXCEPT !.buf = chunk, !.readlen = Len(chunk),
                            !.offsetI = 0]

\* One iteration of the loop of patty_kiss_tnc_drain: the overflow check,
\* then one byte c = buf[offset_i++] through the state machine.  stop is
\* "done" at the FEND ending a frame, "eio" on a bad byte.
DrainStep(d, len) ==
    LET d0 == IF Len(d.out) = len THEN TncDrop(d) ELSE d
        c  == d0.buf[d0.offsetI + 1]
        d1 == [d0 EXCEPT !.offsetI = @ + 1]
        To(st) == [d1 EXCEPT !.state = st]
        Put(st, b) == [d1 EXCEPT !.state = st, !.out = Append(@, b)]
    IN CASE d1.state = "NONE" ->
              [tnc |-> IF c = FEND THEN To("COMMAND") ELSE d1, stop |-> "no"]
         [] d1.state = "COMMAND" /\ Command(c) = FEND ->
              [tnc |-> d1, stop |-> "no"]
         [] d1.state = "COMMAND" /\ Command(c) \notin KissCommands ->
              [tnc |-> d1, stop |-> "eio"]
         [] d1.state = "COMMAND" ->
              [tnc |-> [d1 EXCEPT !.state = "BODY", !.command = Command(c),
                                  !.port = CommandPort(c)],
               stop |-> "no"]
         [] d1.state = "BODY" /\ c = FESC -> [tnc |-> To("ESCAPE"), stop |-> "no"]
         [] d1.state = "BODY" /\ c = FEND -> [tnc |-> To("COMMAND"), stop |-> "done"]
         [] d1.state = "BODY" ->
              [tnc |-> IF d1.command = DATA THEN Put("BODY", c) ELSE d1,
               stop |-> "no"]
         [] d1.state = "ESCAPE" /\ c = TFEND -> [tnc |-> Put("BODY", FEND), stop |-> "no"]
         [] d1.state = "ESCAPE" /\ c = TFESC -> [tnc |-> Put("BODY", FESC), stop |-> "no"]
         [] OTHER -> [tnc |-> d1, stop |-> "eio"]

\* patty_kiss_tnc_drain: run the loop while offset_i < readlen; ret is
\* offset_i - offset_start (a size_t difference returned as ssize_t), or -1
\* with errno EIO
RECURSIVE DrainFrom(_, _, _)
DrainFrom(d, len, start) ==
    IF d.offsetI >= d.readlen
    THEN [tnc |-> d, ret |-> d.offsetI - start, eio |-> FALSE]
    ELSE LET r == DrainStep(d, len)
         IN CASE r.stop = "done" ->
                   [tnc |-> r.tnc, ret |-> r.tnc.offsetI - start, eio |-> FALSE]
              [] r.stop = "eio" -> [tnc |-> r.tnc, ret |-> -1, eio |-> TRUE]
              [] OTHER -> DrainFrom(r.tnc, len, start)
Drain(d, len) == DrainFrom(d, len, d.offsetI)

\* patty_kiss_tnc_pending: a complete, non-empty data frame for port 0
Pending(d) == /\ d.state = "COMMAND"
              /\ d.command = DATA
              /\ d.port = 0
              /\ Len(d.out) > 0

\* A flush that does not reset offset_o
FlushKeepOut(d) == [d EXCEPT !.state = "NONE", !.command = RETURN]

\* patty_kiss_tnc_flush
Flush(d) == [d EXCEPT !.state = "NONE", !.command = RETURN, !.out = <<>>]

\* A handle_iface that handles one frame per read(), an if for the loop
IfaceLoopOnce(d, frames) ==
    LET r == Drain(d, Mru)
    IN CASE r.ret < 0 ->
              [tnc |-> r.tnc, frames |-> frames,
               err |-> IF r.eio THEN "EIO" ELSE "stale"]
         [] ~Pending(r.tnc) -> [tnc |-> r.tnc, frames |-> frames, err |-> "none"]
         [] OTHER -> [tnc |-> Flush(r.tnc), frames |-> Append(frames, r.tnc.out),
                      err |-> "none"]

\* The loop of handle_iface: drain, stop unless a frame is pending, else
\* flush it and pass it to handle_frame.  err is "none", "EIO" (drain
\* failed with errno EIO) or "stale" (drain returned a negative length
\* without setting errno).
RECURSIVE IfaceLoop(_, _)
IfaceLoop(d, frames) ==
    LET r == Drain(d, Mru)
    IN CASE r.ret < 0 ->
              [tnc |-> r.tnc, frames |-> frames,
               err |-> IF r.eio THEN "EIO" ELSE "stale"]
         [] ~Pending(r.tnc) -> [tnc |-> r.tnc, frames |-> frames, err |-> "none"]
         [] OTHER -> IfaceLoop(Flush(r.tnc), Append(frames, r.tnc.out))

(***************************************************************************)
(* The event loop                                                          *)
(***************************************************************************)
\* patty_kiss_tnc_new: the decoder's initial state
Init ==
    /\ wire = Wire
    /\ tnc = [state |-> "NONE", command |-> RETURN, port |-> 0, buf |-> <<>>,
              readlen |-> 0, offsetI |-> 0, out |-> <<>>]
    /\ received = <<>>
    /\ dropped = 0
    /\ watched = TRUE
    /\ ifUp = TRUE
    /\ running = TRUE
    /\ hup = FALSE

\* handle_ifaces calling handle_iface for a readable interface.  Either
\* read() returns 0 because the TNC side is closed, and the fd is closed
\* and no longer watched; or it returns n of the waiting bytes and the
\* drain loop runs.  A failed handle_iface takes the interface down when
\* errno is EIO and otherwise makes event_handle fail, which ends
\* patty_daemon_run.  After a negative drain length errno is whatever an
\* earlier call left there.
HandleIfaces ==
    /\ running /\ watched
    /\ \/ /\ wire = <<>> /\ hup
          /\ watched' = FALSE
          /\ UNCHANGED <<wire, tnc, received, dropped, ifUp, running>>
       \/ \E n \in 1..BufSz, errno \in {"EIO", "other"} :
            /\ n <= Len(wire)
            /\ wire' = SubSeq(wire, n + 1, Len(wire))
            /\ \E r \in {IfaceLoop(Fill(tnc, SubSeq(wire, 1, n)), <<>>)} :
               \E dec \in {[i \in DOMAIN r.frames |-> HandleFrameDecode(r.frames[i])]} :
               LET e  == IF r.err = "stale" THEN errno ELSE r.err
                   ok == SelectSeq(dec, LAMBDA f : f.ok)
               IN /\ tnc' = r.tnc
                  /\ received' = received \o [i \in DOMAIN ok |-> View(ok[i])]
                  /\ dropped' = dropped + Len(dec) - Len(ok)
                  /\ ifUp' = (ifUp /\ e # "EIO")
                  /\ watched' = (e # "EIO")
                  /\ running' = (e \in {"none", "EIO"})
    /\ UNCHANGED hup

\* The TNC side closes the line (the device goes away)
PeerHangup ==
    /\ ~hup
    /\ hup' = TRUE
    /\ UNCHANGED <<wire, tnc, received, dropped, watched, ifUp, running>>

\* Nothing is read any more: the fd is no longer watched or the daemon
\* has stopped
Terminated ==
    /\ ~running \/ ~watched
    /\ UNCHANGED vars

Next == HandleIfaces \/ PeerHangup \/ Terminated

Spec == Init /\ [][Next]_vars

\* The event loop calls handle_ifaces on every select() that reports the
\* line readable, and it stays readable while bytes wait
FairSpec == Spec /\ WF_vars(HandleIfaces)

(***************************************************************************)
(* Properties                                                              *)
(***************************************************************************)
TypeOK ==
    /\ wire \in Seq(0..255)
    /\ tnc.state \in {"NONE", "COMMAND", "BODY", "ESCAPE"}
    /\ tnc.command \in KissCommands \cup {RETURN}
    /\ tnc.port \in 0..15
    /\ tnc.offsetI \in 0..BufSz /\ tnc.readlen \in 0..BufSz
    /\ tnc.out \in Seq(0..255) /\ Len(tnc.out) <= Mru
    /\ received \in Seq(ViewType) /\ dropped \in Nat
    /\ {watched, ifUp, running, hup} \subseteq BOOLEAN

\* Whatever way read() splits the stream, handle_frame only ever dispatches
\* the port-0 frames the peer sent, with the same addresses, control, PID
\* and information, and in order (frame_encode at the peer, drain's
\* unescaping, flush's reset, handle_iface's loop and handle_frame's
\* decoding together)
FramesInOrder == IsPrefix(received, Expected)

\* Every port-0 frame the TNC sends is eventually decoded and dispatched
\* by handle_frame, none dropped
AllDelivered == <>(received = Expected)

====
