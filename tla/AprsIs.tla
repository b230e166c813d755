------------------------------- MODULE AprsIs -------------------------------
(***************************************************************************)
(* The receive path of an APRS-IS interface in pattyd (src/src/aprs_is.c): *)
(* the APRS-IS server writes TNC2 text lines SRC>DEST,RPT:BODY\r\n on a    *)
(* TCP connection; each time select() reports it readable, handle_iface   *)
(* does one read() (patty_ax25_aprs_is_fill) and runs the line parser of  *)
(* patty_ax25_aprs_is_drain, which turns each complete line into an AX.25 *)
(* UI frame encoded into the interface's rx_buf, which handle_frame then  *)
(* decodes and dispatches.                                                 *)
(*                                                                         *)
(* Characters are their ASCII codes; a callsign is a short sequence of     *)
(* them; a read() returns any number of the waiting bytes, from 1 to the   *)
(* buffer size.                                                            *)
(***************************************************************************)
EXTENDS Integers, Sequences, SequencesExt, Ax25Frame

CONSTANTS
    Lines,    \* the lines the server sends, in order: [kind, src, dest, rpts, body]
              \* with kind "data", or [kind |-> "comment", body]
    Mru,      \* iface->mru, the length of the rx_buf the frame is encoded into
    BufSz,    \* aprs->rx_bufsz, the most one read() returns
    BodySz    \* aprs->bodysz, the longest body kept

ASSUME Mru \in Nat \ {0} /\ BufSz \in Nat \ {0} /\ BodySz \in Nat

\* The characters the parser tests
Hash  == 35
Gt    == 62
Comma == 44
Colon == 58
CR    == 13
LF    == 10

\* How the server writes a line
Tnc2(l) ==
    IF l.kind = "comment" THEN <<Hash>> \o l.body \o <<CR, LF>>
    ELSE l.src \o <<Gt>> \o l.dest
           \o FlattenSeq([i \in DOMAIN l.rpts |-> <<Comma>> \o l.rpts[i]])
           \o <<Colon>> \o l.body \o <<CR, LF>>

Wire == FlattenSeq([i \in DOMAIN Lines |-> Tnc2(Lines[i])])

\* The UI frame a data line stands for, as the interface should pass it on
LineFrame(l) ==
    [dest |-> Pton(l.dest).addr, src |-> Pton(l.src).addr,
     repeaters |-> [i \in DOMAIN l.rpts |-> Pton(l.rpts[i]).addr],
     cr |-> "COMMAND", control |-> TypeUI, proto |-> ProtoNone,
     info |-> l.body, infolen |-> Len(l.body)]

Expected == LET IsData(l) == l.kind = "data"
                Sel == SelectSeq(Lines, IsData)
            IN [i \in DOMAIN Sel |-> View(LineFrame(Sel[i]))]

VARIABLES
    wire,      \* bytes the server has written and the daemon not yet read
    aprs,      \* the parser: struct _patty_ax25_aprs_is
    received,  \* frames handle_frame decoded and dispatched, in order
    dropped,   \* lines or frames dropped (aprs->stats.dropped and if_drop)
    watched,   \* the connection's fd is in the select() set
    running    \* the daemon's event loop is still running

vars == <<wire, aprs, received, dropped, watched, running>>

(***************************************************************************)
(* The parser                                                              *)
(***************************************************************************)
NoFrame == [dest |-> NoAddr, src |-> NoAddr, repeaters |-> <<>>]

\* patty_ax25_aprs_is_flush: back to HEADER with the rest of the read
\* skipped and the frame cleared
AprsFlush(a) == [a EXCEPT !.state = "HEADER", !.offsetI = a.readlen, !.call = <<>>,
                          !.body = <<>>, !.encoded = <<>>, !.frame = NoFrame]

\* patty_ax25_aprs_is_fill: a read() of chunk into rx_buf
AprsFill(a, chunk) == [a EXCEPT !.buf = chunk, !.readlen = Len(chunk), !.offsetI = 0]

Drop(a) == [aprs |-> AprsFlush(a), stop |-> "drop"]
Go(a)   == [aprs |-> a, stop |-> "no"]

\* The HEADER case of drain for character c: '#' starts a comment, '>'
\* ends the source callsign, ',' and ':' end the destination or a
\* repeater, ':' starts the body; other printable characters are
\* collected into call.  A callsign ends with patty_ax25_pton of call.
HeaderStep(a, c) ==
    LET hasDest == a.frame.dest.callsign[1] # 0
        target  == CASE c = Gt -> "src"
                     [] c \in {Comma, Colon} /\ hasDest -> "rpt"
                     [] c \in {Comma, Colon} -> "dest"
                     [] OTHER -> "none"
        p == Pton(a.call)
        frame == CASE target = "src"  -> [a.frame EXCEPT !.src = p.addr]
                   [] target = "dest" -> [a.frame EXCEPT !.dest = p.addr]
                   [] OTHER -> [a.frame EXCEPT !.repeaters = Append(@, p.addr)]
    IN CASE c = Hash -> Go([a EXCEPT !.state = "COMMENT"])
         [] target = "rpt" /\ Len(a.frame.repeaters) = MaxHops -> Drop(a)
         [] target # "none" /\ ~p.ok -> Drop(a)
         [] target # "none" ->
              Go([a EXCEPT !.frame = frame, !.call = <<>>,
                           !.state = IF c = Colon THEN "BODY" ELSE @])
         [] AddrCharValid(c) /\ Len(a.call) = AddrStrLen -> Drop(a)
         [] AddrCharValid(c) -> Go([a EXCEPT !.call = Append(@, c)])
         [] OTHER -> Drop(a)

\* The BODY case: '\n' completes the line as a UI command frame with no
\* layer 3, encoded with patty_ax25_frame_encode into the len bytes of
\* rx_buf; a body longer than bodysz is dropped
BodyStep(a, c, len) ==
    LET f == [dest |-> a.frame.dest, src |-> a.frame.src,
              repeaters |-> a.frame.repeaters, cr |-> "COMMAND",
              control |-> TypeUI, proto |-> ProtoNone,
              info |-> a.body, infolen |-> Len(a.body)]
        e == FrameEncode(f, len)
        done == [a EXCEPT !.state = "COMPLETE"]
    IN CASE c = CR -> Go(a)
         [] c = LF /\ ~e.ok -> [aprs |-> done, stop |-> "error"]
         [] c = LF -> [aprs |-> [done EXCEPT !.encoded = e.bytes], stop |-> "done"]
         [] Len(a.body) = BodySz -> Drop(a)
         [] OTHER -> Go([a EXCEPT !.body = Append(@, c)])

\* One iteration of the loop of patty_ax25_aprs_is_drain:
\* c = rx_buf[offset_i++] through the state machine
AprsDrainStep(a, len) ==
    LET c  == a.buf[a.offsetI + 1]
        a1 == [a EXCEPT !.offsetI = @ + 1]
    IN CASE a1.state = "HEADER" -> HeaderStep(a1, c)
         [] a1.state = "COMMENT" /\ c = LF ->
              [aprs |-> [a1 EXCEPT !.state = "HEADER"], stop |-> "done"]
         [] a1.state = "COMMENT" -> Go(a1)
         [] a1.state = "BODY" -> BodyStep(a1, c, len)
         [] OTHER -> [aprs |-> a1, stop |-> "done"]

\* patty_ax25_aprs_is_drain: the loop while offset_i < readlen; ret is
\* offset_i - offset_start, or -1 when the encoding fails
RECURSIVE AprsDrainFrom(_, _, _)
AprsDrainFrom(a, len, start) ==
    IF a.offsetI >= a.readlen
    THEN [aprs |-> a, ret |-> a.offsetI - start, drop |-> FALSE]
    ELSE LET r == AprsDrainStep(a, len)
         IN CASE r.stop \in {"done", "drop"} ->
                   [aprs |-> r.aprs, ret |-> r.aprs.offsetI - start,
                    drop |-> r.stop = "drop"]
              [] r.stop = "error" -> [aprs |-> r.aprs, ret |-> -1, drop |-> FALSE]
              [] OTHER -> AprsDrainFrom(r.aprs, len, start)
AprsDrain(a, len) == AprsDrainFrom(a, len, a.offsetI)

\* patty_ax25_aprs_is_pending
AprsPending(a) == a.state = "COMPLETE"

\* The loop of handle_iface: drain into rx_buf, stop unless a frame is
\* pending, else flush it and pass the encoded frame to handle_frame.
\* drops counts the drains that dropped a line.
RECURSIVE IfaceLoop(_, _, _)
IfaceLoop(a, frames, drops) ==
    LET r == AprsDrain(a, Mru)
        d == drops + (IF r.drop THEN 1 ELSE 0)
    IN CASE r.ret < 0 -> [aprs |-> r.aprs, frames |-> frames, drops |-> d, err |-> TRUE]
         [] ~AprsPending(r.aprs) ->
              [aprs |-> r.aprs, frames |-> frames, drops |-> d, err |-> FALSE]
         [] OTHER -> IfaceLoop(AprsFlush(r.aprs), Append(frames, r.aprs.encoded), d)

(***************************************************************************)
(* The event loop                                                          *)
(***************************************************************************)
\* patty_ax25_aprs_is_new: the parser after the connection and login
Init ==
    /\ wire = Wire
    /\ aprs = [state |-> "HEADER", call |-> <<>>, frame |-> NoFrame, body |-> <<>>,
               buf |-> <<>>, readlen |-> 0, offsetI |-> 0, encoded |-> <<>>]
    /\ received = <<>>
    /\ dropped = 0
    /\ watched = TRUE
    /\ running = TRUE

\* handle_ifaces calling handle_iface for the readable connection.
\* Either read() returns 0 because the server has closed it, and the fd
\* is closed and no longer watched; or it returns n of the waiting bytes
\* and the drain loop runs, handle_frame decoding each frame it yields.
\* A failed drain sets errno EOVERFLOW, which ends patty_daemon_run.
HandleIface ==
    /\ running /\ watched
    /\ \/ /\ wire = <<>>
          /\ watched' = FALSE
          /\ UNCHANGED <<wire, aprs, received, dropped, running>>
       \/ \E n \in 1..BufSz :
            /\ n <= Len(wire)
            /\ wire' = SubSeq(wire, n + 1, Len(wire))
            /\ \E r \in {IfaceLoop(AprsFill(aprs, SubSeq(wire, 1, n)), <<>>, 0)} :
               \E dec \in {[i \in DOMAIN r.frames |-> HandleFrameDecode(r.frames[i])]} :
               LET ok == SelectSeq(dec, LAMBDA f : f.ok)
               IN /\ aprs' = r.aprs
                  /\ received' = received \o [i \in DOMAIN ok |-> View(ok[i])]
                  /\ dropped' = dropped + r.drops + Len(dec) - Len(ok)
                  /\ running' = ~r.err
                  /\ UNCHANGED watched

\* Nothing is read any more
Terminated ==
    /\ ~running \/ ~watched
    /\ UNCHANGED vars

Next == HandleIface \/ Terminated

Spec == Init /\ [][Next]_vars

\* The event loop calls handle_ifaces on every select() that reports the
\* connection readable, and it stays readable while bytes wait
FairSpec == Spec /\ WF_vars(HandleIface)

(***************************************************************************)
(* Properties                                                              *)
(***************************************************************************)
TypeOK ==
    /\ wire \in Seq(0..127)
    /\ aprs.state \in {"HEADER", "COMMENT", "BODY", "COMPLETE"}
    /\ Len(aprs.call) <= AddrStrLen /\ Len(aprs.body) <= BodySz
    /\ Len(aprs.frame.repeaters) <= MaxHops
    /\ aprs.offsetI \in 0..BufSz /\ aprs.readlen \in 0..BufSz
    /\ received \in Seq(ViewType) /\ dropped \in Nat
    /\ {watched, running} \subseteq BOOLEAN

\* Every data line the server sends is eventually passed to handle_frame
\* as the UI frame it stands for, whatever way the lines are split
\* between reads (spec 4.5: the parser emits a frame on each \n)
AllDelivered == <>(received = Expected)

====
