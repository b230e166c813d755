------------------------------ MODULE Ax25Frame ------------------------------
(***************************************************************************)
(* The AX.25 frame codec of src/src/frame.c and the address helpers of     *)
(* src/src/ax25.c, as operators on byte sequences.  Only the modulo-8      *)
(* (PATTY_AX25_FRAME_NORMAL) control format is modelled: handle_frame      *)
(* chooses the extended one only for a socket in SABME mode.               *)
(*                                                                         *)
(* A frame is a record [dest, src, repeaters, cr, control, proto, info,   *)
(* infolen];                                                               *)
(* an address is [callsign, ssid], six shifted callsign bytes and the      *)
(* SSID byte of struct patty_ax25_addr; hops is Len(repeaters).  Bit       *)
(* operations on bytes are the arithmetic they amount to.                  *)
(***************************************************************************)
EXTENDS Integers, Sequences, SequencesExt

CallStrLen == 6             \* PATTY_AX25_CALLSTRLEN
AddrStrLen == CallStrLen + 3
MaxHops    == 8             \* PATTY_AX25_MAX_HOPS
AddrSize   == CallStrLen + 1 \* sizeof(patty_ax25_addr)

\* include/patty/ax25.h
AddrCharValid(c) == c >= 32 /\ c <= 126
OctetLast(b)     == b % 2 = 1
SsidNumber(b)    == (b \div 2) % 16
SsidC(b)         == b >= 128

\* include/patty/ax25/frame.h: the control field tests and frame types
ControlI(c)  == c % 2 = 0
ControlS(c)  == c % 4 = 1
ControlU(c)  == c % 4 = 3
UMask(c)     == c - 16 * ((c \div 16) % 2)   \* c & 0xef
ControlUI(c) == UMask(c) = 3
STypes == {1, 5, 9, 13}                       \* RR, RNR, REJ, SREJ
UTypes == {47, 111, 67, 15, 99, 135, 3, 175, 227}
TypeI  == 0
TypeUI == 3
ProtoNone == 240                              \* PATTY_AX25_PROTO_NONE

\* A struct patty_ax25_addr cleared by memset
NoAddr == [callsign |-> [i \in 1..CallStrLen |-> 0], ssid |-> 0]

(***************************************************************************)
(* ax25.c                                                                  *)
(***************************************************************************)
\* The loop of patty_ax25_pton over the callsign text from index i.  A
\* seventh callsign character passes the o > PATTY_AX25_CALLSTRLEN test
\* and lands in the SSID byte, which the SSID then overwrites: it is lost.
RECURSIVE PtonFrom(_, _, _)
PtonFrom(text, i, st) ==
    IF i > Len(text) THEN st
    ELSE LET c    == text[i]
             Step(s) == PtonFrom(text, i + 1, [s EXCEPT !.c = c])
         IN CASE st.state = "CALLSIGN" /\ st.o > CallStrLen -> [ok |-> FALSE]
              [] st.state = "CALLSIGN" /\ c = 45 ->
                   Step([st EXCEPT !.state = "SSID"])
              [] st.state = "CALLSIGN" /\ AddrCharValid(c) ->
                   Step([st EXCEPT !.cs = IF st.o < CallStrLen
                                          THEN Append(@, (c % 128) * 2) ELSE @,
                                   !.o = @ + 1])
              [] st.state = "CALLSIGN" -> [ok |-> FALSE]
              [] st.digits = 2 -> [ok |-> FALSE]
              [] c \in 48..57 ->
                   Step([st EXCEPT !.ssid = @ * 10 + (c - 48), !.digits = @ + 1])
              [] OTHER -> [ok |-> FALSE]

\* patty_ax25_pton: callsign text to an address, or failure (EINVAL)
Pton(text) ==
    LET n  == IF Len(text) > AddrStrLen THEN AddrStrLen ELSE Len(text)
        st == PtonFrom(SubSeq(text, 1, n), 1,
                       [ok |-> TRUE, state |-> "CALLSIGN", o |-> 0, digits |-> 0,
                        ssid |-> 0, c |-> 0, cs |-> <<>>])
    IN IF n = 0 \/ ~st.ok \/ st.ssid > 15 \/ st.c = 45
       THEN [ok |-> FALSE]
       ELSE [ok |-> TRUE,
             addr |-> [callsign |-> st.cs \o [k \in 1..(CallStrLen - Len(st.cs)) |-> 64],
                       ssid |-> (st.ssid % 16) * 2]]

\* patty_ax25_addr_copy: the seven address bytes with the SSID flags
AddrCopy(addr, flags) == addr.callsign \o <<flags + 96 + 2 * SsidNumber(addr.ssid)>>

(***************************************************************************)
(* frame.c: encoding                                                       *)
(***************************************************************************)
\* Mutation of EncodeAddress: the address extension bit never set
EncodeAddressNoLast(frame, len) ==
    IF (2 + Len(frame.repeaters)) * AddrSize > len THEN [ok |-> FALSE]
    ELSE LET remote == IF frame.cr = "COMMAND" THEN 128 ELSE 0
             local  == IF frame.cr = "RESPONSE" THEN 128 ELSE 0
         IN [ok |-> TRUE,
             bytes |-> AddrCopy(frame.dest, remote) \o AddrCopy(frame.src, local)
                         \o FlattenSeq([i \in DOMAIN frame.repeaters |->
                                          AddrCopy(frame.repeaters[i], 0)])]

\* encode_address (not a reply): dest, src, the repeaters in order, the
\* command/response bit in dest's or src's SSID byte, and the extension
\* bit in the last byte
EncodeAddress(frame, len) ==
    IF (2 + Len(frame.repeaters)) * AddrSize > len THEN [ok |-> FALSE]
    ELSE LET remote == IF frame.cr = "COMMAND" THEN 128 ELSE 0
             local  == IF frame.cr = "RESPONSE" THEN 128 ELSE 0
             b == AddrCopy(frame.dest, remote) \o AddrCopy(frame.src, local)
                    \o FlattenSeq([i \in DOMAIN frame.repeaters |->
                                     AddrCopy(frame.repeaters[i], 0)])
         IN [ok |-> TRUE,
             bytes |-> [b EXCEPT ![Len(b)] = IF OctetLast(@) THEN @ ELSE @ + 1]]

\* patty_ax25_frame_encode (modulo 8): address, control, and, when there is
\* information, the PID byte of an I or UI frame and the information
FrameEncode(frame, len) ==
    LET a   == EncodeAddress(frame, len)
        hdr == a.bytes \o <<frame.control>>
        pid == IF ControlI(frame.control) \/ ControlUI(frame.control)
               THEN <<frame.proto>> ELSE <<>>
    IN CASE ~a.ok -> [ok |-> FALSE]
         [] frame.infolen = 0 -> [ok |-> TRUE, bytes |-> hdr]
         [] len < 1 + Len(hdr) + frame.infolen -> [ok |-> FALSE]
         [] OTHER -> [ok |-> TRUE, bytes |-> hdr \o pid \o frame.info]

(***************************************************************************)
(* frame.c: decoding                                                       *)
(***************************************************************************)
\* A decode_station whose padding test is the wrong way round: a space
\* may only come before the callsign characters
DecodeStationPadFirst(b, off) ==
    LET cs    == SubSeq(b, off + 1, off + CallStrLen)
        Valid(i) == AddrCharValid(cs[i] \div 2) /\ ~OctetLast(cs[i])
        Space(i) == cs[i] \div 2 = 32
    IN IF \/ Len(b) < off + AddrSize
          \/ \E i \in 1..CallStrLen : ~Valid(i)
          \/ \E i, j \in 1..CallStrLen : i < j /\ ~Space(i) /\ Space(j)
       THEN [ok |-> FALSE]
       ELSE [ok |-> TRUE, addr |-> [callsign |-> cs, ssid |-> b[off + AddrSize]]]

\* decode_station: the address at byte offset off (0-based) of b, if its
\* callsign bytes are printable characters shifted left, with no
\* extension bit, and spaces only at the end
DecodeStation(b, off) ==
    LET cs    == SubSeq(b, off + 1, off + CallStrLen)
        Valid(i) == AddrCharValid(cs[i] \div 2) /\ ~OctetLast(cs[i])
        Space(i) == cs[i] \div 2 = 32
    IN IF \/ Len(b) < off + AddrSize
          \/ \E i \in 1..CallStrLen : ~Valid(i)
          \/ \E i, j \in 1..CallStrLen : i < j /\ Space(i) /\ ~Space(j)
       THEN [ok |-> FALSE]
       ELSE [ok |-> TRUE, addr |-> [callsign |-> cs, ssid |-> b[off + AddrSize]]]

\* decode_hops: up to PATTY_AX25_MAX_HOPS repeaters from offset off, the
\* last one marked by its extension bit
RECURSIVE DecodeHops(_, _, _)
DecodeHops(b, off, rpts) ==
    LET st == DecodeStation(b, off)
    IN CASE ~st.ok -> [ok |-> FALSE]
         [] OctetLast(st.addr.ssid) ->
              [ok |-> TRUE, repeaters |-> Append(rpts, st.addr),
               off |-> off + AddrSize]
         [] Len(rpts) + 1 = MaxHops -> [ok |-> FALSE]
         [] OTHER -> DecodeHops(b, off + AddrSize, Append(rpts, st.addr))

\* patty_ax25_frame_decode_address: dest, src, the command/response bit
\* when the two C bits differ, and the repeaters when src is not last
DecodeAddress(b) ==
    LET dest == DecodeStation(b, 0)
        src  == DecodeStation(b, AddrSize)
        hops == DecodeHops(b, 2 * AddrSize, <<>>)
        cr   == CASE SsidC(dest.addr.ssid) = SsidC(src.addr.ssid) -> "OLD"
                  [] SsidC(dest.addr.ssid) -> "COMMAND"
                  [] OTHER -> "RESPONSE"
    IN CASE ~dest.ok \/ ~src.ok -> [ok |-> FALSE]
         [] OctetLast(src.addr.ssid) ->
              [ok |-> TRUE, dest |-> dest.addr, src |-> src.addr, cr |-> cr,
               repeaters |-> <<>>, off |-> 2 * AddrSize]
         [] ~hops.ok -> [ok |-> FALSE]
         [] OTHER ->
              [ok |-> TRUE, dest |-> dest.addr, src |-> src.addr, cr |-> cr,
               repeaters |-> hops.repeaters, off |-> hops.off]

\* The byte at offset off of a received buffer of Len(b) bytes.  Past the
\* end it is whatever the interface's rx_buf held before; Stale, not a
\* byte value, stands for it.
Stale == -1
ByteAt(b, off) == IF off < Len(b) THEN b[off + 1] ELSE Stale

\* patty_ax25_frame_decode_control (modulo 8) from offset off.  The
\* control byte and the PID byte are read without a length check; infolen
\* is the size_t len - offset, negative here where it wraps round.
DecodeControl(b, off) ==
    LET c    == ByteAt(b, off)
        type == CASE c = Stale -> Stale
                  [] ControlI(c) -> TypeI
                  [] ControlS(c) -> c % 16
                  [] UMask(c) \in UTypes -> UMask(c)
                  [] OTHER -> 255
        pid  == type \in {TypeI, TypeUI}
        from == CASE pid -> off + 2
                  [] type = 227 -> off + 1        \* TEST: no PID byte
                  [] OTHER -> Len(b)
    IN [control |-> c, type |-> type,
        proto |-> IF pid THEN ByteAt(b, off + 1) ELSE 0,
        info |-> SubSeq(b, from + 1, Len(b)),
        infolen |-> Len(b) - from]

\* What handle_frame makes of a received buffer before dispatching it:
\* the decoded frame, or a drop (patty_ax25_if_drop) when the address
\* does not decode
HandleFrameDecode(b) ==
    LET a == DecodeAddress(b)
        c == DecodeControl(b, a.off)
    IN IF ~a.ok THEN [ok |-> FALSE]
       ELSE [ok |-> TRUE, dest |-> a.dest, src |-> a.src, cr |-> a.cr,
             repeaters |-> a.repeaters, control |-> c.control, type |-> c.type,
             proto |-> c.proto, info |-> c.info, infolen |-> c.infolen]

\* What a frame says, independent of the SSID flag bits: the station of
\* each address, the control, PID and information fields
Station(a) == <<a.callsign, SsidNumber(a.ssid)>>
View(f) == [dest |-> Station(f.dest), src |-> Station(f.src), cr |-> f.cr,
            repeaters |-> [i \in DOMAIN f.repeaters |-> Station(f.repeaters[i])],
            control |-> f.control, proto |-> f.proto,
            info |-> f.info, infolen |-> f.infolen]
ViewType == [dest: Seq(0..255) \X (0..15), src: Seq(0..255) \X (0..15),
             cr: {"OLD", "COMMAND", "RESPONSE"},
             repeaters: Seq(Seq(0..255) \X (0..15)), control: (0..255) \cup {Stale},
             proto: (0..255) \cup {Stale}, info: Seq(0..255), infolen: Int]

====
