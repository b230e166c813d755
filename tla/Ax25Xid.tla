------------------------------- MODULE Ax25Xid -------------------------------
(***************************************************************************)
(* The AX.25 v2.2 XID parameters of pattyd: what send_xid puts in an XID  *)
(* frame (src/src/sock.c), how it is encoded and decoded (src/src/frame.c) *)
(* and how patty_ax25_sock_params_negotiate applies what the peer sent to *)
(* a socket.  Values are the integers of the code; a bit field is tested  *)
(* with the community Bitwise operators.                                   *)
(***************************************************************************)
EXTENDS Integers, Sequences, SequencesExt, Bitwise

\* enum patty_ax25_param_type (ax25.h)
ParamClasses  == 2
ParamHdlc     == 3
ParamInfoTx   == 5
ParamInfoRx   == 6
ParamWindowTx == 7
ParamWindowRx == 8
ParamAck      == 9
ParamRetry    == 10

\* The field of patty_ax25_params each parameter type is saved in
ParamField == (ParamClasses :> "classes") @@ (ParamHdlc :> "hdlc")
           @@ (ParamInfoTx :> "info_tx") @@ (ParamInfoRx :> "info_rx")
           @@ (ParamWindowTx :> "window_tx") @@ (ParamWindowRx :> "window_rx")
           @@ (ParamAck :> "ack") @@ (ParamRetry :> "retry")

\* The bits of the classes and HDLC parameters (ax25.h)
ClassesAbm         == 2^8
ClassesHalfDuplex  == 2^13
ClassesFullDuplex  == 2^14
HdlcRej        == 2^17
HdlcSrej       == 2^18
HdlcXaddr      == 2^23
HdlcModulo8    == 2^10
HdlcModulo128  == 2^11
HdlcTest       == 2^13
HdlcFcs16      == 2^15
HdlcSyncTx     == 2
HdlcSrejMulti  == 2^5

\* The socket defaults and v2.2 maxima (sock.h, if.h)
SockDefaultClasses == ClassesAbm
SockDefaultHdlc == HdlcRej + HdlcXaddr + HdlcModulo8 + HdlcTest + HdlcSyncTx
Sock22MaxHdlc == HdlcRej + HdlcSrej + HdlcXaddr + HdlcModulo128 + HdlcTest
                 + HdlcFcs16 + HdlcSyncTx + HdlcSrejMulti
Sock22DefaultHdlc == HdlcRej + HdlcSrej + HdlcXaddr + HdlcModulo128 + HdlcTest
                     + HdlcFcs16 + HdlcSyncTx
SockDefaultILen   == 127
SockDefaultWindow == 4
SockDefaultAck    == 3000
Sock22MaxILen     == 1536
Sock22MaxWindow   == 127
IfDefaultClasses  == ClassesHalfDuplex

\* The XID group header (frame.h): format, type and a 16-bit length
XidGroupIso8885 == 130
XidGroupParams  == 128
XidGroupSize    == 4
XidParamSize    == 2

\* A patty_ax25_params with every field zero (the memset of a group)
NoParams == [flags |-> 0, classes |-> 0, hdlc |-> 0, info_tx |-> 0, info_rx |-> 0,
             window_tx |-> 0, window_rx |-> 0, ack |-> 0, retry |-> 0]

\* A byte read from the frame at offset o (offsets count from 0)
Octet(data, o) == data[o + 1]

\* The big-endian value of a sequence of bytes (value |= byte << 8i); the
\* parameters patty sends need at most three bytes, so no 32-bit wrap occurs
BeValue(bytes) == FoldLeft(LAMBDA acc, b : acc * 256 + b, 0, bytes)

(***************************************************************************)
(* Decoding (frame.c)                                                      *)
(***************************************************************************)
\* save_xid_param: a known type sets its field and flags |= 1 << type
SaveXidParam(p, type, value) ==
    IF type \notin DOMAIN ParamField THEN p
    ELSE [p EXCEPT ![ParamField[type]] = value, !.flags = @ | 2^type]

\* The parameter loop of decode_xid_group, from offset to end.  The loop
\* reads each parameter's header and value without comparing with len: a
\* parameter that runs past the frame reads whatever the buffer holds
\* there, which the result marks "stale".
RECURSIVE DecodeXidParams(_, _, _, _, _)
DecodeXidParams(p, data, offset, end, len) ==
    IF offset >= end THEN [p |-> p, offset |-> offset, stale |-> FALSE]
    ELSE IF offset + XidParamSize > len
         THEN [p |-> p, offset |-> offset, stale |-> TRUE]
    ELSE LET plen == Octet(data, offset + 1)
             vstart == offset + XidParamSize
         IN IF vstart + plen > len
            THEN [p |-> p, offset |-> offset, stale |-> TRUE]
            ELSE DecodeXidParams(
                     SaveXidParam(p, Octet(data, offset),
                                  BeValue(SubSeq(data, vstart + 1, vstart + plen))),
                     data, vstart + plen, end, len)

\* decode_xid_group at offset: a group other than an ISO 8885 parameter
\* group is skipped; a parameter group clears params and saves each of
\* its parameters.  The parameters must end where the group length says.
DecodeXidGroup(p, data, offset, len) ==
    IF len - offset < XidGroupSize THEN [ok |-> FALSE, err |-> "EIO"]
    ELSE LET grouplen == Octet(data, offset + 2) * 256 + Octet(data, offset + 3)
             body == offset + XidGroupSize
             end  == body + grouplen
         IN IF Octet(data, offset) # XidGroupIso8885 \/ Octet(data, offset + 1) # XidGroupParams
            THEN [ok |-> TRUE, p |-> p, n |-> XidGroupSize + grouplen]
            ELSE LET r == DecodeXidParams(NoParams, data, body, end, len)
                 IN CASE r.stale -> [ok |-> FALSE, err |-> "stale"]
                      [] r.offset # end -> [ok |-> FALSE, err |-> "EIO"]
                      [] OTHER -> [ok |-> TRUE, p |-> r.p, n |-> r.offset - offset]

\* patty_ax25_frame_decode_xid: the groups from offset until len, which
\* must end exactly at len.  handle_xid's params are not initialised, so a
\* frame without a parameter group leaves them as the stack held them; p0
\* stands for that.
RECURSIVE DecodeXidFrom(_, _, _, _)
DecodeXidFrom(p, data, offset, len) ==
    IF offset >= len
    THEN IF offset # len THEN [ok |-> FALSE, err |-> "EIO"] ELSE [ok |-> TRUE, p |-> p]
    ELSE LET g == DecodeXidGroup(p, data, offset, len)
         IN IF ~g.ok THEN g ELSE DecodeXidFrom(g.p, data, offset + g.n, len)

DecodeXid(p0, data, offset) == DecodeXidFrom(p0, data, offset, Len(data))

(***************************************************************************)
(* Encoding (frame.c) and what send_xid encodes (sock.c)                   *)
(***************************************************************************)
\* needbytes: the fewest bytes that hold a 32-bit value
NeedBytes(v) == CASE v < 2^8  -> 1
                  [] v < 2^16 -> 2
                  [] v < 2^24 -> 3
                  [] OTHER    -> 4

\* encode_xid_param: id, length and the value big-endian
EncodeXidParam(type, bytes, value) ==
    <<type, bytes>> \o [i \in 1..bytes |-> (value \div 2^(8 * (bytes - i))) % 256]

\* The table of patty_ax25_frame_encode_xid: the parameters it encodes, in
\* order, with a fixed size or 0 for needbytes
XidValues(p) ==
    << [id |-> ParamClasses,  bytes |-> 2, value |-> p.classes],
       [id |-> ParamHdlc,     bytes |-> 3, value |-> p.hdlc],
       [id |-> ParamInfoRx,   bytes |-> 0, value |-> p.info_rx],
       [id |-> ParamWindowRx, bytes |-> 1, value |-> p.window_rx],
       [id |-> ParamAck,      bytes |-> 0, value |-> p.ack],
       [id |-> ParamRetry,    bytes |-> 0, value |-> p.retry] >>

\* patty_ax25_frame_encode_xid into a buffer of len bytes: one ISO 8885
\* parameter group holding each parameter whose flag 1 << id is set; a
\* parameter that does not fit fails the encoding with EOVERFLOW
EncodeXid(p, len) ==
    LET sel  == SelectSeq(XidValues(p), LAMBDA v : (p.flags & 2^v.id) # 0)
        enc  == [i \in DOMAIN sel |->
                   EncodeXidParam(sel[i].id,
                                  IF sel[i].bytes # 0 THEN sel[i].bytes
                                  ELSE NeedBytes(sel[i].value),
                                  sel[i].value)]
        body == FlattenSeq(enc)
    IN IF XidGroupSize + Len(body) > len THEN [ok |-> FALSE, err |-> "EOVERFLOW"]
       ELSE [ok |-> TRUE,
             bytes |-> <<XidGroupIso8885, XidGroupParams,
                         Len(body) \div 256, Len(body) % 256>> \o body]

\* patty_ax25_sock_send_xid: the parameters a socket offers, encoded into
\* its 256-byte buffer
SendXidParams(s) ==
    [NoParams EXCEPT
        !.flags = 2^ParamClasses + 2^ParamHdlc + 2^ParamInfoRx + 2^ParamWindowRx
                  + 2^ParamAck + 2^ParamRetry,
        !.classes = s.flags_classes, !.hdlc = Sock22MaxHdlc,
        !.info_rx = Sock22MaxILen * 8, !.window_rx = Sock22MaxWindow,
        !.ack = s.n_ack, !.retry = s.n_retry]

SendXid(s) == EncodeXid(SendXidParams(s), 256)

(***************************************************************************)
(* Negotiation (sock.c)                                                    *)
(***************************************************************************)
\* The test params_negotiate makes of each parameter: params->flags &
\* PATTY_AX25_PARAM_x, with the enum value itself as the mask
FlagTest(p, type) == (p.flags & type) # 0

\* x &= ~b
ClearBit(x, b) == IF (x & b) # 0 THEN x - b ELSE x

\* patty_ax25_sock_params_negotiate(sock, params): the result is ok or the
\* errno, the socket and the params as the call leaves them.  The classes
\* must offer ABM and half duplex and not full duplex (ENOTSUP); an HDLC
\* parameter without REJ or SREJ takes them from the socket, and one
\* without extended addresses, modulo 128 or synchronous TX is refused
\* (EINVAL) after that; modulo 8 offered with 128 is dropped from params.
\* The peer's I field length (in bits) and window lower the socket's, its
\* ack timer and retry count raise them.
ParamsNegotiate(s, p) ==
    LET cls == p.classes
        has(b) == (p.hdlc & b) # 0
        classesBad == /\ FlagTest(p, ParamClasses)
                      /\ \/ (cls & ClassesAbm) = 0
                         \/ (cls & ClassesHalfDuplex) = 0
                         \/ (cls & ClassesFullDuplex) # 0
        doHdlc == FlagTest(p, ParamHdlc)
        s1 == IF ~doHdlc THEN s
              ELSE [s EXCEPT !.flags_hdlc =
                      LET a == IF has(HdlcRej) THEN @ ELSE ClearBit(@, HdlcRej)
                      IN IF has(HdlcSrej) THEN a ELSE ClearBit(a, HdlcSrej)]
        hdlcBad == doHdlc /\ ~(has(HdlcXaddr) /\ has(HdlcModulo128) /\ has(HdlcSyncTx))
        p1 == IF doHdlc /\ has(HdlcModulo8) THEN [p EXCEPT !.hdlc = ClearBit(@, HdlcModulo8)]
              ELSE p
        infoTx == p.info_rx \div 8
        s2 == [s1 EXCEPT
                 !.n_maxlen_tx = IF FlagTest(p, ParamInfoRx) /\ @ > infoTx THEN infoTx ELSE @,
                 !.n_window_tx = IF FlagTest(p, ParamWindowRx) /\ @ > p.window_rx
                                 THEN p.window_rx ELSE @,
                 !.n_ack = IF FlagTest(p, ParamAck) /\ @ < p.ack THEN p.ack ELSE @,
                 !.n_retry = IF FlagTest(p, ParamRetry) /\ @ < p.retry THEN p.retry ELSE @]
    IN CASE classesBad -> [ok |-> FALSE, err |-> "ENOTSUP", sock |-> s, params |-> p]
         [] hdlcBad    -> [ok |-> FALSE, err |-> "EINVAL", sock |-> s1, params |-> p]
         [] OTHER      -> [ok |-> TRUE, sock |-> s2, params |-> p1]

\* patty_ax25_sock_params_max
ParamsMax(s) == [s EXCEPT !.version = "2.2", !.flags_hdlc = Sock22MaxHdlc,
                          !.n_maxlen_tx = Sock22MaxILen, !.n_maxlen_rx = Sock22MaxILen,
                          !.n_window_tx = Sock22MaxWindow, !.n_window_rx = Sock22MaxWindow]
====
