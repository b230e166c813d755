----------------------------- MODULE MC_KissTnc -----------------------------
(***************************************************************************)
(* Instances of KissTnc for TLC: byte values as in kiss.h, the MRU scaled *)
(* down from 4096 to just above the longest frame, the read size to just  *)
(* above the shortest so that one read() can end two frames.               *)
(***************************************************************************)
EXTENDS KissTnc

\* The address of a one-letter callsign, as patty_ax25_pton makes it
MCAddr(c) == Pton(<<c>>).addr

MCFrame(dest, src, rpts, cr, control, proto, info) ==
    [dest |-> MCAddr(dest), src |-> MCAddr(src),
     repeaters |-> [i \in DOMAIN rpts |-> MCAddr(rpts[i])], cr |-> cr,
     control |-> control, proto |-> proto, info |-> info, infolen |-> Len(info)]

\* Port-0 frames of the three kinds, with information bytes that need both
\* escapes: a UI command A>B carrying FEND, an I frame (N(S) 1, N(R) 2)
\* from C to A via a repeater D carrying FESC, and an RR response
MCFramesEscaped ==
    << [port |-> 0, frame |-> MCFrame(65, 66, <<>>, "COMMAND", 3, ProtoNone, <<FEND, 65>>)],
       [port |-> 0, frame |-> MCFrame(65, 67, <<68>>, "COMMAND", 66, ProtoNone, <<FESC>>)],
       [port |-> 0, frame |-> MCFrame(66, 65, <<>>, "RESPONSE", 33, 0, <<>>)] >>

\* A frame for port 1 of a two-port TNC, then a frame for port 0
MCFramesTwoPorts ==
    << [port |-> 1, frame |-> MCFrame(65, 66, <<>>, "COMMAND", 3, ProtoNone, <<65>>)],
       [port |-> 0, frame |-> MCFrame(66, 65, <<>>, "COMMAND", 3, ProtoNone, <<66>>)] >>

====
