----------------------------- MODULE MC_Ax25Link -----------------------------
(* Ax25Link instantiated for TLC.  Station A's client writes, station B's  *)
(* client only reads.                                                      *)
EXTENDS Ax25Link

CONSTANTS StationA, StationB

MCSocks == {StationA, StationB}

\* A function of the stations that is n for A and 0 for B
ForA(n) == [s \in MCSocks |-> IF s = StationA THEN n ELSE 0]

\* Data transfer: three pty reads, enough to overrun a window of two
MCWrites3    == ForA(3)
MCExchanged0 == ForA(0)
\* Two more reads after six exchanged ones: N(S) runs 6, 7
MCWrites8    == ForA(8)
MCExchanged6 == ForA(6)
\* Three more reads after five exchanged ones: N(S) runs 5, 6, 7, one more
\* than a window of two
MCExchanged5 == ForA(5)
\* One read after seven exchanged ones, then the clients hang up: the
\* read goes out with N(S) 7
MCExchanged7 == ForA(7)

\* Clients that close their pty
MCNoHangup  == {}
MCAllHangup == MCSocks
====
