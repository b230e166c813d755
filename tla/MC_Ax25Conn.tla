---------------------------- MODULE MC_Ax25Conn ----------------------------
(* Instances of Ax25Conn: what the two clients call, in order *)
EXTENDS Ax25Conn

\* Client A connects to B and closes; client B listens and accepts
MCProgA == <<"socket", "connect", "close">>
MCProgB == <<"socket", "bind", "listen", "accept">>

\* Client B binds but never listens: A's connect is refused
MCProgBNoListen == <<"socket", "bind">>
\* Bound for TLC: the responses written to a client and the accept
\* messages written
MCBound == /\ \A c \in Stations : Len(resp[c]) <= 5
           /\ notified <= 2
\* An S frame sent by a socket in DM mode goes out as an I frame, which
\* only Ax25Link's handle_i would take: behaviours are not followed past it
MCNoStrayI == \A d \in Stations : \A i \in DOMAIN chan[d] : chan[d][i].type # "I"
====
