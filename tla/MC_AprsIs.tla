----------------------------- MODULE MC_AprsIs ------------------------------
(***************************************************************************)
(* Instances of AprsIs for TLC: one-letter callsigns, one-byte bodies and *)
(* a read size that lets one read() hold the end of one line and the      *)
(* start of the next.                                                      *)
(***************************************************************************)
EXTENDS AprsIs

\* A>B:x then B>A,C:y
MCLines == << [kind |-> "data", src |-> <<65>>, dest |-> <<66>>, rpts |-> <<>>,
               body |-> <<120>>],
              [kind |-> "data", src |-> <<66>>, dest |-> <<65>>, rpts |-> <<<<67>>>>,
               body |-> <<121>>] >>

====
