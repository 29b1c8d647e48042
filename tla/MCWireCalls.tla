----------------------------- MODULE MCWireCalls -----------------------------
(* Small arguments for WireCalls. *)
EXTENDS WireCalls

ShortTexts == BoundedSeq({"plain", "special", "control"}, 5)
Segments == UNION {[data : {d}, mapped : 0 .. Len(d)] : d \in {<< >>, <<1>>, <<2, 3>>}}
ShortIovecs == BoundedSeq(Segments, 3) \cup {[i \in 1 .. 17 |-> [data |-> <<i>>, mapped |-> 1]]}
ShortBytes == BoundedSeq({0, 1, 63, 128, 255}, 4)
=============================================================================
