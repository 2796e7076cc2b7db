------------------------------ MODULE MCBuffer ------------------------------
(***************************************************************************)
(* Buffer for TLC.  RejectLoop is the first loop of Reject, one turn at a  *)
(* time, to compare with the closed form of module Buffer.                 *)
(***************************************************************************)
EXTENDS Buffer

\* The buf, first and dropped metrics after t turns of the loop.
RejectLoop ==
    LET turn[t \in 0 .. moves] ==
          IF t = 0 THEN [buf |-> buf, first |-> first, dropped |-> {}]
          ELSE LET b == turn[t - 1]
                   rp == prevby(last, t)
                   re == prevby(end, t)
                   hit == b.buf[re] # Nil
               IN  [buf |-> [b.buf EXCEPT ![re] = b.buf[rp], ![rp] = Nil],
                    first |-> IF hit THEN next(b.first) ELSE b.first,
                    dropped |-> IF hit THEN b.dropped \union {b.buf[re]}
                                       ELSE b.dropped]
    IN  turn[moves]

\* The closed form of the rotation agrees with the loop of Reject in every
\* state the buffer reaches, the overrun ones included.
ClosedFormIsLoop ==
    batch # <<>> =>
        /\ RejectLoop.buf = rotated
        /\ RejectLoop.first = nextby(first, Cardinality(landings))
        /\ RejectLoop.dropped = {buf[prevby(end, t)] : t \in landings}
=============================================================================
