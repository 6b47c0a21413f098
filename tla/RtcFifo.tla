------------------------------- MODULE RtcFifo -------------------------------
(***************************************************************************)
(* What the RTC store promises: a queue of bytes per ring.  Records enter  *)
(* whole, bytes leave at the front in the order they came, and nothing but *)
(* a power-on empties a queue.                                             *)
(***************************************************************************)
EXTENDS Naturals, Sequences

CONSTANTS Rings, Records(_)   \* the records, as strings of bytes, a ring takes

VARIABLE queue

Init == queue = [r \in Rings |-> <<>>]

Put(r, m) == queue' = [queue EXCEPT ![r] = @ \o m]

Drop(r, n) ==
    /\ n <= Len(queue[r])
    /\ queue' = [queue EXCEPT ![r] = SubSeq(@, n + 1, Len(@))]

Empty == queue' = [r \in Rings |-> <<>>]

Next ==
    \/ Empty
    \/ \E r \in Rings : \/ \E m \in Records(r) : Put(r, m)
                       \/ \E n \in 0..Len(queue[r]) : Drop(r, n)

Spec == Init /\ [][Next]_queue
=============================================================================
