-------------------------------- MODULE Stream --------------------------------
(***************************************************************************)
(* What one end of a connection promises to the program that reads it:     *)
(* the messages come one by one, in the order they were sent.  They stop   *)
(* once, with the connection, and what has not come then may be missing at *)
(* the end, but never in the middle.                                       *)
(***************************************************************************)
EXTENDS Naturals, Sequences

CONSTANT Messages

VARIABLES
    open,   \* may messages still be sent?
    queue,  \* sent and not taken
    taken   \* taken by the program, in order

Init == open = TRUE /\ queue = <<>> /\ taken = <<>>

Put(m) ==
    /\ open
    /\ queue' = Append(queue, m)
    /\ UNCHANGED <<open, taken>>

Take ==
    /\ queue # <<>>
    /\ taken' = Append(taken, Head(queue))
    /\ queue' = Tail(queue)
    /\ UNCHANGED open

Cut ==
    /\ open
    /\ open' = FALSE
    /\ \E n \in 0 .. Len(queue) : queue' = SubSeq(queue, 1, n)
    /\ UNCHANGED taken

Next == (\E m \in Messages : Put(m)) \/ Take \/ Cut

Spec == Init /\ [][Next]_<<open, queue, taken>>
=============================================================================
