-------------------------------- MODULE Visits --------------------------------
(***************************************************************************)
(* What a reader of connection_histories may expect: the book of visits.   *)
(* Every Connect that is taken up is entered, once and with its MTP,       *)
(* before the next one is taken up, unless the service stops.  An agent    *)
(* is not taken up again while an entry of it is open; an entry is closed  *)
(* once, and otherwise stays as it was written.                            *)
(***************************************************************************)
EXTENDS Naturals, Sequences

CONSTANTS Endpoints, Protocols

VARIABLES
    running,   \* does the service run?
    arriving,  \* arriving[e]: MTP of the Connect of e that is taken up
    book       \* the entries, in order

Init ==
    /\ running = TRUE
    /\ arriving = [e \in Endpoints |-> {}]
    /\ book = <<>>

OpenEntries(e) == {n \in DOMAIN book : book[n].ep = e /\ book[n].open}

TakeUp(e, m) ==
    /\ running
    /\ \A f \in Endpoints : arriving[f] = {}
    /\ OpenEntries(e) = {}
    /\ arriving' = [arriving EXCEPT ![e] = {m}]
    /\ UNCHANGED <<running, book>>

Enter(e, m) ==
    /\ arriving[e] = {m}
    /\ arriving' = [arriving EXCEPT ![e] = {}]
    /\ book' = Append(book, [ep |-> e, mtp |-> m, open |-> TRUE])
    /\ UNCHANGED running

CloseEntry(n) ==
    /\ n \in DOMAIN book /\ book[n].open
    /\ book' = [book EXCEPT ![n].open = FALSE]
    /\ UNCHANGED <<running, arriving>>

Stop ==
    /\ running
    /\ running' = FALSE
    /\ arriving' = [e \in Endpoints |-> {}]
    /\ UNCHANGED book

Next ==
    \/ \E e \in Endpoints, m \in Protocols : TakeUp(e, m) \/ Enter(e, m)
    \/ \E n \in DOMAIN book : CloseEntry(n)
    \/ Stop

Spec == Init /\ [][Next]_<<running, arriving, book>>
=============================================================================
