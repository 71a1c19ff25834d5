----------------------------- MODULE PathCache -----------------------------
(***************************************************************************)
(* What the table of return paths promises (module ReturnPath shows that   *)
(* it does): a bounded map from addresses to bridges.  Learning a path     *)
(* makes it the most recent one, and a table that is full drops the one    *)
(* learnt longest ago, and only that.  Using a path does not refresh it.   *)
(***************************************************************************)
EXTENDS Naturals, Sequences, SequencesExt

CONSTANTS Id, Bridge, Null, Limit

VARIABLES
    order, \* addresses with a path, the one learnt last first
    via    \* the bridge an address is reached over

Init == order = <<>> /\ via = [c \in Id |-> Null]

Known == {order[i] : i \in DOMAIN order}

\* The order with c put first, cut off at the limit.
Promoted(c) ==
    LET longer == <<c>> \o RemoveFirst(order, c)
    IN SubSeq(longer, 1, IF Len(longer) > Limit THEN Limit ELSE Len(longer))

Learn(c, b) ==
    /\ order' = Promoted(c)
    /\ via' = [d \in Id |-> IF d = c THEN b
                            ELSE IF \E i \in DOMAIN order' : order'[i] = d THEN via[d] ELSE Null]

Forget(c) ==
    /\ c \in Known
    /\ order' = RemoveFirst(order, c)
    /\ via' = [via EXCEPT ![c] = Null]

Next == \E c \in Id : (\E b \in Bridge : Learn(c, b)) \/ Forget(c)

Spec == Init /\ [][Next]_<<order, via>>
=============================================================================
