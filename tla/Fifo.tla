-------------------------------- MODULE Fifo --------------------------------
(***************************************************************************)
(* What a bridge expects of the stream that connects it to the other side: *)
(* every message comes, once, whole, unchanged and in order.               *)
(***************************************************************************)
EXTENDS Naturals, Sequences

CONSTANT Message
VARIABLES sent, got

Init == sent = <<>> /\ got = <<>>

Send(m) == sent' = Append(sent, m) /\ UNCHANGED got

\* Some of the messages that are on their way arrive.
Deliver ==
    /\ \E n \in Len(got) + 1 .. Len(sent) : got' = SubSeq(sent, 1, n)
    /\ UNCHANGED sent

Next == Deliver \/ \E m \in Message : Send(m)

Spec == Init /\ [][Next]_<<sent, got>> /\ WF_<<sent, got>>(Deliver)
=============================================================================
