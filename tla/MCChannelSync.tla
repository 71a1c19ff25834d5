--------------------------- MODULE MCChannelSync ---------------------------
(* Instances of ChannelSync for TLC.                                        *)
EXTENDS ChannelSync

\* Broker 2 connects to 1 over two links.
TwiceClient == [l \in {"a", "b"} |-> 2]
TwiceServer == [l \in {"a", "b"} |-> 1]

\* Two brokers, each of which connects to the other.
CrossClient == [l \in {"a", "b"} |-> IF l = "a" THEN 2 ELSE 1]
CrossServer == [l \in {"a", "b"} |-> IF l = "a" THEN 1 ELSE 2]
=============================================================================
