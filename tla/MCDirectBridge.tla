--------------------------- MODULE MCDirectBridge ---------------------------
(* Instances of DirectBridge for TLC.                                       *)
EXTENDS DirectBridge

CONSTANTS l1, l2, l3

\* One listener at the first broker, two at the second.
OneAndTwo == (l1 :> 1) @@ (l2 :> 2) @@ (l3 :> 2)

\* Groups are closed by unsubscribe_all only, which has the mutex.
LockedCalls == {"subscribe", "unsubscribe", "unsubscribe_all", "add_to_group"}
EveryCall == LockedCalls \cup {"close_group"}
SubscribeOnly == {"subscribe"}
=============================================================================
