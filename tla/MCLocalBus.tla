----------------------------- MODULE MCLocalBus -----------------------------
(* Instances of LocalBus for TLC: which API functions a program uses from   *)
(* its own threads and which inside callbacks.                              *)
EXTENDS LocalBus

\* What a subscriber and a publisher do.
PubSub == {"subscribe", "unsubscribe", "unsubscribe_all", "post"}

\* Everything but the group calls, which wait for a channel at once.
QueuedCalls == PubSub \cup {"unsubcribe_private", "replace", "send", "reply"}

GroupCalls == {"add_to_group", "close_group"}

NoCalls == {}
EveryCall == QueuedCalls \cup GroupCalls
ChangeCalls == {"subscribe", "unsubscribe"}
PrivateCalls == {"send", "reply", "unsubscribe_all"}
PostAndSubscribe == {"subscribe", "post"}
=============================================================================
