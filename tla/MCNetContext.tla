---------------------------- MODULE MCNetContext ----------------------------
(* Instances of NetContext for TLC.                                         *)
EXTENDS NetContext, TLC

CONSTANTS p1, p2

Uses(ps, names, n, m, flow) ==
    [peers |-> ps, calls |-> names, requests |-> n, events |-> m, steady |-> flow]

\* Connections that come and go, and share slots.
Sharing == {
    Uses(Peer, {"accept", "receive", "destroy", "stop"}, 2, 1, {}),
    Uses(Peer \ Server, {"receive", "enqueue", "destroy"}, 2, 1, {})}

\* Requests of all kinds for one connection; timeouts of two connections, one
\* of which may take over the other's slot; and timeouts during steady traffic.
Flowing == Uses({p1}, {"receive", "set_timeout"}, 2, 0, {p1})
Serving == {
    Uses({p1}, {"receive", "ready_to_send", "send", "reconnect", "enqueue"}, 3, 1, {}),
    Uses({p1, p2}, {"set_timeout", "destroy"}, 2, 0, {}),
    Uses({p1}, {"set_timeout", "clear_timeout", "enqueue"}, 3, 0, {}),
    Flowing}
Starving == {Flowing}

\* A listening socket that gets the number of another connection.
Blocking == {Uses(Peer, {"accept", "receive", "destroy"}, 2, 1, {})}

\* Workers are alike.
Alike == Permutations(Worker)
=============================================================================
