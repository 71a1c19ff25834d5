----------------------------- MODULE MCFraming ------------------------------
(* Instances of Framing for TLC: bytes of four bits.                        *)
EXTENDS Framing, Bitwise

XorOfBits(a, b) == a ^^ b
Keys == {<<5, 14, 9>>}

M(t, n, strs) == [type |-> t, n |-> n, strs |-> strs]

\* Payloads of every form of length, and of the lengths next to its borders
\* (6 and 16); numbers and strings next to theirs (4).
Messages == {
    M("message", 4, <<<<>>, <<1>>, <<15, 2, 3, 4, 5, 6, 7, 8>>>>),
    M("message", 3, <<<<1>>, <<2>>, <<>>>>),
    M("message", 65, <<<<4>>, <<1, 2, 3, 4>>, <<5>>>>),
    M("channels_replace", 0, <<<<1, 2, 3, 4>>, <<5, 6, 7>>, <<15, 0>>>>),
    M("channels_replace", 0, <<>>),
    M("channels_add", 0, <<<<1, 2, 3>>>>),
    M("channels_erase", 0, <<<<7, 8>>>>),
    M("channels_reset", 0, <<>>),
    M("no_route", 0, <<<<1>>, <<2, 3>>>>),
    M("add_to_group", 0, <<<<9>>, <<3>>>>),
    M("close_group", 0, <<<<9>>>>),
    M("group_empty", 0, <<<<9, 1>>>>),
    M("update_serial", 0, <<<<1, 2, 3, 4, 5>>>>),
    M("new_session", 64, <<>>),
    M("user", 4, <<<<15, 2>>>>),
    M("ping", 0, <<>>),
    M("close", 20, <<<<1>>>>)}
=============================================================================
