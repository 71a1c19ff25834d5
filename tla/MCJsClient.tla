----------------------------- MODULE MCJsClient -----------------------------
(* Instances of JsClient for TLC: a page with a smaller or a greater serial *)
(* id than the server's, and some connections after each other.             *)
EXTENDS JsClient

PageEnd == [l \in Link |-> 1]
HomeEnd == [l \in Link |-> 3]
=============================================================================
