------------------------- MODULE MCInstanceLifecycle -------------------------
(* Small instances of InstanceLifecycle for TLC.                           *)
EXTENDS InstanceLifecycle, TLC

CONSTANTS h1, h2, first, again, bad, stray

Users == [i \in Instances |-> "user"]
TwoImages == {"a", "b"}

\* A creation that is published twice and an event without instance ID.
Says(kind) == [kind |-> kind, instance |-> 1, image |-> "a"]
Said == first :> Says("created") @@ again :> Says("created")
        @@ bad :> Says("invalid") @@ stray :> Says("unknown")
What == [m \in Messages |-> Said[m]]

Api(op, image) == [op |-> op, instance |-> 1, image |-> image]
ApiRequests ==
    {Api("stop", ""), Api("start", ""), Api("update", "b"), Api("delete", "")}
=============================================================================
