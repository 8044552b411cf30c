--------------------------- MODULE MCPortExposure ---------------------------
(* Small instances of PortExposure for TLC.                                *)
EXTENDS PortExposure, TLC

CONSTANTS h1, h2, h3

Conf(port, proto) == [port |-> port, protocol |-> proto, domain |-> TRUE]
Req(op, i, configs) == [op |-> op, instance |-> i, configs |-> configs]

\* Two instances, one port each, the first opened by any protocol, closed and deleted; a
\* request for both ports at once, invalid configs and an unknown instance.
AllRequests ==
    {Req("open", 1, <<Conf(80, p)>>) : p \in {"TCP", "UDP", ""}}
        \cup {Req("open", 2, <<Conf(80, "TCP")>>)}
        \cup {Req("close", i, <<Conf(80, "HTTP")>>) : i \in {1, 2}}
        \cup {Req("delete", i, <<>>) : i \in {1, 3}}
        \cup {Req("open", 1, <<Conf(0, "TCP"), Conf(80, "TCP")>>),
              Req("open", 1, <<Conf(80, "TCP"), Conf(81, "")>>),
              Req("open", 1, <<Conf(80, "SCTP"),
                         [port |-> 80, protocol |-> "", domain |-> FALSE]>>)}

\* Two instance ports on TCP.
TwoTCP ==
    {Req(op, i, <<Conf(80, "TCP")>>) : op \in {"open", "close"}, i \in {1, 2}}

\* Openings alone, of every kind.
Openings ==
    {Req("open", i, <<Conf(80, "TCP")>>) : i \in {1, 2}}
        \cup {Req("open", 1, <<Conf(80, "")>>)}

HandlerSymmetry == Permutations(Handlers)
=============================================================================
