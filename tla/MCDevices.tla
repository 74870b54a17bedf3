----------------------------- MODULE MCDevices -----------------------------
(* Model checking Devices: one http_t, two rows, lists of up to 3 objects. *)
EXTENDS Devices

CONSTANTS c1, f1, f2, f3, f4, k1

MCConn == {c1}
MCFd == {f1, f2, f3, f4}
MCCookie == {k1}

\* an object whose fields come in this order
Fields(order, text) == [j \in 1 .. 3 |-> [is |-> order[j], value |-> text[j]]]
Object(order, text) == <<[is |-> "{"]>> \o Fields(order, text) \o <<[is |-> "}"]>>
Site == <<"loginTime", "ip", "mac">>
Turned == <<"mac", "loginTime", "ip">>
Three == Object(Site, <<"a", "a", "a">>) \o Object(Turned, <<"b", "b", "b">>)
           \o Object(Site, <<"c", "c", "c">>)

\* the three cut anywhere, an empty field, and an object without one
MCLists == {SubSeq(Three, 1, n) : n \in 0 .. Len(Three)}
             \cup {Object(Turned, <<"d", "d", "d">>),
                   Object(Site, <<"e", "e", Empty>>),
                   <<[is |-> "{"], [is |-> "ip", value |-> "e"], [is |-> "}"]>>
                     \o Object(Site, <<"f", "f", "f">>)}
=============================================================================
