----------------------------- MODULE MCNetstack -----------------------------
(***************************************************************************)
(* A small instance of Netstack: a network 10.0.2.x with a router, one     *)
(* server that sends all options and one that sends none, and an OFFER to  *)
(* another client.                                                         *)
(***************************************************************************)
EXTENDS Netstack

Router == <<10, 2, 2>>

StaticTable == [h \in {"example.com"} |-> <<93, 1, 34>>]

Addresses ==
    [h \in Hosts |-> IF h = "example.com" THEN <<93, 1, 35>>
                     ELSE IF h = "a.org" THEN <<20, 1, 1>> ELSE <<30, 1, 1>>]

(* The 65th to 68th character of the overlong name, read as an address.    *)
RestOfName == <<71, 79, 82>>
TailOf == [h \in Overlong |-> RestOfName]
OnlyTail == [h \in Overlong |-> {RestOfName}]

OneLiteral == {<<10, 2, 20>>}

Answers ==
    { [xid |-> "ours", ip |-> <<10, 2, 15>>, subnet |-> {1, 2}, router |-> Router,
       dns |-> <<10, 2, 3>>],
      [xid |-> "ours", ip |-> <<10, 2, 16>>, subnet |-> {}, router |-> NoIp, dns |-> NoIp],
      [xid |-> "theirs", ip |-> <<10, 2, 17>>, subnet |-> {1, 2}, router |-> Router,
       dns |-> <<10, 2, 3>>] }

LocalNeighbours == {Router, <<10, 2, 20>>}
=============================================================================
