----------------------------- MODULE MCSeries -----------------------------
(* Instances of Series: the paths of devices, with names that become one   *)
(* another and with lists in lists.                                        *)
EXTENDS Series, TLC

MCWords ==
    [interface |-> <<"interface">>, name |-> <<"name">>, unit |-> <<"unit">>,
     target |-> <<"target">>, group |-> <<"group">>, state |-> <<"state">>]
    @@ ("in-octets" :> <<"in", "octets">>) @@ ("state-in" :> <<"state", "in">>)
    @@ ("octets" :> <<"octets">>) @@ ("group-name" :> <<"group", "name">>)
    @@ ("name-unit" :> <<"name", "unit">>) @@ ("_lag" :> <<"", "lag">>)
    @@ ("_5g" :> <<"", "5g">>) @@ ("__meta" :> <<"", "", "meta">>)

E(name) == [name |-> name, keys |-> <<>>]
K(name, keys) == [name |-> name, keys |-> keys]

MCLeaves == {
    <<E("octets")>>,
    <<E("state"), E("in-octets")>>,
    <<E("state-in"), E("octets")>>,
    <<K("interface", [name |-> 1]), E("state"), E("octets")>>,
    <<K("interface", [name |-> 2]), E("state"), E("octets")>>,
    <<K("interface", [name |-> 1, unit |-> 1]), E("octets")>>,
    <<K("interface", [name |-> 1, unit |-> 2]), E("octets")>>,
    <<K("interface", [name |-> 2, unit |-> 1]), E("octets")>>,
    <<K("interface", [name |-> 1]), K("unit", [name |-> 2]), E("octets")>>,
    <<K("group", [name |-> 1]), K("group", [name |-> 1]), E("octets")>>,
    <<K("group", [name |-> 1]), K("group", [name |-> 2]), E("octets")>>,
    <<K("group", [name |-> 1] @@ ("group-name" :> 1)), E("octets")>>,
    <<K("group-name", [unit |-> 1]), K("group", "name-unit" :> 1), E("octets")>>,
    <<K("target", [name |-> 1]), E("octets")>>,
    <<K("_lag", [name |-> 1]), E("octets")>>,
    <<E("_5g"), E("octets")>>,
    <<K("__meta", [name |-> 1]), E("octets")>>,
    <<E("octets"), E("octets")>> }

(* Entries with a prefix, with none, and with one that begins as no name   *)
(* may.                                                                    *)
MCPrefix ==
    [l \in MCLeaves |->
        IF l[1].name \in {"_lag", "_5g", "target"} THEN <<>>
        ELSE IF l = <<E("octets"), E("octets")>> THEN <<"5g">> ELSE <<"srl">>]

MCDigits == {"5g"}
=============================================================================
