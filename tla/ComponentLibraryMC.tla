------------------------- MODULE ComponentLibraryMC -------------------------
(***************************************************************************)
(* A small instance of ComponentLibrary.                                   *)
(***************************************************************************)
EXTENDS ComponentLibrary

\* Two components for one service, as a test that replaces one has them, and
\* one whose constructor throws.
MCComponents ==
    UNION {NewEntity("ValueEntities", <<"shop", "Cart">>, "cart", [timeout |-> 30]),
           NewEntity("ValueEntities", <<"shop", "Cart">>, "cart-mock", <<>>),
           NewEntity("ReplicatedEntities", <<"shop", "Seen">>, "", <<>>),
           NewAction(<<"shop", "Notify">>, [forwardHeaders |-> {"h"}]),
           NewView(<<"shop", "ByUser">>, <<>>)}

\* Proxies in production, in development and with a header but no token.
MCIdentity == [p1 |-> "self", p2 |-> "dev", p3 |-> "broken"]

MCAddresses ==
    {NoAddress,
     [intends |-> "self", given |-> TRUE, dotted |-> FALSE, likeProxy |-> TRUE],
     [intends |-> "service", given |-> TRUE, dotted |-> FALSE, likeProxy |-> FALSE],
     [intends |-> "external", given |-> TRUE, dotted |-> TRUE, likeProxy |-> FALSE]}

\* Services of one process are alike.
HostSymmetry == Permutations(Hosts)

KeyOf(name) == [name |-> name, spelling |-> "lower"]
MCAttributes == [subject |-> KeyOf("ce-subject"), dataschema |-> KeyOf("ce-dataschema")]
MCSourceKey == KeyOf("source")
MCServiceKey == KeyOf("other")
MCHttpKey == KeyOf("other")

ClaimText(says, number, json, claims) == [says |-> says, number |-> number, json |-> json, claims |-> claims]
Json(type, items) == {[type |-> type, items |-> items]}
MCClaimTexts ==
    {ClaimText("true", {}, Json("boolean", {}), {"boolean", "string"}),
     ClaimText("12", {12}, Json("number", {}), {"number", "string"}),
     ClaimText("12abc", {12}, {}, {"string"}),
     ClaimText("{}", {}, Json("object", {}), {"object"}),
     ClaimText("null", {}, Json("null", {}), {"null"}),
     ClaimText("[]", {}, Json("array", {}), {"array"}),
     ClaimText("[1]", {}, Json("array", {"number"}), {"array"}),
     ClaimText("[1, true]", {}, Json("array", {"number", "boolean"}), {"array"}),
     ClaimText("[{}, null]", {}, Json("array", {"object", "null"}), {"array"})}

\* The command of the registered service by either kind of method, one the
\* service does not have, one of a service that is not registered, a path that
\* is not one, and no method.
MCTwo == <<"tck", "Two">>
MCServices == MCTwo :> {"Call"}
MCCall == RpcMethod(<<"", "tck", "Two">>, "Call")
MCMethods ==
    {MCCall, GrpcMethod(<<MCTwo, "Call">>), RpcMethod(<<"", "tck", "Two">>, "Gone"),
     GrpcMethod(<<<<"Two">>, "Call">>), GrpcMethod(<<MCTwo>>), NoMethod}
MCTexts == {<<>>, <<"a">>, <<"b">>}

\* The getters of the claims give what the texts of the instance are texts of.
ASSUME MCClaimsFit == ClaimsFit
=============================================================================
