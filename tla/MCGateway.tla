------------------------------ MODULE MCGateway ------------------------------
(***************************************************************************)
(* Four sites on one host: one at the root, one with an explicit prefix    *)
(* and required scopes, one that derives its base below it, and one whose  *)
(* scopes were left empty.                                                 *)
(***************************************************************************)
EXTENDS Gateway, TLC

MCNames == {"", "mcp", "wiki", "beta", "draft"} \cup UNION {Range(e) : e \in oauthSuffixes}

MCSites == {"root", "wiki", "beta", "draft"}

MCRule == [root |-> <<>>, wiki |-> <<"wiki">>, beta |-> <<"wiki", "beta">>, draft |-> <<"draft">>]

MCPathPrefix == [root |-> <<"">>, wiki |-> <<"wiki">>, beta |-> AutoPrefix, draft |-> AutoPrefix]

MCScopes == [root |-> {"openid"}, wiki |-> {"openid", "mcp"}, beta |-> {"openid"}, draft |-> {}]

MCRequiredScopes == [root |-> {}, wiki |-> {"mcp"}, beta |-> {}, draft |-> {}]

MCPaths == { <<"">>, <<"wiki", "mcp">>, <<"wiki", "beta", "mcp">>, <<"wiki", "beta", "mcp", "">>,
             <<"wiki", "beta">>, <<"draft", "mcp">> }

Symmetry == Permutations(Clients) \cup Permutations(Keys)
==============================================================================
