-------------------------------- MODULE MCTenancy --------------------------------
(***************************************************************************)
(* Requests to one route, one after the other on one pooled connection.    *)
(***************************************************************************)
EXTENDS Tenancy

CONSTANTS w1, w2, u1, u2, x1, c1

AllScopes == {"brain:query", "skills:invoke", "runs:write"}
MCKeyScopes == {{}, AllScopes} \cup {{scope} : scope \in AllScopes}
OverrideRoute == {"report override"}

===============================================================================
