--------------------------- MODULE MCDocumentReads ---------------------------
(***************************************************************************)
(* A small instance of DocumentReads for TLC: three records of one SBI and *)
(* one of another; two tenants, one of them listed twice in one of the     *)
(* configurations, and a user pool; a token for every way to be let in or  *)
(* refused.                                                                *)
(***************************************************************************)
EXTENDS DocumentReads

CONSTANTS s1, s2, t1, t2, pool, g1, g2, app

SbiOfId == [id \in Ids |-> IF id = 2 THEN s2 ELSE s1]

Entry(t, g) == [tenant |-> t, groups |-> {g}]

Config(entra, tenants, cognito) ==
  [entra |-> entra, tenants |-> tenants, cognito |-> cognito, clientIds |-> {app}]

TwoTenants == <<Entry(t1, g1), Entry(t2, g2)>>

SmallConfigurations == {Config(TRUE, <<>>, FALSE),
                        Config(TRUE, TwoTenants, TRUE),
                        Config(TRUE, <<Entry(t1, g1), Entry(t1, g2)>>, FALSE)}

Claims(iss, typ, groups, client) ==
  [sound |-> TRUE, iss |-> iss, typ |-> typ, groups |-> groups, client |-> client]

SmallTokens == {Claims(t1, "absent", {g1}, NoClient),
                Claims(t1, "access", {g2}, NoClient),
                Claims(t1, "other", {g1, g2}, NoClient),
                Claims(pool, "access", {}, app),
                [Claims(t1, "access", {g1}, NoClient) EXCEPT !.sound = FALSE]}

=============================================================================
