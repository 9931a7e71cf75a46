-------------------------------- MODULE Access --------------------------------
(***************************************************************************)
(* Who may call a route that is not opted out: the providers that the auth *)
(* plugin folds into one hapi strategy, and the strategy's choice among    *)
(* them by the issuer of the token (src/plugins/auth).                     *)
(*                                                                         *)
(* An Entra tenant stands for the two issuer strings it has.  Signature,   *)
(* exp and nbf are checked by @hapi/jwt (external): the token is sound.    *)
(***************************************************************************)
EXTENDS Integers, Sequences

CONSTANTS
  Tenants,     \* Entra tenants, as issuers
  UserPool,    \* the Cognito user pool, as an issuer
  Groups,      \* security groups
  ClientIds,   \* Cognito app clients
  NoClient     \* a token without client_id

ASSUME AccessAssumption == UserPool \notin Tenants /\ NoClient \notin ClientIds

TenantConfig == [tenant : Tenants, groups : SUBSET Groups]

\* config.auth, as a server that has booted may have it: AUTH_ENTRA_TENANTS is
\* a list, in which a tenant may occur twice.
IsConfiguration(c) ==
  /\ c.entra \in BOOLEAN /\ c.cognito \in BOOLEAN
  /\ c.tenants \in Seq(TenantConfig)
  /\ c.clientIds \in SUBSET ClientIds

Token == [sound : BOOLEAN,
          iss : Tenants \cup {UserPool},
          typ : {"absent", "access", "other"},
          groups : SUBSET Groups,
          client : ClientIds \cup {NoClient}]

-----------------------------------------------------------------------------

\* The keys of issuerToProvider, which are also verify.iss.
Issuers(c) ==
  (IF c.entra THEN {c.tenants[i].tenant : i \in DOMAIN c.tenants} ELSE {})
    \cup (IF c.cognito THEN {UserPool} ELSE {})

\* Mutant of AllowedGroupIds: one list for all tenants.
EveryGroupId(c, tenant) == UNION {c.tenants[i].groups : i \in DOMAIN c.tenants}

\* issuerToTenant is a map: of two entries for a tenant the later one counts.
AllowedGroupIds(c, tenant) ==
  LET entry == CHOOSE i \in DOMAIN c.tenants :
                 /\ c.tenants[i].tenant = tenant
                 /\ \A j \in DOMAIN c.tenants : j > i => c.tenants[j].tenant # tenant
  IN  c.tenants[entry].groups

\* getAllowedList and checkAllowed of the provider that issued the token; an
\* empty list allows nobody.
CheckAllowed(c, token) ==
  IF token.iss = UserPool THEN token.client \in c.clientIds
  ELSE token.groups \cap AllowedGroupIds(c, token.iss) # {}

\* createAuthStrategy: @hapi/jwt's verification, then validate.
Validate(c, token) ==
  /\ token.sound
  /\ token.iss \in Issuers(c)
  /\ token.typ # "other"
  /\ CheckAllowed(c, token)

\* Without a provider no strategy is registered, and every route is open.
Authenticated(c, token) == Issuers(c) # {} => Validate(c, token)

-----------------------------------------------------------------------------

\* What the configuration says of a token, whatever the order of its entries.
Entitled(c, token) ==
  /\ token.sound
  /\ token.typ # "other"
  /\ \/ /\ c.entra
        /\ \E i \in DOMAIN c.tenants :
             c.tenants[i].tenant = token.iss /\ c.tenants[i].groups \cap token.groups # {}
     \/ c.cognito /\ token.iss = UserPool /\ token.client \in c.clientIds

IsListedTwice(c, tenant) ==
  \E i, j \in DOMAIN c.tenants :
    i # j /\ c.tenants[i].tenant = tenant /\ c.tenants[j].tenant = tenant

=============================================================================
