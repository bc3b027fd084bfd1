----------------------------- MODULE ClientAuth -----------------------------
(***************************************************************************)
(* Who a caller is and what it may do: the checks of its certificates      *)
(* (api/authn/authn.go, api/server/validate_client.go) and the table of    *)
(* authorized clients (api/authz/authz.go).                                *)
(*                                                                         *)
(* A certificate is what the checks look at: whether its algorithms are    *)
(* allowed, whether its CN starts with "jobmaster-", and what follows.     *)
(***************************************************************************)
EXTENDS Naturals, Sequences

CONSTANTS
    Names,             \* what can follow the prefix of a CN, in any spelling
    ToLower,           \* strings.ToLower on Names
    authorizedClients  \* name, in lower case -> role

ASSUME AuthAssumption ==
    /\ "" \notin Names
    /\ ToLower \in [Names -> Names]
    /\ \A n \in Names : ToLower[ToLower[n]] = ToLower[n]
    /\ DOMAIN authorizedClients \subseteq {n \in Names : ToLower[n] = n}
    /\ \A n \in DOMAIN authorizedClients : authorizedClients[n] \in {"Admin", "User"}

Certificates == [allowed : BOOLEAN, prefix : BOOLEAN, entity : Names \cup {""}]

\* A context without the two keys.
Background == [name |-> "", role |-> ""]

Contexts == [name : Names, role : {"Admin", "User"}] \cup {Background}

-----------------------------------------------------------------------------
(* authz                                                                   *)

\* Fault: the zero value of a map lookup is passed on.
IsClientAuthorized_ZeroValue(name) ==
    IF ToLower[name] \in DOMAIN authorizedClients
    THEN authorizedClients[ToLower[name]] ELSE ""

\* The role of a client, looked up without regard to case.
IsClientAuthorized(name) ==
    IF ToLower[name] \in DOMAIN authorizedClients
    THEN authorizedClients[ToLower[name]] ELSE "Unauthorized"

\* In lower case, whatever spelling a client comes with.
GetAuthorizedClientNames == DOMAIN authorizedClients

-----------------------------------------------------------------------------
(* authn and the interceptor                                               *)

\* The entity that a certificate names, "" where the code returns an error.
GetJobmasterEntityNameFromCertCN(cert) == IF cert.prefix THEN cert.entity ELSE ""

\* One round of the loop over the certificates.
CertificateOK(cert) ==
    /\ cert.allowed
    /\ GetJobmasterEntityNameFromCertCN(cert) # ""
    /\ IsClientAuthorized(GetJobmasterEntityNameFromCertCN(cert)) # "Unauthorized"

\* Every certificate has to pass; name and role are those of the last round.
\* Background stands for an error.
ValidateClientFromTLSInfo(chain) ==
    LET name == GetJobmasterEntityNameFromCertCN(chain[Len(chain)]) IN
    IF chain # <<>> /\ \A i \in 1..Len(chain) : CertificateOK(chain[i])
    THEN [name |-> name, role |-> IsClientAuthorized(name)]
    ELSE Background

\* The handler's own check of what the interceptor put into the context.
ClientInfoOK(ctx) ==
    /\ ctx.name # ""
    /\ IsClientAuthorized(ctx.name) # "Unauthorized"
    /\ ctx.role = IsClientAuthorized(ctx.name)
==============================================================================
