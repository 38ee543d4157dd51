------------------------------- MODULE Scopes -------------------------------
(***************************************************************************)
(* Scopes of crates/permissions.  A user's session stores API tokens whose *)
(* scopes are strings in the database; a request that presents one gets    *)
(* what the token and its owner's roles have in common.  Roles change, and *)
(* during a rolling deployment the build that answers may not know every   *)
(* scope that a token names.                                               *)
(***************************************************************************)
EXTENDS FiniteSets

CONSTANTS Tokens,    \* API tokens of one user
          OldScopes, \* scopes a build does not know that predates them
          None

VARIABLES
    role,    \* the scopes of the user's roles, StaffAccess being users.is_staff
    known,   \* the scopes of the build that serves now
    token,   \* api_tokens.scope of each token
    auth     \* the ScopeSet of the request being served, and what it was made from

cvars == <<role, known, token, auth>>

\* Scope::all, a scope being its as_str
Names ==
    {"staff:access", "org:owner", "org:admin", "org:member", "org:billing", "org:auditor",
     "secrets:read", "secrets:write", "secrets:admin", "issues:read", "issues:write",
     "issues:admin", "sites:read", "sites:write", "sites:admin", "agents:read", "agents:run",
     "agents:admin", "tokens:manage"}

\* Scope::parse of the running build, and Deserialize
Parses(s) == s \in known

\* Scope::implies, each family from the top
Implications ==
    {<<"secrets:admin", "secrets:write">>, <<"secrets:admin", "secrets:read">>,
     <<"secrets:write", "secrets:read">>, <<"issues:admin", "issues:write">>,
     <<"issues:admin", "issues:read">>, <<"issues:write", "issues:read">>,
     <<"sites:admin", "sites:write">>, <<"sites:admin", "sites:read">>,
     <<"sites:write", "sites:read">>, <<"agents:admin", "agents:run">>,
     <<"agents:admin", "agents:read">>, <<"agents:run", "agents:read">>,
     <<"org:owner", "org:admin">>, <<"org:owner", "org:member">>,
     <<"org:owner", "org:billing">>, <<"org:owner", "org:auditor">>,
     <<"org:admin", "org:member">>, <<"org:admin", "org:auditor">>}

Implies(s, t) == s = t \/ <<s, t>> \in Implications

-----------------------------------------------------------------------------
\* ScopeSet

\* full_session: everything but StaffAccess
FullSession == known \ {"staff:access"}

\* from_strings
FromStrings(strings) == {s \in strings : Parses(s)}

\* from_strings_with_wildcard
FromStringsWithWildcard(strings) ==
    FromStrings(strings) \cup IF "*" \in strings THEN FullSession ELSE {}

\* has, and require, which turns FALSE into AccessDenied
Has(set, scope) == \E granted \in set : Implies(granted, scope)

\* Mutant: only what both name is common.
IntersectionOfNames(a, b) == a \cap b

\* intersection
Intersection(a, b) == {s \in known : Has(a, s) /\ Has(b, s)}

-----------------------------------------------------------------------------

\* What roles give, which a product decides (external).
Roles ==
    {{}, {"org:member", "secrets:read", "issues:write"}, {"org:admin", "secrets:write"},
     {"org:owner", "sites:admin", "agents:run"}, {"staff:access", "agents:admin"}}

\* The strings of a token: wildcards, families and their parts, a scope of a later release.
Strings ==
    {{"*"}, {"*", "staff:access"}, {"secrets:admin"}, {"secrets:write", "issues:read"},
     {"org:owner"}, {"org:admin", "secrets:read"}, {"agents:admin"}, {"agents:run", "later:scope"}}

Init ==
    /\ role \in Roles
    /\ known = Names
    /\ token = [t \in Tokens |-> None]
    /\ auth = None

\* A session's scopes: full_session, and StaffAccess inserted after the is_staff check.
Session == FullSession \cup (role \cap known \cap {"staff:access"})

\* Tokens are created, rotated and deleted by sessions, which hold tokens:manage.
ManageToken(t) ==
    /\ Has(Session, "tokens:manage")
    /\ \E strings \in Strings \cup {None} : token' = [token EXCEPT ![t] = strings]
    /\ UNCHANGED <<role, known, auth>>

\* An administrator changes the user's roles.
ChangeRole ==
    /\ role' \in Roles
    /\ UNCHANGED <<known, token, auth>>

\* A rolling deployment: the other build answers the next request.
Deploy ==
    /\ known' = IF known = Names THEN Names \ OldScopes ELSE Names
    /\ UNCHANGED <<role, token, auth>>

\* A request with a token: its row, read with or without wildcards, and its owner's roles, as
\* the scopes this build has.
AuthenticateToken(t) ==
    /\ token[t] # None
    /\ \E wildcard \in BOOLEAN :
          LET read == IF wildcard THEN FromStringsWithWildcard(token[t])
                      ELSE FromStrings(token[t])
          IN  auth' = [by |-> "token", scopes |-> Intersection(read, FromStrings(role)),
                       strings |-> token[t], wildcard |-> wildcard, role |-> role,
                       known |-> known]
    /\ UNCHANGED <<role, known, token>>

AuthenticateSession ==
    /\ auth' = [by |-> "session", scopes |-> Session, role |-> role, known |-> known]
    /\ UNCHANGED <<role, known, token>>

Next ==
    \/ ChangeRole \/ Deploy \/ AuthenticateSession
    \/ \E t \in Tokens : ManageToken(t) \/ AuthenticateToken(t)

-----------------------------------------------------------------------------

\* Whether the strings of auth ask for s, of those the scopes in names are understood.
Asked(names, s) ==
    \/ Has(auth.strings \cap names, s)
    \/ auth.wildcard /\ "*" \in auth.strings /\ s # "staff:access"

\* lib.rs:60-66, 341-349, 362-410, 434-443, test 493: whatever families, roles and builds
\* meet, a token's request has a scope exactly if the token asks for it and the roles give
\* it, as far as the build knows the scopes they are named by; a build that predates some
\* never grants more than the newest; a session has staff access if the user is staff, and
\* everything else.
GrantsAreTheCommonOnes ==
    auth # None =>
        \A s \in auth.known :
            IF auth.by = "token"
            THEN /\ Has(auth.scopes, s) <=> Asked(auth.known, s) /\ Has(auth.role \cap auth.known, s)
                 /\ Has(auth.scopes, s) => Asked(Names, s) /\ Has(auth.role, s)
            ELSE Has(auth.scopes, s) <=> (s = "staff:access" => "staff:access" \in auth.role)

=============================================================================
