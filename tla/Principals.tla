----------------------------- MODULE Principals -----------------------------
(***************************************************************************)
(* Who a request is: an access token with the scopes its user had when it  *)
(* was minted (src/axis/auth/jwt.py, src/axis/api/v1/auth.py), or a        *)
(* partner's API key (src/axis/api/v1/deps.py).  One user.                 *)
(*                                                                         *)
(* Role assignments are changed by nothing in src/, an administrator does  *)
(* it in the database; so are User.is_active and ApiKey.revoked_at, which  *)
(* are here the good or bad standing of a credential, as it is found.      *)
(***************************************************************************)
EXTENDS Naturals, FiniteSets

CONSTANTS
  Scopes,    \* scope names
  Needed,    \* the scope the endpoint asks for
  KeyScopes, \* those the API key carries
  TTL,       \* access_token_ttl_seconds
  MaxTime,   \* bound: the clock
  MaxLogins  \* bound: logins and refreshes under way at once

ASSUME KeyAssumption  == KeyScopes \subseteq Scopes /\ Needed \in Scopes
ASSUME TimeAssumption == TTL \in Nat /\ MaxTime \in Nat /\ MaxLogins \in Nat

VARIABLES
  now,     \* the clock
  roles,   \* the scopes of the user's roles (effective_scopes_for_user)
  logins,  \* logins and refreshes that have read the roles and not signed yet
  token,   \* the user's newest access token
  held     \* auxiliary: when the user's roles last lost the scope Needed

principalVars == <<now, roles, logins, token, held>>

\* A credential; read is auxiliary, the time its scopes were read.
Never == 0
ApiKey == [kind |-> "api_key", scopes |-> KeyScopes, exp |-> Never, read |-> Never]
Token(scopes, exp, read) == [kind |-> "user", scopes |-> scopes, exp |-> exp, read |-> read]

PrincipalInit ==
  /\ now = 1
  /\ roles \in SUBSET Scopes
  /\ logins = {}
  /\ token = Token({}, Never, Never)
  /\ held = Never

Tick == now < MaxTime /\ now' = now + 1 /\ UNCHANGED <<roles, logins, token, held>>

\* login, refresh_tokens: the scopes of the moment are read ...
ReadScopes ==
  /\ Cardinality(logins) < MaxLogins
  /\ logins' = logins \cup {[scopes |-> roles, read |-> now]}
  /\ UNCHANGED <<now, roles, token, held>>

\* ... and, once the answer of the database is there, signed and dated.
Mint ==
  /\ \E l \in logins : token' = Token(l.scopes, now + TTL, l.read) /\ logins' = logins \ {l}
  /\ UNCHANGED <<now, roles, held>>

\* Only the scope the endpoint asks for comes and goes.
Grant ==
  /\ Needed \notin roles
  /\ roles' = roles \cup {Needed}
  /\ UNCHANGED <<now, logins, token, held>>

Withdraw ==
  /\ Needed \in roles
  /\ roles' = roles \ {Needed}
  /\ held' = now
  /\ UNCHANGED <<now, logins, token>>

Administer == Grant \/ Withdraw

\* Mutant: the signature is verified, the expiry is not.
UnexpiredUndated(cred) == cred.kind = "user" => cred.exp # Never

\* decode_access_token, before anything is awaited; a key has no date.
Unexpired(cred) == cred.kind = "user" => now < cred.exp

\* The token's own scopes; a token without any has its user's of the moment.
EffectiveScopes(cred) ==
  IF cred.kind = "user" /\ cred.scopes = {} THEN roles ELSE cred.scopes

\* What the database says of the caller, whose standing is good if the subject
\* is active or the key is known and not revoked, and require_scope.
Allowed(cred, standing) == standing /\ Needed \in EffectiveScopes(cred)

Logins == [scopes : SUBSET Scopes, read : 1..MaxTime]
Creds(kinds) == [kind : kinds, scopes : SUBSET Scopes, exp : 0..(MaxTime + TTL),
                 read : 0..MaxTime]

PrincipalTypeOK ==
  /\ now \in 1..MaxTime /\ roles \subseteq Scopes /\ logins \subseteq Logins
  /\ token \in Creds({"user"})
  /\ held \in 0..MaxTime
=============================================================================
