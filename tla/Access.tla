------------------------------- MODULE Access -------------------------------
(***************************************************************************)
(* Who a request speaks for (internal/auth, internal/jwt and the gates of  *)
(* the handlers in httpapi/router.go), as operators from the configuration *)
(* of the server and a request to what withAuth hands to the handler.      *)
(***************************************************************************)
EXTENDS Naturals

CONSTANTS
  Tenants, Roles, Users,
  None,       \* an absent header, claim or token; the empty string in the code
  Never,      \* an exp claim that is absent or not a number
  Now,        \* the server's clock, in seconds
  AdminToken  \* the bearer that equals FOLDBASE_ADMIN_TOKEN; not a JWT

Modes == {"none", "service-jwt", "user-jwt"}

(* The environment: FOLDBASE_AUTH, is there a secret, NODE_ENV = production, *)
(* is there an admin token.                                                  *)
Config == [auth: Modes \cup {"unset", "unknown"}, secret: BOOLEAN,
           production: BOOLEAN, admin: BOOLEAN]

Token == [signed: BOOLEAN, exp: Nat \cup {Never}, type: {"service", "user"},
          org: Tenants \cup {None}, sub: Users \cup {None}, role: Roles \cup {None}]

Request == [bearer: Token \cup {None, AdminToken}, tenant: Tenants \cup {None},
            uid: Users \cup {None}, role: Roles \cup {None}]

ASSUME AccessAssumption ==
  None \notin Tenants \cup Roles \cup Users /\ Now \in Nat /\ Never \notin Nat

-----------------------------------------------------------------------------
(* The declared mode, or the inference from the secret. *)
CurrentMode(cfg) ==
  IF cfg.auth \in Modes THEN cfg.auth
  ELSE IF cfg.secret THEN "service-jwt" ELSE "none"

(* AssertConfig: main refuses to boot on what it rejects. *)
Boots(cfg) ==
  /\ cfg.auth \in {"service-jwt", "user-jwt"} => cfg.secret
  /\ cfg.production => cfg.auth # "unset"

(* jwt.Verify: shape, signature and, when it is a number, the expiry. *)
Verified(b) ==
  /\ b \notin {None, AdminToken}
  /\ b.signed
  /\ b.exp # Never => Now <= b.exp

Denied(code) == [status |-> code, tenant |-> None, uid |-> None, role |-> None,
                 write |-> FALSE, control |-> FALSE]
Accepted(t, u, r, write, control) ==
  [status |-> 200, tenant |-> t, uid |-> u, role |-> r, write |-> write, control |-> control]

AdminOK(cfg, r) == cfg.admin => r.bearer = AdminToken

ResolveOpen(cfg, r) ==
  IF r.tenant = None THEN Denied(400)
  ELSE Accepted(r.tenant, r.uid, r.role, TRUE, AdminOK(cfg, r))

(* A user speaks for itself: nothing of the headers counts. *)
ResolveUserByHeaders(cfg, r) ==
  IF CurrentMode(cfg) = "service-jwt" \/ r.bearer.org = None THEN Denied(401)
  ELSE Accepted(r.bearer.org, r.uid, r.role, FALSE, FALSE)
ResolveUser(cfg, r) ==
  IF CurrentMode(cfg) = "service-jwt" \/ r.bearer.org = None THEN Denied(401)
  ELSE Accepted(r.bearer.org, r.bearer.sub, r.bearer.role, FALSE, FALSE)

(* A service speaks for the tenant and the user of its headers, unless its   *)
(* token names the tenant.                                                   *)
ResolveServiceByHeader(cfg, r) ==
  IF r.tenant = None THEN Denied(400)
  ELSE Accepted(r.tenant, r.uid, r.role, TRUE, TRUE)
ResolveService(cfg, r) ==
  CASE r.bearer.org = None /\ r.tenant = None -> Denied(400)
    [] r.bearer.org # None /\ r.tenant \notin {None, r.bearer.org} -> Denied(403)
    [] r.bearer.org = None /\ r.tenant # None -> Accepted(r.tenant, r.uid, r.role, TRUE, TRUE)
    [] OTHER -> Accepted(r.bearer.org, r.uid, r.role, TRUE, TRUE)

Resolve(cfg, r) ==
  CASE CurrentMode(cfg) = "none" -> ResolveOpen(cfg, r)
    [] CurrentMode(cfg) # "none" /\ ~(cfg.secret /\ Verified(r.bearer)) -> Denied(401)
    [] OTHER -> IF r.bearer.type = "service" THEN ResolveService(cfg, r) ELSE ResolveUser(cfg, r)
=============================================================================
