------------------------------- MODULE Issuers -------------------------------
(***************************************************************************)
(* Who may call the server, and as whom, while its operator changes the    *)
(* settings it runs with: the guards of a boot, the verifiers a boot       *)
(* builds, the login a client is sent to, and the account a token names.   *)
(*                                                                         *)
(* Every deployment is a new process with new settings.  Clients keep      *)
(* their tokens across deployments, and a login may straddle one.  The     *)
(* issuers and the verifying library are external.                         *)
(***************************************************************************)
EXTENDS Naturals, FiniteSets

CONSTANTS
    People,         \* who logs in
    Sub(_, _),      \* the subject an issuer knows a person by
    Settings,       \* what an operator may deploy
    MaxDeploys,     \* bound on deployments
    LinksFirst      \* are known people linked before a new issuer is deployed?

Issuers == {"logto", "authkit"}

\* An identifier is a base URL and a path; "/api" is another resource's.
Resource(url) == <<url, "/mcp">>
RootOf(url)   == <<url, "/">>
Elsewhere     == <<"elsewhere", "/api">>

Audiences == {Elsewhere} \cup UNION {{Resource(u), RootOf(u)} : u \in {"loopback", "public"}}

Deployments ==
    [auth : STRING, url : {"loopback", "public"}, host : STRING, bindAll : BOOLEAN, logto : BOOLEAN,
     authkit : BOOLEAN, pinned : SUBSET Audiences, backend : STRING, dsn : BOOLEAN]

ASSUME PeopleAssumption   == IsFiniteSet(People)
ASSUME SettingsAssumption == Settings \subseteq Deployments
ASSUME DeployAssumption   == MaxDeploys \in Nat

\* An issuer knows two people by two subjects; two issuers may share one.
ASSUME SubAssumption ==
    \A iss \in Issuers, p \in People :
        /\ Sub(iss, p) # "none"
        /\ \A q \in People : Sub(iss, p) = Sub(iss, q) => p = q

NoToken == [issuer |-> "none", audience |-> Elsewhere, sub |-> "none"]

Down == [mode |-> "down", verifiers |-> {}, login |-> "none", resource |-> Elsewhere]

VARIABLES
    settings,    \* what was deployed last
    server,      \* what came up: refused, local, or verifying tokens
    token,       \* the token each person's client holds
    login,       \* the login in progress: the issuer and resource it was sent to
    identities,  \* user_identity: issuer, subject, account
    reached,     \* accounts each person's calls were served from
    deploys      \* deployments so far

vars == <<settings, server, token, login, identities, reached, deploys>>

\* Tokens of the issuers for another resource, or naming nobody.
StrayTokens(p, url) ==
    {[issuer |-> iss, audience |-> Elsewhere, sub |-> Sub(iss, p)] : iss \in Issuers}
      \cup {[issuer |-> iss, audience |-> Resource(url), sub |-> "none"] : iss \in Issuers}

NoLogin == [to |-> "none", resource |-> Elsewhere]

-----------------------------------------------------------------------------
(* The boot.                                                               *)

\* load_config: anything but "off" keeps authentication on.
AuthMode(value) == IF value = "off" THEN "off" ELSE "token"

BugBootAllowsLocal(s) == s.url = "loopback"

\* The two guards of local mode.
BootAllowsLocal(s) == s.url = "loopback" /\ (s.host = "loopback" \/ s.bindAll)

\* _validate_backend.
BackendIsValid(s) == s.backend = "sqlite" \/ (s.backend = "postgres" /\ s.dsn)

\* A verifier: whose tokens, for which audience ({}: not bound yet), and the
\* resource it is told it guards.
Verifier(issuer, audience, resource) ==
    [issuer |-> issuer, audience |-> audience, resource |-> resource]

BugSetMcpPath(v) ==
    IF v.audience = {} /\ v.issuer = "logto" THEN [v EXCEPT !.audience = {v.resource}] ELSE v

\* set_mcp_path, once the mount path is known: an unbound audience becomes the
\* resource.  MultiAuth hands the path on to every verifier.
SetMcpPath(v) == IF v.audience = {} THEN [v EXCEPT !.audience = {v.resource}] ELSE v

BugLogtoVerifier(s) == Verifier("logto", s.pinned, RootOf(s.url))

\* Logto's resource is fixed to the MCP face; AuthKit's, provider and fallback,
\* follows the path the sub-app believes it is served at.
LogtoVerifier(s)   == Verifier("logto", s.pinned, Resource(s.url))
AuthKitVerifier(s) == Verifier("authkit", {}, RootOf(s.url))

BugVerifiers(s) == IF s.logto THEN {LogtoVerifier(s)} ELSE {AuthKitVerifier(s)}

Verifiers(s) == (IF s.logto THEN {LogtoVerifier(s)} ELSE {})
                    \cup (IF s.authkit THEN {AuthKitVerifier(s)} ELSE {})

\* build_auth: Logto is where logins go whenever it is configured.
Discovery(s) == IF s.logto THEN LogtoVerifier(s) ELSE AuthKitVerifier(s)

\* build_app.
Build(s) ==
    CASE AuthMode(s.auth) = "off" /\ BootAllowsLocal(s) /\ BackendIsValid(s) ->
           [Down EXCEPT !.mode = "local"]
      [] AuthMode(s.auth) = "token" /\ (s.logto \/ s.authkit) /\ BackendIsValid(s) ->
           [mode      |-> "token",
            verifiers |-> {SetMcpPath(v) : v \in Verifiers(s)},
            login     |-> Discovery(s).issuer,
            resource  |-> Discovery(s).resource]
      [] OTHER -> Down

\* MultiAuth.verify_token: the first verifier that takes the token.
Accepted(v, t) == v.issuer = t.issuer /\ (v.audience = {} \/ t.audience \in v.audience)

Verified(t) == \E v \in server.verifiers : Accepted(v, t)

-----------------------------------------------------------------------------
Init ==
    /\ settings \in Settings
    /\ server = Build(settings)
    /\ \E p \in People : \E t \in {NoToken} \cup StrayTokens(p, settings.url) :
           token = [q \in People |-> IF q = p THEN t ELSE NoToken]
    /\ login = [p \in People |-> NoLogin]
    /\ identities = {}
    /\ reached = [p \in People |-> {}]
    /\ deploys = 0

Known(iss, sub) == {i \in identities : i.iss = iss /\ i.sub = sub}

\* The accounts p's earlier logins made.
Linked(p, iss) == Known(iss, Sub(iss, p)) # {}

\* A new process with new settings; an orderly operator has linked everybody who
\* ever came before another issuer takes over the logins.
Deploy(s) ==
    /\ deploys < MaxDeploys
    /\ LinksFirst => \A p \in People : reached[p] # {} => Linked(p, Discovery(s).issuer)
    /\ deploys' = deploys + 1
    /\ settings' = s
    /\ server' = Build(s)
    /\ UNCHANGED <<token, login, identities, reached>>

\* The insert docs/README speaks of: p's pair at the other issuer, on the
\* account p has.  A pair that is there already makes it fail.
Link(p, iss) ==
    /\ reached[p] # {}
    /\ ~Linked(p, iss)
    /\ \E a \in reached[p] :
           identities' = identities \cup {[iss |-> iss, sub |-> Sub(iss, p), account |-> a]}
    /\ UNCHANGED <<settings, server, token, login, reached, deploys>>

-----------------------------------------------------------------------------
(* Clients.                                                                *)

\* A client without a token the server takes reads who issues them, and asks
\* for the resource it is told.
Discover(p) ==
    /\ server.mode = "token"
    /\ token[p] = NoToken
    /\ login[p] # [to |-> server.login, resource |-> server.resource]
    /\ login' = [login EXCEPT ![p] = [to |-> server.login, resource |-> server.resource]]
    /\ UNCHANGED <<settings, server, token, identities, reached, deploys>>

\* The identifiers registered with an issuer: Logto's is the one the set-up
\* asks for, or the pinned ones; AuthKit has the root.
Registered(iss, s) ==
    IF iss = "logto" THEN IF s.pinned = {} THEN {Resource(s.url)} ELSE s.pinned
                     ELSE {RootOf(s.url)}

\* The issuer matches the resource character for character.
LogIn(p) ==
    /\ token[p] = NoToken
    /\ login[p] # NoLogin
    /\ login[p].resource \in Registered(login[p].to, settings)
    /\ token' = [token EXCEPT ![p] = [issuer |-> login[p].to, audience |-> login[p].resource,
                                      sub |-> Sub(login[p].to, p)]]
    /\ login' = [login EXCEPT ![p] = NoLogin]
    /\ UNCHANGED <<settings, server, identities, reached, deploys>>

Expire(p) ==
    /\ token[p] # NoToken
    /\ token' = [token EXCEPT ![p] = NoToken]
    /\ UNCHANGED <<settings, server, login, identities, reached, deploys>>

BugAccountOf(iss, sub) == {i.account : i \in {j \in identities : j.sub = sub}}

\* find_user_id: by the pair, never by the subject or an address alone.
AccountOf(iss, sub) == {i.account : i \in Known(iss, sub)}

\* A verified token is resolved to its account, a new one on first sight.
Call(p) ==
    /\ server.mode = "token"
    /\ token[p].sub # "none"
    /\ Verified(token[p])
    /\ LET t     == token[p]
           known == AccountOf(t.issuer, t.sub)
           fresh == 1 + Cardinality(UNION {reached[q] : q \in People})
           a     == IF known = {} THEN fresh ELSE CHOOSE x \in known : TRUE IN
       /\ identities' = IF known = {}
                          THEN identities \cup {[iss |-> t.issuer, sub |-> t.sub, account |-> a]}
                          ELSE identities
       /\ reached' = [reached EXCEPT ![p] = @ \cup {a}]
    /\ UNCHANGED <<settings, server, token, login, deploys>>

\* 401 from the verifier: the client drops the token and logs in again.
Refused(p) ==
    /\ server.mode = "token"
    /\ token[p] # NoToken
    /\ ~Verified(token[p])
    /\ token' = [token EXCEPT ![p] = NoToken]
    /\ UNCHANGED <<settings, server, login, identities, reached, deploys>>

\* A verified token that names nobody: 401 on the HTTP face.  On the MCP face it is an
\* error of the tool, from which a client learns nothing about its token: it keeps
\* it until it expires.
NamesNobody(p) ==
    /\ server.mode = "token"
    /\ token[p] # NoToken
    /\ token[p].sub = "none" /\ Verified(token[p])
    /\ token' = [token EXCEPT ![p] = NoToken]
    /\ UNCHANGED <<settings, server, login, identities, reached, deploys>>

-----------------------------------------------------------------------------
ReachServer(p) == Discover(p) \/ LogIn(p) \/ Call(p) \/ Refused(p)

Next ==
    \/ \E s \in Settings : Deploy(s)
    \/ \E p \in People : ReachServer(p) \/ NamesNobody(p) \/ Expire(p)
    \/ \E p \in People, iss \in Issuers : Link(p, iss)

\* A client goes on trying.
Spec == Init /\ [][Next]_vars /\ \A p \in People : WF_vars(ReachServer(p))

-----------------------------------------------------------------------------
Subjects   == {Sub(iss, p) : iss \in Issuers, p \in People}
Accounts   == 1..(Cardinality(Issuers) * Cardinality(People))
Tokens     == [issuer : Issuers \cup {"none"}, audience : Audiences, sub : Subjects \cup {"none"}]
Logins     == [to : Issuers \cup {"none"}, resource : Audiences]
Identities == [iss : Issuers, sub : Subjects, account : Accounts]

TypeOK ==
    /\ settings \in Settings
    /\ server.mode \in {"down", "local", "token"}
    /\ token \in [People -> Tokens]
    /\ login \in [People -> Logins]
    /\ identities \subseteq Identities
    /\ deploys \in 0..MaxDeploys
    /\ reached \in [People -> SUBSET Accounts]

\* What the server would serve: anybody only while it answers to its own machine
\* (or its operator has said that something in front of it does), else tokens of
\* a configured issuer for this server, under the identifier it advertises, the
\* root it has as an AuthKit resource, or one pinned for it.
ServesOnlyItsOwn ==
    /\ server.mode = "local" => /\ settings.url = "loopback"
                                /\ settings.host = "loopback" \/ settings.bindAll
    /\ \A iss \in Issuers, aud \in Audiences :
          Verified([issuer |-> iss, audience |-> aud]) =>
              /\ IF iss = "logto" THEN settings.logto ELSE settings.authkit
              /\ aud \in {Resource(settings.url), RootOf(settings.url)} \cup settings.pinned

\* What every deployment comes to.
VerifierIsSound == TypeOK /\ ServesOnlyItsOwn

\* An issuer is replaced without shutting anybody out: a token that works goes
\* on working as long as its issuer stays configured, under the same address and
\* for what is registered with it.
SwapKeepsTokens ==
    [][ \A s \in Settings, p \in People :
          /\ Deploy(s)
          /\ token[p].sub # "none" /\ Verified(token[p])
          /\ s.url = settings.url
          /\ Registered(token[p].issuer, settings) \subseteq Registered(token[p].issuer, s)
          /\ IF token[p].issuer = "logto" THEN s.logto ELSE s.authkit
          => Verified(token[p])' \/ server'.mode # "token" ]_vars

\* Nobody is served from another person's account, although two issuers may know
\* two people by one subject and an operator links pairs by hand.
NobodyElsesTenant ==
    \A p, q \in People : p # q => reached[p] \cap reached[q] = {}

\* Whoever goes on trying holds a token the server takes again and again, unless the
\* server is not verifying tokens.  Whether the token names anybody is the issuer's.
EveryoneGetsIn ==
    \A p \in People : []<>(server.mode # "token" \/ Verified(token[p]))

\* "Swapping issuers is therefore an insert": whoever is linked before the swap
\* keeps one tenant through it.  A run beside the listed ones finds it violated
\* by a first login that straddles the swap.
PeopleKeepTheirTenant == \A p \in People : Cardinality(reached[p]) <= 1
=============================================================================
