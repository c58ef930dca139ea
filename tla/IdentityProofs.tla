---------------------------- MODULE IdentityProofs ---------------------------
(***************************************************************************)
(* What TLAPS proves of who a caller is: of Issuers, which decides what    *)
(* token is taken and whose account it names, for any people, any settings *)
(* an operator may deploy and any number of deployments; and of            *)
(* FirstLogin, which takes apart how one pair comes to its tenant, for any *)
(* number of concurrent logins, people and stops of the server.            *)
(*                                                                         *)
(* The two specifications share no state.  The definitions of FirstLogin   *)
(* that every specification has begin with Login.                          *)
(***************************************************************************)
EXTENDS Issuers, FirstLogin, FiniteSetTheorems, TLAPS

-----------------------------------------------------------------------------
(* The inductive invariant.                                                 *)

\* A token names its holder, or nobody.
TokenOK(p) ==
    token[p].sub # "none" =>
        token[p].issuer \in Issuers /\ token[p].sub = Sub(token[p].issuer, p)

\* A login in progress was sent to an issuer.
LoginOK(p) == login[p] = NoLogin \/ login[p].to \in Issuers

\* Every pair belongs to somebody, and stands for an account of theirs.
IdentityOK(i) == \E p \in People : i.sub = Sub(i.iss, p) /\ i.account \in reached[p]

\* Accounts are numbered in order, and every one of them has its own pair.
Everyones == UNION {reached[q] : q \in People}
LinkedPairs     == {pair \in Issuers \X People : Linked(pair[2], pair[1])}

Numbered == \E n \in Nat : Everyones = 1..n /\ n <= Cardinality(LinkedPairs)

IssuersInv ==
    /\ TypeOK
    /\ server = Build(settings)
    /\ \A p \in People : TokenOK(p) /\ LoginOK(p)
    /\ \A i \in identities : IdentityOK(i)
    /\ Numbered
    /\ NobodyElsesTenant

-----------------------------------------------------------------------------
(* What a boot makes of its settings.                                       *)

\* What comes up is down, local under its two guards, or verifying tokens.
LEMMA BuildModes ==
    ASSUME NEW s \in Settings
    PROVE  /\ Build(s).mode \in {"down", "local", "token"}
           /\ Build(s).mode = "local" => BootAllowsLocal(s)
           /\ Build(s).mode # "token" => Build(s).verifiers = {}
           /\ Build(s).mode = "token" =>
                 /\ s.logto \/ s.authkit
                 /\ Build(s).verifiers = {SetMcpPath(v) : v \in Verifiers(s)}
                 /\ Build(s).login = Discovery(s).issuer
                 /\ Build(s).resource = Discovery(s).resource
<1> DEFINE local == AuthMode(s.auth) = "off" /\ BootAllowsLocal(s) /\ BackendIsValid(s)
           token_ == AuthMode(s.auth) = "token" /\ (s.logto \/ s.authkit) /\ BackendIsValid(s)
<1>0. ~(local /\ token_)
  OBVIOUS
<1>1. CASE local
  <2>1. Build(s) = [Down EXCEPT !.mode = "local"]
    BY <1>0, <1>1 DEF Build
  <2>2. QED
    BY <1>1, <2>1 DEF Down
<1>2. CASE token_
  <2>1. Build(s) = [mode      |-> "token",
                    verifiers |-> {SetMcpPath(v) : v \in Verifiers(s)},
                    login     |-> Discovery(s).issuer,
                    resource  |-> Discovery(s).resource]
    BY <1>0, <1>2 DEF Build
  <2>2. QED
    BY <1>2, <2>1
<1>3. CASE ~local /\ ~token_
  <2>1. Build(s) = Down
    BY <1>3 DEF Build
  <2>2. QED
    BY <2>1 DEF Down
<1>4. QED
  BY <1>1, <1>2, <1>3

\* The tokens that settings s stand for: Logto's for a pinned identifier or for the
\* MCP face, AuthKit's for the root.
Admits(s, iss, aud) ==
    \/ s.logto /\ iss = "logto" /\ aud \in Registered("logto", s)
    \/ s.authkit /\ iss = "authkit" /\ aud \in Registered("authkit", s)

\* Binding an audience to the verifiers of a boot gives exactly those.
LEMMA BuildAdmits ==
    ASSUME NEW s \in Settings, NEW t, Build(s).mode = "token"
    PROVE  (\E v \in Build(s).verifiers : Accepted(v, t)) <=> Admits(s, t.issuer, t.audience)
<1>1. /\ SetMcpPath(LogtoVerifier(s)).issuer = "logto"
      /\ SetMcpPath(LogtoVerifier(s)).audience = Registered("logto", s)
  <2>1. LogtoVerifier(s) = [issuer |-> "logto", audience |-> s.pinned, resource |-> Resource(s.url)]
    BY DEF LogtoVerifier, Verifier
  <2>2. CASE s.pinned = {}
    BY <2>1, <2>2 DEF SetMcpPath, Registered
  <2>3. CASE s.pinned # {}
    BY <2>1, <2>3 DEF SetMcpPath, Registered
  <2>4. QED
    BY <2>2, <2>3
<1>2. /\ SetMcpPath(AuthKitVerifier(s)).issuer = "authkit"
      /\ SetMcpPath(AuthKitVerifier(s)).audience = Registered("authkit", s)
  BY DEF AuthKitVerifier, Verifier, SetMcpPath, Registered
<1>3. Registered("logto", s) # {} /\ Registered("authkit", s) # {}
  BY DEF Registered
<1>4. Build(s).verifiers = {SetMcpPath(v) : v \in Verifiers(s)}
  BY BuildModes
<1>5. (\E v \in Build(s).verifiers : Accepted(v, t)) <=>
        (\/ s.logto /\ Accepted(SetMcpPath(LogtoVerifier(s)), t)
         \/ s.authkit /\ Accepted(SetMcpPath(AuthKitVerifier(s)), t))
  BY <1>4 DEF Verifiers
<1>6. QED
  BY <1>1, <1>2, <1>3, <1>5 DEF Accepted, Admits

-----------------------------------------------------------------------------
(* Identities and accounts.                                                 *)

\* There are no more pairs than an issuer for every person allows.
LEMMA PairsBounded ==
    /\ IsFiniteSet(Issuers \X People)
    /\ Cardinality(Issuers) * Cardinality(People) \in Nat
    /\ \A S \in SUBSET (Issuers \X People) :
          /\ IsFiniteSet(S) /\ Cardinality(S) \in Nat
          /\ Cardinality(S) <= Cardinality(Issuers) * Cardinality(People)
<1>1. IsFiniteSet(Issuers)
  <2>1. IsFiniteSet({} \cup {"logto"})
    BY FS_EmptySet, FS_AddElement
  <2>2. IsFiniteSet(({} \cup {"logto"}) \cup {"authkit"})
    BY <2>1, FS_AddElement
  <2>3. Issuers = ({} \cup {"logto"}) \cup {"authkit"}
    BY DEF Issuers
  <2>4. QED
    BY <2>2, <2>3
<1>2. /\ IsFiniteSet(Issuers \X People)
      /\ Cardinality(Issuers \X People) = Cardinality(Issuers) * Cardinality(People)
  BY <1>1, PeopleAssumption, FS_Product
<1>3. QED
  BY <1>2, FS_Subset, FS_CardinalityType

\* The next number is nobody's, and it is the one the code hands out.
LEMMA NextNumber ==
    ASSUME NEW n \in Nat, Everyones = 1..n
    PROVE  1 + Cardinality(UNION {reached[q] : q \in People}) = n + 1
<1>1. Cardinality(1..n) = n
  BY FS_Interval
<1>2. 1 + Cardinality(Everyones) = n + 1
  BY <1>1
<1>3. QED
  BY <1>2 DEF Everyones

\* A pair that appears leaves the numbering as it was.
LEMMA NumberingKept ==
    ASSUME Numbered, identities \subseteq identities', reached' = reached
    PROVE  Numbered'
<1>1. PICK n \in Nat : Everyones = 1..n /\ n <= Cardinality(LinkedPairs)
  BY DEF Numbered
<1>2. LinkedPairs \subseteq LinkedPairs' /\ LinkedPairs' \subseteq Issuers \X People
  BY DEF LinkedPairs, Linked, Known
<1>3. /\ IsFiniteSet(LinkedPairs') /\ Cardinality(LinkedPairs) \in Nat /\ Cardinality(LinkedPairs') \in Nat
  BY <1>2, PairsBounded
<1>4. Cardinality(LinkedPairs) <= Cardinality(LinkedPairs')
  BY <1>2, <1>3, FS_Subset
<1>5. Everyones' = 1..n
  BY <1>1 DEF Everyones
<1>6. n <= Cardinality(LinkedPairs')
  BY <1>1, <1>3, <1>4
<1>7. QED
  BY <1>5, <1>6 DEF Numbered

\* A person nobody knows gets the next number with a pair that is new, so there is
\* still an account number left for it.
LEMMA NumberingGrows ==
    ASSUME Numbered, NEW p \in People, NEW iss \in Issuers, NEW n \in Nat,
           Everyones = 1..n, ~Linked(p, iss),
           identities' = identities \cup {[iss |-> iss, sub |-> Sub(iss, p), account |-> n + 1]},
           \A q \in People : reached'[q] = IF q = p THEN reached[q] \cup {n + 1} ELSE reached[q]
    PROVE  Numbered' /\ n + 1 \in Accounts
<1>1. n <= Cardinality(LinkedPairs)
  <2>1. PICK m \in Nat : Everyones = 1..m /\ m <= Cardinality(LinkedPairs)
    BY DEF Numbered
  <2>2. Cardinality(1..m) = m /\ Cardinality(1..n) = n
    BY FS_Interval
  <2>3. QED
    BY <2>1, <2>2
<1>2. LinkedPairs \cup {<<iss, p>>} \subseteq LinkedPairs'
  <2>1. Linked(p, iss)'
    <3> DEFINE i == [iss |-> iss, sub |-> Sub(iss, p), account |-> n + 1]
    <3>1. i.iss = iss /\ i.sub = Sub(iss, p) /\ i \in identities'
      OBVIOUS
    <3> HIDE DEF i
    <3>2. QED
      BY <3>1 DEF Linked, Known
  <2>2. LinkedPairs \subseteq LinkedPairs'
    BY DEF LinkedPairs, Linked, Known
  <2>3. QED
    BY <2>1, <2>2 DEF LinkedPairs
<1>3. <<iss, p>> \notin LinkedPairs
  BY DEF LinkedPairs
<1>4. /\ LinkedPairs \in SUBSET (Issuers \X People)
      /\ LinkedPairs \cup {<<iss, p>>} \in SUBSET (Issuers \X People)
      /\ LinkedPairs' \in SUBSET (Issuers \X People)
  BY DEF LinkedPairs
<1>5. /\ IsFiniteSet(LinkedPairs) /\ Cardinality(LinkedPairs) \in Nat
      /\ IsFiniteSet(LinkedPairs') /\ Cardinality(LinkedPairs') \in Nat
      /\ Cardinality(LinkedPairs') <= Cardinality(Issuers) * Cardinality(People)
  BY <1>4, PairsBounded
<1>6. Cardinality(LinkedPairs \cup {<<iss, p>>}) = Cardinality(LinkedPairs) + 1
  BY <1>3, <1>5, FS_AddElement
<1>7. Cardinality(LinkedPairs \cup {<<iss, p>>}) <= Cardinality(LinkedPairs')
  BY <1>2, <1>5, FS_Subset
<1>8. n + 1 <= Cardinality(LinkedPairs')
  BY <1>1, <1>5, <1>6, <1>7
<1>9. Everyones' = 1..(n + 1)
  <2>1. Everyones' = Everyones \cup {n + 1}
    BY DEF Everyones
  <2>2. QED
    BY <2>1
<1>10. n + 1 \in Accounts
  BY <1>5, <1>8, PairsBounded DEF Accounts
<1>11. QED
  BY <1>8, <1>9, <1>10 DEF Numbered

-----------------------------------------------------------------------------
(* One lemma for each kind of step.                                         *)

\* A deployment changes what the server takes, and nobody's account.
LEMMA DeployStep ==
    ASSUME IssuersInv, NEW s \in Settings, Deploy(s)
    PROVE  IssuersInv'
<1>1. /\ settings' = s /\ server' = Build(s)
      /\ deploys' = deploys + 1 /\ deploys < MaxDeploys
      /\ UNCHANGED <<token, login, identities, reached>>
  BY DEF Deploy
<1>2. TypeOK'
  <2>1. deploys' \in 0..MaxDeploys
    BY <1>1, DeployAssumption DEF IssuersInv, TypeOK
  <2>2. QED
    BY <1>1, <2>1, BuildModes DEF IssuersInv, TypeOK
<1>3. /\ \A p \in People : TokenOK(p)' /\ LoginOK(p)'
      /\ (\A i \in identities : IdentityOK(i))'
      /\ NobodyElsesTenant'
  BY <1>1 DEF IssuersInv, TokenOK, LoginOK, IdentityOK, NobodyElsesTenant
<1>4. Numbered'
  BY <1>1, NumberingKept DEF IssuersInv
<1>5. QED
  BY <1>1, <1>2, <1>3, <1>4 DEF IssuersInv

\* A pair an operator adds stands for an account its person has.
LEMMA LinkStep ==
    ASSUME IssuersInv, NEW p \in People, NEW iss \in Issuers, Link(p, iss)
    PROVE  IssuersInv'
<1>1. UNCHANGED <<settings, server, token, login, reached, deploys>>
  BY DEF Link
<1>2. PICK a \in reached[p] :
        identities' = identities \cup {[iss |-> iss, sub |-> Sub(iss, p), account |-> a]}
  BY DEF Link
<1>3. a \in Accounts
  BY <1>2 DEF IssuersInv, TypeOK
<1>4. [iss |-> iss, sub |-> Sub(iss, p), account |-> a] \in Identities
  BY <1>3, SubAssumption DEF Identities, Subjects
<1>5. TypeOK'
  BY <1>1, <1>2, <1>4 DEF IssuersInv, TypeOK
<1>6. (\A i \in identities : IdentityOK(i))'
  BY <1>1, <1>2 DEF IssuersInv, IdentityOK
<1>7. Numbered'
  BY <1>1, <1>2, NumberingKept DEF IssuersInv
<1>8. \A q \in People : TokenOK(q)' /\ LoginOK(q)'
  BY <1>1 DEF IssuersInv, TokenOK, LoginOK
<1>9. QED
  BY <1>1, <1>5, <1>6, <1>7, <1>8 DEF IssuersInv, NobodyElsesTenant

\* A step of a client that changes only its token or its login.
LEMMA ClientStep ==
    ASSUME IssuersInv, UNCHANGED <<settings, server, identities, reached, deploys>>,
           token' \in [People -> Tokens], login' \in [People -> Logins],
           \A p \in People : TokenOK(p)' /\ LoginOK(p)'
    PROVE  IssuersInv'
<1>1. TypeOK'
  BY DEF IssuersInv, TypeOK
<1>2. (\A i \in identities : IdentityOK(i))' /\ NobodyElsesTenant'
  BY DEF IssuersInv, IdentityOK, NobodyElsesTenant
<1>3. Numbered'
  BY NumberingKept DEF IssuersInv
<1>4. QED
  BY <1>1, <1>2, <1>3 DEF IssuersInv

\* A client is sent to an issuer the server is configured with.
LEMMA DiscoverStep ==
    ASSUME IssuersInv, NEW p \in People, Discover(p)
    PROVE  IssuersInv'
<1> DEFINE sent == [to |-> server.login, resource |-> server.resource]
<1>1. settings \in Settings /\ server = Build(settings) /\ server.mode = "token"
  BY DEF IssuersInv, TypeOK, Discover
<1>2. settings.url \in {"loopback", "public"}
  BY <1>1, SettingsAssumption DEF Deployments
<1>3. server.login \in Issuers /\ server.resource \in Audiences
  BY <1>1, <1>2, BuildModes
     DEF Discovery, LogtoVerifier, AuthKitVerifier, Verifier, Issuers, Audiences
<1>4. sent \in Logins /\ sent.to \in Issuers
  BY <1>3 DEF Logins
<1>5. login' = [login EXCEPT ![p] = sent]
  BY DEF Discover
<1> HIDE DEF sent
<1>6. login' \in [People -> Logins] /\ \A q \in People : LoginOK(q)'
  BY <1>4, <1>5 DEF IssuersInv, TypeOK, LoginOK
<1>7. UNCHANGED <<settings, server, token, identities, reached, deploys>>
  BY DEF Discover
<1>8. token' \in [People -> Tokens] /\ \A q \in People : TokenOK(q)'
  BY <1>7 DEF IssuersInv, TypeOK, TokenOK
<1>9. QED
  BY <1>6, <1>7, <1>8, ClientStep

\* An issuer puts into a token the subject it knows the person by.
LEMMA LogInStep ==
    ASSUME IssuersInv, NEW p \in People, LogIn(p)
    PROVE  IssuersInv'
<1> DEFINE t == [issuer |-> login[p].to, audience |-> login[p].resource,
                 sub |-> Sub(login[p].to, p)]
<1>1. login[p] \in Logins /\ login[p].to \in Issuers
  BY DEF IssuersInv, TypeOK, LoginOK, LogIn
<1>2. t \in Tokens /\ t.issuer \in Issuers /\ t.sub = Sub(t.issuer, p)
  BY <1>1, SubAssumption DEF Tokens, Subjects, Logins
<1>3. token' = [token EXCEPT ![p] = t] /\ login' = [login EXCEPT ![p] = NoLogin]
  BY DEF LogIn
<1> HIDE DEF t
<1>4. token' \in [People -> Tokens] /\ \A q \in People : TokenOK(q)'
  BY <1>2, <1>3 DEF IssuersInv, TypeOK, TokenOK
<1>5. NoLogin \in Logins
  BY DEF NoLogin, Logins, Audiences
<1>6. login' \in [People -> Logins] /\ \A q \in People : LoginOK(q)'
  BY <1>3, <1>5 DEF IssuersInv, TypeOK, LoginOK
<1>7. UNCHANGED <<settings, server, identities, reached, deploys>>
  BY DEF LogIn
<1>8. QED
  BY <1>4, <1>6, <1>7, ClientStep

\* A token is dropped.
LEMMA DropStep ==
    ASSUME IssuersInv, NEW p \in People, Expire(p) \/ Refused(p) \/ NamesNobody(p)
    PROVE  IssuersInv'
<1>1. /\ token' = [token EXCEPT ![p] = NoToken]
      /\ UNCHANGED <<settings, server, login, identities, reached, deploys>>
  BY DEF Expire, Refused, NamesNobody
<1>2. NoToken \in Tokens /\ NoToken.sub = "none"
  <2>1. Elsewhere \in Audiences
    BY DEF Audiences
  <2>2. QED
    BY <2>1 DEF NoToken, Tokens
<1>3. token' \in [People -> Tokens] /\ \A q \in People : TokenOK(q)'
  BY <1>1, <1>2 DEF IssuersInv, TypeOK, TokenOK
<1>4. login' \in [People -> Logins] /\ \A q \in People : LoginOK(q)'
  BY <1>1 DEF IssuersInv, TypeOK, LoginOK
<1>5. QED
  BY <1>1, <1>3, <1>4, ClientStep

\* A call is served from the account of its own pair, or from a new one.
LEMMA CallStep ==
    ASSUME IssuersInv, NEW p \in People, Call(p)
    PROVE  IssuersInv'
<1> DEFINE t     == token[p]
           known == AccountOf(t.issuer, t.sub)
           fresh == 1 + Cardinality(UNION {reached[q] : q \in People})
           a     == IF known = {} THEN fresh ELSE CHOOSE x \in known : TRUE
<1>1. /\ identities' = IF known = {}
                         THEN identities \cup {[iss |-> t.issuer, sub |-> t.sub, account |-> a]}
                         ELSE identities
      /\ reached' = [reached EXCEPT ![p] = @ \cup {a}]
      /\ UNCHANGED <<settings, server, token, login, deploys>>
      /\ t.sub # "none"
  BY DEF Call
<1>2. TypeOK /\ Numbered /\ reached \in [People -> SUBSET Accounts]
  BY DEF IssuersInv, TypeOK
<1>3. t.issuer \in Issuers /\ t.sub = Sub(t.issuer, p)
  BY <1>1 DEF IssuersInv, TokenOK
<1>4. /\ \A q \in People : TokenOK(q)' /\ LoginOK(q)'
      /\ server' = Build(settings')
  BY <1>1 DEF IssuersInv, TokenOK, LoginOK
<1>5. \A q \in People : reached'[q] = IF q = p THEN reached[q] \cup {a} ELSE reached[q]
  BY <1>1, <1>2
<1>6. CASE known # {}
  <2>1. a \in known /\ identities' = identities
    BY <1>1, <1>6
  <2>2. PICK i \in identities : i.iss = t.issuer /\ i.sub = t.sub /\ a = i.account
    BY <2>1 DEF AccountOf, Known
  <2>3. PICK q \in People : i.sub = Sub(i.iss, q) /\ i.account \in reached[q]
    BY <2>2 DEF IssuersInv, IdentityOK
  <2>4. q = p
    BY <1>3, <2>2, <2>3, SubAssumption
  <2>5. reached' = reached
    BY <1>1, <1>2, <2>2, <2>3, <2>4
  <2>6. TypeOK' /\ NobodyElsesTenant' /\ (\A j \in identities : IdentityOK(j))'
    BY <1>1, <2>1, <2>5 DEF IssuersInv, TypeOK, NobodyElsesTenant, IdentityOK
  <2>7. Numbered'
    BY <1>2, <2>1, <2>5, NumberingKept
  <2>8. QED
    BY <1>4, <2>6, <2>7 DEF IssuersInv
<1>7. CASE known = {}
  <2>1. PICK n \in Nat : Everyones = 1..n /\ n <= Cardinality(LinkedPairs)
    BY <1>2 DEF Numbered
  <2>2. a = n + 1
    BY <1>7, <2>1, NextNumber
  <2>3. identities' = identities \cup {[iss |-> t.issuer, sub |-> Sub(t.issuer, p), account |-> n + 1]}
    BY <1>1, <1>3, <1>7, <2>2
  <2>4. ~Linked(p, t.issuer)
    BY <1>3, <1>7 DEF AccountOf, Linked
  <2>5. \A q \in People : reached'[q] = IF q = p THEN reached[q] \cup {n + 1} ELSE reached[q]
    BY <1>5, <2>2
  <2> HIDE DEF known, fresh, a
  <2>6. Numbered' /\ n + 1 \in Accounts
    BY <1>2, <1>3, <2>1, <2>3, <2>4, <2>5, NumberingGrows
  <2>7. reached' \in [People -> SUBSET Accounts]
    BY <1>1, <1>2, <2>2, <2>6
  <2>8. [iss |-> t.issuer, sub |-> Sub(t.issuer, p), account |-> n + 1] \in Identities
    BY <1>3, <2>6, SubAssumption DEF Identities, Subjects
  <2>9. TypeOK'
    BY <1>1, <2>3, <2>7, <2>8, <1>2 DEF TypeOK
  <2>10. (\A i \in identities : IdentityOK(i))'
    <3>1. ASSUME NEW i \in identities
          PROVE  IdentityOK(i)'
      BY <2>5 DEF IssuersInv, IdentityOK
    <3>2. ASSUME NEW i, i = [iss |-> t.issuer, sub |-> Sub(t.issuer, p), account |-> n + 1]
          PROVE  IdentityOK(i)'
      BY <2>5, <3>2 DEF IdentityOK
    <3>3. QED
      BY <2>3, <3>1, <3>2
  <2>11. NobodyElsesTenant'
    <3>1. \A q \in People : n + 1 \notin reached[q]
      BY <2>1 DEF Everyones
    <3>2. QED
      BY <2>5, <3>1 DEF IssuersInv, NobodyElsesTenant
  <2>12. QED
    BY <1>4, <2>6, <2>9, <2>10, <2>11 DEF IssuersInv
<1>8. QED
  BY <1>6, <1>7

-----------------------------------------------------------------------------
(* The results.                                                             *)

\* The invariant holds from the start and for good.
THEOREM Invariance == Spec => []IssuersInv
<1>1. Init => IssuersInv
  <2> SUFFICES ASSUME Init
               PROVE  IssuersInv
    OBVIOUS
  <2>1. settings \in Settings /\ server = Build(settings) /\ settings.url \in {"loopback", "public"}
    BY SettingsAssumption DEF Init, Deployments
  <2>0. PICK p \in People : \E t \in {NoToken} \cup StrayTokens(p, settings.url) :
          token = [q \in People |-> IF q = p THEN t ELSE NoToken]
    BY DEF Init
  <2>2. PICK t \in {NoToken} \cup StrayTokens(p, settings.url) :
          token = [q \in People |-> IF q = p THEN t ELSE NoToken]
    BY <2>0
  <2>3. Elsewhere \in Audiences /\ Resource(settings.url) \in Audiences
    BY <2>1 DEF Audiences
  <2>4. NoToken \in Tokens /\ NoToken.sub = "none"
    BY <2>3 DEF NoToken, Tokens
  <2>5. t \in Tokens /\ (t.sub # "none" => t.issuer \in Issuers /\ t.sub = Sub(t.issuer, p))
    <3>1. CASE t = NoToken
      BY <2>4, <3>1
    <3>2. ASSUME NEW iss \in Issuers, t = [issuer |-> iss, audience |-> Elsewhere, sub |-> Sub(iss, p)]
          PROVE  t \in Tokens /\ t.issuer \in Issuers /\ t.sub = Sub(t.issuer, p)
      BY <2>3, <3>2, SubAssumption DEF Tokens, Subjects
    <3>3. ASSUME NEW iss \in Issuers,
                 t = [issuer |-> iss, audience |-> Resource(settings.url), sub |-> "none"]
          PROVE  t \in Tokens /\ t.sub = "none"
      BY <2>3, <3>3 DEF Tokens
    <3>4. QED
      BY <2>2, <3>1, <3>2, <3>3 DEF StrayTokens
  <2>6. token \in [People -> Tokens] /\ \A q \in People : TokenOK(q)
    BY <2>2, <2>4, <2>5 DEF TokenOK
  <2>7. NoLogin \in Logins
    BY <2>3 DEF NoLogin, Logins
  <2>8. login \in [People -> Logins] /\ \A q \in People : LoginOK(q)
    BY <2>7 DEF Init, LoginOK
  <2>9. TypeOK
    BY <2>1, <2>6, <2>8, BuildModes, DeployAssumption DEF Init, TypeOK
  <2>10. Numbered
    <3>1. Everyones = 1..0
      BY DEF Init, Everyones
    <3>2. LinkedPairs \in SUBSET (Issuers \X People)
      BY DEF LinkedPairs
    <3>3. Cardinality(LinkedPairs) \in Nat
      BY <3>2, PairsBounded
    <3>4. QED
      BY <3>1, <3>3 DEF Numbered
  <2>11. NobodyElsesTenant /\ \A i \in identities : IdentityOK(i)
    BY DEF Init, NobodyElsesTenant
  <2>12. QED
    BY <2>1, <2>6, <2>8, <2>9, <2>10, <2>11 DEF IssuersInv
<1>2. IssuersInv /\ [Next]_vars => IssuersInv'
  <2> SUFFICES ASSUME IssuersInv, [Next]_vars
               PROVE  IssuersInv'
    OBVIOUS
  <2>1. CASE UNCHANGED vars
    <3>1. Numbered'
      BY <2>1, NumberingKept DEF IssuersInv, vars
    <3>2. QED
      BY <2>1, <3>1 DEF vars, IssuersInv, TypeOK, TokenOK, LoginOK, IdentityOK, NobodyElsesTenant
  <2>2. QED
    BY <2>1, DeployStep, LinkStep, DiscoverStep, LogInStep, CallStep, DropStep
       DEF Next, ReachServer
<1>3. QED
  BY <1>1, <1>2, PTL DEF Spec

\* NobodyElsesTenant: whatever is deployed and linked, and although two issuers may
\* know two people by one subject, nobody is served from another person's account.
THEOREM OwnAccounts == Spec => []NobodyElsesTenant
<1>1. IssuersInv => NobodyElsesTenant
  BY DEF IssuersInv
<1>2. QED
  BY <1>1, Invariance, PTL

\* VerifierIsSound: a server without authentication answers to its own machine or
\* says that something guards it, and one that verifies tokens takes those of a
\* configured issuer, for an identifier of its own or a pinned one.
THEOREM OnlyItsOwn == Spec => []VerifierIsSound
<1>1. IssuersInv => VerifierIsSound
  <2> SUFFICES ASSUME IssuersInv
               PROVE  VerifierIsSound
    OBVIOUS
  <2>1. TypeOK /\ settings \in Settings /\ server = Build(settings)
    BY DEF IssuersInv, TypeOK
  <2>2. server.mode = "local" => /\ settings.url = "loopback"
                                 /\ settings.host = "loopback" \/ settings.bindAll
    BY <2>1, BuildModes DEF BootAllowsLocal
  <2>3. ASSUME NEW iss \in Issuers, NEW aud \in Audiences,
               Verified([issuer |-> iss, audience |-> aud])
        PROVE  /\ IF iss = "logto" THEN settings.logto ELSE settings.authkit
               /\ aud \in {Resource(settings.url), RootOf(settings.url)} \cup settings.pinned
    <3> DEFINE t == [issuer |-> iss, audience |-> aud]
    <3>1. PICK v \in server.verifiers : Accepted(v, t)
      BY <2>3 DEF Verified
    <3>2. server.mode = "token"
      BY <2>1, <3>1, BuildModes
    <3>3. t.issuer = iss /\ t.audience = aud
      OBVIOUS
    <3> HIDE DEF t
    <3>4. Admits(settings, iss, aud)
      BY <2>1, <3>1, <3>2, <3>3, BuildAdmits
    <3>5. QED
      BY <3>4 DEF Admits, Registered
  <2>4. QED
    BY <2>1, <2>2, <2>3 DEF VerifierIsSound, ServesOnlyItsOwn
<1>2. QED
  BY <1>1, Invariance, PTL

\* SwapKeepsTokens: no deployment, whatever else it changes, shuts out a token whose
\* issuer stays configured for what is registered with it.
THEOREM TokensSurviveSwaps == Spec => SwapKeepsTokens
<1> DEFINE Kept == \A s \in Settings, p \in People :
          /\ Deploy(s)
          /\ token[p].sub # "none" /\ Verified(token[p])
          /\ s.url = settings.url
          /\ Registered(token[p].issuer, settings) \subseteq Registered(token[p].issuer, s)
          /\ IF token[p].issuer = "logto" THEN s.logto ELSE s.authkit
          => Verified(token[p])' \/ server'.mode # "token"
<1>1. IssuersInv /\ [Next]_vars => [Kept]_vars
  <2> SUFFICES ASSUME IssuersInv,
                      NEW s \in Settings, NEW p \in People, Deploy(s),
                      token[p].sub # "none", Verified(token[p]), s.url = settings.url,
                      Registered(token[p].issuer, settings) \subseteq Registered(token[p].issuer, s),
                      IF token[p].issuer = "logto" THEN s.logto ELSE s.authkit,
                      server'.mode = "token"
               PROVE  Verified(token[p])'
    BY DEF vars
  <2>1. settings \in Settings /\ server = Build(settings)
    BY DEF IssuersInv, TypeOK
  <2>2. server' = Build(s) /\ token' = token
    BY DEF Deploy
  <2>3. PICK v \in server.verifiers : Accepted(v, token[p])
    BY DEF Verified
  <2>4. Build(settings).mode = "token"
    BY <2>1, <2>3, BuildModes
  <2>5. Admits(settings, token[p].issuer, token[p].audience)
    BY <2>1, <2>3, <2>4, BuildAdmits
  <2>6. Admits(s, token[p].issuer, token[p].audience)
    BY <2>5 DEF Admits
  <2>7. \E w \in Build(s).verifiers : Accepted(w, token[p])
    BY <2>2, <2>6, BuildAdmits
  <2>8. QED
    BY <2>2, <2>7 DEF Verified
<1>2. QED
  BY <1>1, Invariance, PTL DEF Spec, SwapKeepsTokens

-----------------------------------------------------------------------------
(* First logins.  LoginInv says what a login knows at each of its steps     *)
(* (RequestOK), and that a link names the login that made it, which carried *)
(* the linked pair (LinkOK).  Nothing it rests on is ever taken back:       *)
(* links, accounts and what a token said stay (Kept), so the logins that a  *)
(* step leaves alone stay in order (Frame) and only the acting one is       *)
(* looked at.                                                               *)

\* What a login may rely on at each of its steps.
RequestOK(l) ==
    /\ request[l].pc # "new" => request[l].pair \in Pairs
    /\ request[l].pc = "link" => l \in accounts
    /\ request[l].pc = "reread" => link[request[l].pair] # None
    /\ request[l].pc \in {"seed", "insert", "done"} =>
          request[l].user # None /\ link[request[l].pair] = request[l].user
    /\ request[l].pc = "insert" => request[l].named

\* A pair is linked to the tenant that a login of that pair minted.
LinkOK ==
    \A p \in Pairs : link[p] # None =>
        request[link[p]].pc # "new" /\ request[link[p]].pair = p

\* Seeds are written by logins that began.
SeedOK == \A u \in Requests : \A l \in seeds[u] : request[l].pc # "new"

\* The inductive invariant of first logins.
LoginInv ==
    /\ LoginTypeOK
    /\ \A l \in Requests : RequestOK(l)
    /\ LinkOK
    /\ SeedOK
    /\ LinkedTenantsExist
    /\ OrphansStayEmpty
    /\ SeedsAreClaims

\* What no step takes back.
Kept ==
    /\ \A p \in Pairs : link[p] # None => link'[p] = link[p]
    /\ accounts \subseteq accounts'
    /\ \A l \in Requests : request[l].pc # "new" =>
           /\ request'[l].pc # "new"
           /\ request'[l].pair = request[l].pair
           /\ request'[l].named = request[l].named

-----------------------------------------------------------------------------
(* What every step keeps.                                                   *)

\* A login that another login's step leaves alone stays in order.
LEMMA Frame ==
    ASSUME LoginTypeOK, Kept, NEW l \in Requests, RequestOK(l), request'[l] = request[l]
    PROVE  RequestOK(l)'
BY DEF LoginTypeOK, Kept, RequestOK

\* Where no link is made, links still name their logins.
LEMMA LinkFrame ==
    ASSUME LoginTypeOK, Kept, LinkOK, link' = link
    PROVE  LinkOK'
BY DEF LoginTypeOK, Kept, LinkOK

\* Where no seed is written, seeds are still claims.
LEMMA SeedFrame ==
    ASSUME LoginTypeOK, Kept, SeedOK, SeedsAreClaims,
           \A l \in Requests : RequestOK(l), seeds' = seeds
    PROVE  SeedOK' /\ SeedsAreClaims'
<1> SUFFICES ASSUME NEW u \in Requests, NEW l \in seeds[u]
             PROVE  /\ request'[l].pc # "new"
                    /\ request'[l].named /\ link'[request'[l].pair] = u
  BY DEF SeedOK, SeedsAreClaims
<1>1. l \in Requests /\ request[l].pc # "new" /\ request[l].named /\ link[request[l].pair] = u
  BY DEF LoginTypeOK, SeedOK, SeedsAreClaims
<1>2. request[l].pair \in Pairs
  BY <1>1 DEF RequestOK
<1>3. QED
  BY <1>1, <1>2, NoneAssumption DEF Kept

\* A tenant that keeps its profile, or gets one while it is linked, is no orphan.
LEMMA OrphanFrame ==
    ASSUME LoginTypeOK, Kept, OrphansStayEmpty,
           \A u \in Requests : profile'[u] = profile[u] \/ \E p \in Pairs : link[p] = u
    PROVE  OrphansStayEmpty'
<1> SUFFICES ASSUME NEW u \in Requests, profile'[u] # "absent"
             PROVE  \E p \in Pairs : link'[p] = u
  BY DEF OrphansStayEmpty
<1>1. PICK p \in Pairs : link[p] = u
  BY DEF OrphansStayEmpty
<1>2. link'[p] = u
  BY <1>1, NoneAssumption DEF Kept
<1>3. QED
  BY <1>2

-----------------------------------------------------------------------------
(* One lemma for each step.                                                 *)

\* A token arrives: its login starts and nothing else changes.
LEMMA BeginStep ==
    ASSUME LoginInv, NEW l \in Requests, NEW p \in Pairs, NEW named \in BOOLEAN,
           Begin(l, p, named)
    PROVE  LoginInv'
<1> USE DEF LoginInv
<1>1. LoginTypeOK'
  BY DEF LoginTypeOK, Begin, Pcs
<1>2. Kept
  BY DEF LoginTypeOK, Begin, Kept
<1>3. \A m \in Requests : RequestOK(m)'
  <2>1. RequestOK(l)'
    BY DEF LoginTypeOK, Begin, RequestOK
  <2>2. \A m \in Requests \ {l} : request'[m] = request[m]
    BY DEF LoginTypeOK, Begin
  <2>3. QED
    BY <1>2, <2>1, <2>2, Frame
<1>4. /\ LinkOK' /\ SeedOK' /\ SeedsAreClaims'
      /\ OrphansStayEmpty' /\ LinkedTenantsExist'
  BY <1>2, LinkFrame, SeedFrame, OrphanFrame DEF Begin, LinkedTenantsExist
<1>5. QED
  BY <1>1, <1>3, <1>4

\* Looking the pair up, taking the stored link, passing over the seed and
\* giving it up change the login alone, and leave it in order.
LEMMA ReadStep ==
    ASSUME LoginInv, NEW l \in Requests,
           Find(l) \/ Reread(l) \/ SeedCheck(l) \/ SeedFails(l)
    PROVE  LoginInv'
<1> USE DEF LoginInv
<1>1. /\ UNCHANGED <<accounts, link, profile, seeds>>
      /\ \A m \in Requests \ {l} : request'[m] = request[m]
  BY DEF LoginTypeOK, Find, Reread, SeedCheck, SeedFails
<1>2. request[l].pair \in Pairs
  BY DEF RequestOK, Find, Reread, SeedCheck, SeedFails
<1>3. LoginTypeOK'
  BY <1>2 DEF LoginTypeOK, Find, Reread, SeedCheck, SeedFails, Pcs
<1>4. Kept
  BY DEF LoginTypeOK, Find, Reread, SeedCheck, SeedFails, Kept
<1>5. RequestOK(l)'
  BY <1>2 DEF LoginTypeOK, RequestOK, Find, Reread, SeedCheck, SeedFails
<1>6. \A m \in Requests : RequestOK(m)'
  BY <1>1, <1>4, <1>5, Frame
<1>7. /\ LinkOK' /\ SeedOK' /\ SeedsAreClaims'
      /\ OrphansStayEmpty' /\ LinkedTenantsExist'
  BY <1>1, <1>4, LinkFrame, SeedFrame, OrphanFrame DEF LinkedTenantsExist
<1>8. QED
  BY <1>3, <1>6, <1>7

\* The account is there before the link can name it.
LEMMA EnsureAccountStep ==
    ASSUME LoginInv, NEW l \in Requests, EnsureAccount(l)
    PROVE  LoginInv'
<1> USE DEF LoginInv
<1>1. LoginTypeOK'
  BY DEF LoginTypeOK, EnsureAccount, Pcs
<1>2. Kept
  BY DEF LoginTypeOK, EnsureAccount, Kept
<1>3. \A m \in Requests : RequestOK(m)'
  <2>1. RequestOK(l)'
    BY DEF LoginTypeOK, EnsureAccount, RequestOK
  <2>2. \A m \in Requests \ {l} : request'[m] = request[m]
    BY DEF LoginTypeOK, EnsureAccount
  <2>3. QED
    BY <1>2, <2>1, <2>2, Frame
<1>4. /\ LinkOK' /\ SeedOK' /\ SeedsAreClaims'
      /\ OrphansStayEmpty' /\ LinkedTenantsExist'
  BY <1>2, LinkFrame, SeedFrame, OrphanFrame DEF EnsureAccount, LinkedTenantsExist
<1>5. QED
  BY <1>1, <1>3, <1>4

\* The first link of a pair stands, and it names a login of that pair.
LEMMA LinkIdentityStep ==
    ASSUME LoginInv, NEW l \in Requests, LinkIdentity(l)
    PROVE  LoginInv'
<1> USE DEF LoginInv
<1> DEFINE pair == request[l].pair
<1>1. pair \in Pairs /\ l \in accounts /\ request[l].pc = "link"
  BY DEF RequestOK, LinkIdentity
<1>2. LoginTypeOK'
  BY <1>1 DEF LoginTypeOK, LinkIdentity, Pcs
<1>3. Kept
  BY <1>1 DEF LoginTypeOK, LinkIdentity, Kept
<1>4. /\ link'[pair] = IF link[pair] = None THEN l ELSE link[pair]
      /\ \A p \in Pairs \ {pair} : link'[p] = link[p]
  BY <1>1 DEF LoginTypeOK, LinkIdentity
<1>5. \A m \in Requests : RequestOK(m)'
  <2>1. RequestOK(l)'
    BY <1>1, <1>4, NoneAssumption DEF LoginTypeOK, LinkIdentity, RequestOK
  <2>2. \A m \in Requests \ {l} : request'[m] = request[m]
    BY DEF LoginTypeOK, LinkIdentity
  <2>3. QED
    BY <1>3, <2>1, <2>2, Frame
<1>6. LinkOK'
  <2> SUFFICES ASSUME NEW p \in Pairs, link'[p] # None
               PROVE  request'[link'[p]].pc # "new" /\ request'[link'[p]].pair = p
    BY DEF LinkOK
  <2>1. CASE link[p] # None
    BY <1>3, <2>1 DEF LinkOK, Kept, LoginTypeOK
  <2>2. CASE link[p] = None
    <3>1. p = pair /\ link'[p] = l
      BY <1>4, <2>2
    <3>2. QED
      BY <1>1, <1>3, <3>1 DEF Kept
  <2>3. QED
    BY <2>1, <2>2
<1>7. LinkedTenantsExist'
  BY <1>1, <1>4 DEF LinkIdentity, LinkedTenantsExist
<1>8. SeedOK' /\ SeedsAreClaims' /\ OrphansStayEmpty'
  BY <1>3, SeedFrame, OrphanFrame DEF LinkIdentity
<1>9. QED
  BY <1>2, <1>5, <1>6, <1>7, <1>8

\* The seed goes into the tenant that the stored link leads to, and only from a
\* login whose token carried a name.
LEMMA SeedInsertStep ==
    ASSUME LoginInv, NEW l \in Requests, SeedInsert(l)
    PROVE  LoginInv'
<1> USE DEF LoginInv
<1> DEFINE user == request[l].user
<1>1. /\ request[l].pair \in Pairs /\ request[l].named
      /\ user \in Requests /\ link[request[l].pair] = user
  BY DEF LoginTypeOK, RequestOK, SeedInsert
<1>2. /\ request' = [request EXCEPT ![l].pc = "done"]
      /\ UNCHANGED <<accounts, link>>
      /\ \A u \in Requests \ {user} : profile'[u] = profile[u] /\ seeds'[u] = seeds[u]
      /\ seeds'[user] \subseteq seeds[user] \cup {l}
  BY <1>1 DEF LoginTypeOK, SeedInsert
<1>3. LoginTypeOK'
  BY <1>1 DEF LoginTypeOK, SeedInsert, Pcs, Profiles
<1>4. Kept
  BY <1>2 DEF LoginTypeOK, Kept
<1>5. \A m \in Requests : RequestOK(m)'
  <2>1. RequestOK(l)'
    BY <1>1, <1>2, NoneAssumption DEF LoginTypeOK, RequestOK
  <2>2. \A m \in Requests \ {l} : request'[m] = request[m]
    BY <1>2 DEF LoginTypeOK
  <2>3. QED
    BY <1>4, <2>1, <2>2, Frame
<1>6. LinkOK' /\ LinkedTenantsExist' /\ OrphansStayEmpty'
  BY <1>1, <1>2, <1>4, LinkFrame, OrphanFrame DEF LinkedTenantsExist
<1>7. SeedOK' /\ SeedsAreClaims'
  <2> SUFFICES ASSUME NEW u \in Requests, NEW m \in seeds'[u]
               PROVE  /\ request'[m].pc # "new"
                      /\ request'[m].named /\ link'[request'[m].pair] = u
    BY DEF SeedOK, SeedsAreClaims
  <2>1. (m \in Requests /\ m \in seeds[u]) \/ (m = l /\ u = user)
    BY <1>2 DEF LoginTypeOK
  <2>2. /\ m \in Requests /\ request[m].pc # "new" /\ request[m].named
        /\ link[request[m].pair] = u
    BY <1>1, <2>1 DEF SeedOK, SeedsAreClaims, SeedInsert
  <2>3. QED
    BY <1>2, <1>4, <2>2 DEF Kept
<1>8. QED
  BY <1>3, <1>5, <1>6, <1>7

\* A person writes the profile of the tenant their login was answered with.
LEMMA PersonStep ==
    ASSUME LoginInv, NEW u \in Requests, NEW to \in Profiles, Person(u, to)
    PROVE  LoginInv'
<1> USE DEF LoginInv
<1>1. LoginTypeOK' /\ Kept
  BY DEF LoginTypeOK, Person, Kept
<1>2. PICK l \in Requests : request[l].pc = "done" /\ request[l].user = u
  BY DEF Person
<1>3. request[l].pair \in Pairs /\ link[request[l].pair] = u
  BY <1>2 DEF RequestOK
<1>4. \A m \in Requests \ {u} : profile'[m] = profile[m]
  BY DEF LoginTypeOK, Person
<1>5. OrphansStayEmpty'
  BY <1>1, <1>3, <1>4, OrphanFrame
<1>6. \A m \in Requests : RequestOK(m)'
  BY <1>1, Frame DEF Person
<1>7. LinkOK' /\ SeedOK' /\ SeedsAreClaims' /\ LinkedTenantsExist'
  BY <1>1, LinkFrame, SeedFrame DEF Person, LinkedTenantsExist
<1>8. QED
  BY <1>1, <1>5, <1>6, <1>7

\* A crash ends requests, and what they committed stays.
LEMMA CrashStep ==
    ASSUME LoginInv, Crash
    PROVE  LoginInv'
<1> USE DEF LoginInv
<1>1. \A l \in Requests :
         /\ request'[l] = IF request[l].pc \in InFlight
                        THEN [request[l] EXCEPT !.pc = "crashed"] ELSE request[l]
         /\ request[l].pc \in InFlight => request[l].pc # "new"
  BY DEF Crash, InFlight
<1>2. LoginTypeOK'
  BY <1>1 DEF LoginTypeOK, Crash, Pcs
<1>3. Kept
  BY <1>1 DEF LoginTypeOK, Kept, Crash
<1>4. ASSUME NEW l \in Requests
      PROVE  RequestOK(l)'
  <2>1. CASE request[l].pc \in InFlight
    BY <1>1, <2>1 DEF LoginTypeOK, RequestOK
  <2>2. CASE request[l].pc \notin InFlight
    BY <1>1, <1>3, <2>2, Frame
  <2>3. QED
    BY <2>1, <2>2
<1>5. /\ LinkOK' /\ SeedOK' /\ SeedsAreClaims'
      /\ OrphansStayEmpty' /\ LinkedTenantsExist'
  BY <1>3, LinkFrame, SeedFrame, OrphanFrame DEF Crash, LinkedTenantsExist
<1>6. QED
  BY <1>2, <1>4, <1>5

-----------------------------------------------------------------------------
(* The theorems.                                                            *)

\* The inductive invariant of logins, links and tenants.
THEOREM LoginInvariance == LoginSpec => []LoginInv
<1>1. LoginInit => LoginInv
  BY DEF LoginInit, LoginInv, LoginTypeOK, RequestOK, LinkOK, SeedOK,
         LinkedTenantsExist, OrphansStayEmpty, SeedsAreClaims,
         NewLogin, Pcs, Profiles
<1>2. LoginInv /\ [LoginNext]_LoginVars => LoginInv'
  <2> SUFFICES ASSUME LoginInv, [LoginNext]_LoginVars
               PROVE  LoginInv'
    OBVIOUS
  <2>1. CASE \E l \in Requests, p \in Pairs, named \in BOOLEAN : Begin(l, p, named)
    BY <2>1, BeginStep
  <2>2. CASE \E l \in Requests : Resolve(l)
    BY <2>2, ReadStep, EnsureAccountStep, LinkIdentityStep, SeedInsertStep DEF Resolve
  <2>3. CASE \E u \in Requests, to \in Profiles : Person(u, to)
    BY <2>3, PersonStep
  <2>4. CASE Crash
    BY <2>4, CrashStep
  <2>5. CASE UNCHANGED LoginVars
    BY <2>5 DEF LoginVars, LoginInv, LoginTypeOK, RequestOK, LinkOK, SeedOK,
                LinkedTenantsExist, OrphansStayEmpty, SeedsAreClaims
  <2>6. QED
    BY <2>1, <2>2, <2>3, <2>4, <2>5 DEF LoginNext
<1>3. QED
  BY <1>1, <1>2, PTL DEF LoginSpec

\* Every login of a person is answered with the same tenant, and no other
\* person's login is, however first logins and crashes interleave.
THEOREM SameTenant == LoginSpec => []OneTenantPerPair
<1>1. LoginInv => OneTenantPerPair
  <2> SUFFICES ASSUME LoginInv, NEW l \in Requests, NEW m \in Requests,
                      request[l].pc = "done", request[m].pc = "done"
               PROVE  request[l].user = request[m].user <=> request[l].pair = request[m].pair
    BY DEF OneTenantPerPair
  <2>1. \A n \in {l, m} : /\ request[n].pair \in Pairs /\ request[n].user # None
                          /\ link[request[n].pair] = request[n].user
    BY DEF LoginInv, RequestOK
  <2>2. \A n \in {l, m} : request[request[n].user].pair = request[n].pair
    BY <2>1 DEF LoginInv, LinkOK
  <2>3. QED
    BY <2>1, <2>2
<1>2. QED
  BY <1>1, LoginInvariance, PTL

\* A tenant a link names has its account, an account nobody is led to has no
\* memory, and a seed says only what a token of that person said.
THEOREM TenantsSound == LoginSpec => []TenantsAreSound
<1>1. LoginInv => TenantsAreSound
  BY DEF LoginInv, TenantsAreSound
<1>2. QED
  BY <1>1, LoginInvariance, PTL

\* No login seeds over a profile that its person wrote or archived, also when
\* the check before the insert saw none.
THEOREM NeverSeeded == LoginSpec => AuthoredIsNeverSeeded
<1> DEFINE Left == \A u \in Requests : profile[u] \in {"authored", "archived"} =>
                                         profile'[u] # "seeded"
<1>1. LoginInv /\ [LoginNext]_LoginVars => [Left]_LoginVars
  <2> SUFFICES ASSUME LoginInv, LoginNext
               PROVE  Left
    OBVIOUS
  <2>1. CASE \E l \in Requests, p \in Pairs, named \in BOOLEAN : Begin(l, p, named)
    BY <2>1 DEF Begin
  <2>2. ASSUME NEW l \in Requests, SeedInsert(l)
        PROVE  Left
    BY <2>2 DEF SeedInsert, LoginInv, LoginTypeOK
  <2>3. CASE \E l \in Requests : Resolve(l)
    BY <2>2, <2>3 DEF Resolve, Find, EnsureAccount, LinkIdentity,
                     Reread, SeedCheck, SeedFails
  <2>4. CASE \E u \in Requests, to \in Profiles : Person(u, to)
    BY <2>4 DEF Person, LoginInv, LoginTypeOK
  <2>5. CASE Crash
    BY <2>5 DEF Crash
  <2>6. QED
    BY <2>1, <2>3, <2>4, <2>5 DEF LoginNext
<1>2. QED
  BY <1>1, LoginInvariance, PTL DEF LoginSpec, AuthoredIsNeverSeeded
=============================================================================
