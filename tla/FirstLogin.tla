------------------------------ MODULE FirstLogin ------------------------------
(***************************************************************************)
(* From a verified token to a tenant.                                      *)
(*                                                                         *)
(* IdentityService.resolve looks up the pair of issuer and subject that    *)
(* the token carries and creates a tenant when there is none: an account,  *)
(* then the link, then a starting profile, each committed on its own.      *)
(* Concurrent first logins of one person interleave, and the server may    *)
(* stop between any two steps.                                             *)
(*                                                                         *)
(* A login mints a fresh uuid4, so the user_id it mints is named after the *)
(* request.                                                                *)
(***************************************************************************)
CONSTANTS
    Requests,   \* requests that resolve a token, each made once
    Pairs,      \* (iss, sub) pairs
    None        \* SQL NULL, no row

ASSUME NoneAssumption == None \notin Requests \cup Pairs

VARIABLES
    accounts,   \* user_ids that have an account row
    link,       \* user_identity: the user_id of each pair
    profile,    \* the tenant's user profile in shared_record
    request,    \* what each of them is at
    seeds       \* history: the logins whose seed was written, for each tenant

LoginVars == <<accounts, link, profile, request, seeds>>

Profiles == {"absent", "seeded", "authored", "archived"}
Pcs == {"new", "find", "account", "link", "reread", "seed", "insert", "done", "crashed"}
InFlight == Pcs \ {"new", "done", "crashed"}

NewLogin == [pc |-> "new", pair |-> None, named |-> FALSE, user |-> None]

LoginInit ==
    /\ accounts = {}
    /\ link     = [p \in Pairs |-> None]
    /\ profile  = [u \in Requests |-> "absent"]
    /\ request  = [l \in Requests |-> NewLogin]
    /\ seeds    = [u \in Requests |-> {}]

-----------------------------------------------------------------------------
\* named: the token carries a name claim.
Begin(l, p, named) ==
    /\ request[l].pc = "new"
    /\ request' = [request EXCEPT ![l] = [pc |-> "find", pair |-> p, named |-> named, user |-> None]]
    /\ UNCHANGED <<accounts, link, profile, seeds>>

\* A pair that is linked is answered with its tenant; a new one gets a tenant.
Find(l) ==
    /\ request[l].pc = "find"
    /\ LET user == link[request[l].pair]
       IN  request' = [request EXCEPT ![l].pc = IF user = None THEN "account" ELSE "done",
                                  ![l].user = user]
    /\ UNCHANGED <<accounts, link, profile, seeds>>

BugEnsureAccountLater(l) ==
    /\ request[l].pc = "account"
    /\ request' = [request EXCEPT ![l].pc = "link"]
    /\ UNCHANGED <<accounts, link, profile, seeds>>

\* The account of the user_id this login minted.
EnsureAccount(l) ==
    /\ request[l].pc = "account"
    /\ accounts' = accounts \cup {l}
    /\ request' = [request EXCEPT ![l].pc = "link"]
    /\ UNCHANGED <<link, profile, seeds>>

BugLinkReplaces(l) ==
    /\ request[l].pc = "link"
    /\ link' = [link EXCEPT ![request[l].pair] = l]
    /\ request' = [request EXCEPT ![l].pc = "reread"]
    /\ UNCHANGED <<accounts, profile, seeds>>

\* INSERT OR IGNORE: the first link of a pair stands.
LinkIdentity(l) ==
    /\ request[l].pc = "link"
    /\ link' = [link EXCEPT ![request[l].pair] = IF @ = None THEN l ELSE @]
    /\ request' = [request EXCEPT ![l].pc = "reread"]
    /\ UNCHANGED <<accounts, profile, seeds>>

BugRereadTrustsMinted(l) ==
    /\ request[l].pc = "reread"
    /\ request' = [request EXCEPT ![l].pc = "seed", ![l].user = l]
    /\ UNCHANGED <<accounts, link, profile, seeds>>

\* "The stored answer is the true one."
Reread(l) ==
    /\ request[l].pc = "reread"
    /\ request' = [request EXCEPT ![l].pc = "seed", ![l].user = link[request[l].pair]]
    /\ UNCHANGED <<accounts, link, profile, seeds>>

BugSeedCheckForgetsName(l) ==
    /\ request[l].pc = "seed"
    /\ request' = [request EXCEPT ![l].pc =
                    IF profile[request[l].user] \in {"absent", "archived"}
                    THEN "insert" ELSE "done"]
    /\ UNCHANGED <<accounts, link, profile, seeds>>

\* seed_profile: the query does not see an archived profile.
SeedCheck(l) ==
    /\ request[l].pc = "seed"
    /\ request' = [request EXCEPT ![l].pc =
                    IF request[l].named /\ profile[request[l].user] \in {"absent", "archived"}
                    THEN "insert" ELSE "done"]
    /\ UNCHANGED <<accounts, link, profile, seeds>>

BugSeedInsertOverwrites(l) ==
    /\ request[l].pc = "insert"
    /\ profile' = [profile EXCEPT ![request[l].user] = "seeded"]
    /\ seeds' = [seeds EXCEPT ![request[l].user] = @ \cup {l}]
    /\ request' = [request EXCEPT ![l].pc = "done"]
    /\ UNCHANGED <<accounts, link>>

\* The one-profile index refuses the insert when a profile is there by now, and
\* resolve swallows the error.
SeedInsert(l) ==
    /\ request[l].pc = "insert"
    /\ LET user == request[l].user
       IN  IF profile[user] = "absent"
           THEN /\ profile' = [profile EXCEPT ![user] = "seeded"]
                /\ seeds' = [seeds EXCEPT ![user] = @ \cup {l}]
           ELSE UNCHANGED <<profile, seeds>>
    /\ request' = [request EXCEPT ![l].pc = "done"]
    /\ UNCHANGED <<accounts, link>>

\* The hook is best-effort: whatever it raises, the login is answered.
SeedFails(l) ==
    /\ request[l].pc \in {"seed", "insert"}
    /\ request' = [request EXCEPT ![l].pc = "done"]
    /\ UNCHANGED <<accounts, link, profile, seeds>>

\* The server stops; every request in flight is gone, what was committed stays.
Crash ==
    /\ \E l \in Requests : request[l].pc \in InFlight
    /\ request' = [l \in Requests |-> IF request[l].pc \in InFlight
                                      THEN [request[l] EXCEPT !.pc = "crashed"] ELSE request[l]]
    /\ UNCHANGED <<accounts, link, profile, seeds>>

\* What the person may do once a login of theirs was answered: write the profile
\* anew or over the seed, archive it, delete it.
Person(u, to) ==
    /\ \E l \in Requests : request[l].pc = "done" /\ request[l].user = u
    /\ \/ to = "authored" /\ profile[u] \in {"absent", "seeded"}
       \/ to = "archived" /\ profile[u] \in {"seeded", "authored"}
       \/ to = "absent" /\ profile[u] # "absent"
    /\ profile' = [profile EXCEPT ![u] = to]
    /\ UNCHANGED <<accounts, link, request, seeds>>

Resolve(l) ==
    \/ Find(l) \/ EnsureAccount(l) \/ LinkIdentity(l) \/ Reread(l)
    \/ SeedCheck(l) \/ SeedInsert(l) \/ SeedFails(l)

LoginNext ==
    \/ \E l \in Requests, p \in Pairs, named \in BOOLEAN : Begin(l, p, named)
    \/ \E l \in Requests : Resolve(l)
    \/ \E u \in Requests, to \in Profiles : Person(u, to)
    \/ Crash

LoginSpec == LoginInit /\ [][LoginNext]_LoginVars

-----------------------------------------------------------------------------
(* Properties.                                                              *)

LoginTypeOK ==
    /\ accounts \subseteq Requests
    /\ link    \in [Pairs -> Requests \cup {None}]
    /\ profile \in [Requests -> Profiles]
    /\ request \in [Requests -> [pc : Pcs, pair : Pairs \cup {None}, named : BOOLEAN,
                                 user : Requests \cup {None}]]
    /\ seeds   \in [Requests -> SUBSET Requests]

\* All logins of one person, simultaneous first ones included, and the ones
\* after a crash, come to the same tenant; two people never come to one.
OneTenantPerPair ==
    \A l, m \in Requests :
        (request[l].pc = "done" /\ request[m].pc = "done") =>
            (request[l].user = request[m].user <=> request[l].pair = request[m].pair)

\* A link names an account that exists, so a login never comes to a tenant
\* whose creation was cut short before its account row.
LinkedTenantsExist == \A p \in Pairs : link[p] # None => link[p] \in accounts

\* An account that lost the race, or whose login stopped half-way, stays empty:
\* memory only ever appears in a tenant that somebody's login leads to.
OrphansStayEmpty ==
    \A u \in Requests : profile[u] # "absent" => \E p \in Pairs : link[p] = u

\* The seed never replaces what a person wrote, whatever a second login read
\* before they wrote it.
AuthoredIsNeverSeeded ==
    [][\A u \in Requests : profile[u] \in {"authored", "archived"} => profile'[u] # "seeded"]_LoginVars

\* A seed makes a claim about a person: only a login of that person whose token
\* carried a name writes one.
SeedsAreClaims ==
    \A u \in Requests : \A l \in seeds[u] : request[l].named /\ link[request[l].pair] = u

\* All of it: tenants are there, are led to by somebody and claim only what a
\* token said.
TenantsAreSound == LoginTypeOK /\ LinkedTenantsExist /\ OrphansStayEmpty /\ SeedsAreClaims

(* What the tests and the documentation say and the code does not do.       *)

\* "A tenant born from a login gets a profile carrying the provider's name,
\* exactly once": never twice ...
SeededAtMostOnce == \A u, l, m \in Requests : {l, m} \subseteq seeds[u] => l = m

\* ... and not never: once a named login was answered and none is under way, its
\* tenant has been seeded or its profile written by the person.
NamedTenantHasProfile ==
    [][\A l \in Requests :
          (/\ request[l].pc = "find" /\ request'[l].pc = "done" /\ request[l].named
           /\ \A m \in Requests \ {l} : request[m].pc \notin InFlight
           /\ \A m \in Requests \ {l} : request[m].pc = "crashed" => request[m].named
           /\ \A m \in Requests \ {l} : request[m].pc # "done")
          => seeds[request'[l].user] # {}]_LoginVars
=============================================================================
