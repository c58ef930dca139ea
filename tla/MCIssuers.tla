------------------------------ MODULE MCIssuers ------------------------------
(* Model-checking instance of Issuers: two people whom the issuers know by   *)
(* crossed subjects.                                                         *)
EXTENDS Issuers

CONSTANTS ann, bob

MCPeople == {ann, bob}

\* One issuer's subject for Ann is the other's for Bob.
MCSub(iss, p) == IF (iss = "logto") = (p = ann) THEN "s1" ELSE "s2"

Hosted == [auth |-> "", url |-> "public", host |-> "any", bindAll |-> FALSE, logto |-> TRUE,
           authkit |-> FALSE, pinned |-> {}, backend |-> "postgres", dsn |-> TRUE]

\* A swap of issuers in any order, with and without a rename window.
Swaps == {[Hosted EXCEPT !.logto = l, !.authkit = a, !.pinned = pin] :
             l \in BOOLEAN, a \in BOOLEAN, pin \in {{}, {Resource("public"), RootOf("public")}}}

\* Local mode, meant and mistyped, and a server that cannot reach its store.
Laptops == {[Hosted EXCEPT !.auth = auth, !.url = url, !.host = host, !.bindAll = all] :
               auth \in {"off", "of"}, url \in {"loopback", "public"},
               host \in {"loopback", "any"}, all \in BOOLEAN}

Broken == {[Hosted EXCEPT !.backend = "postgre"], [Hosted EXCEPT !.dsn = FALSE]}

MCSettings == Swaps \cup Laptops \cup Broken

MCSwaps == Swaps

\* The identifier registered is not the one the server advertises.
MCPinned == {[Hosted EXCEPT !.pinned = {RootOf("public")}]}
=============================================================================
