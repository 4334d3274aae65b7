-------------------------- MODULE StatusAuthority --------------------------
(***************************************************************************)
(* What Certarium promises about certificate status, as an operator of the *)
(* inventory and a client of the OCSP responder see it: a bundle is        *)
(* recorded once and revoked once, an authority's answers about all of its *)
(* bundles change together, and a bundle is recorded as revoked only after *)
(* the authority answers so, which it then does for ever.                  *)
(***************************************************************************)
CONSTANTS
    Names,      \* certificate bundles
    Issuers,    \* certificate authorities
    NoIssuer    \* the issuer of a bundle that is not recorded

VARIABLES
    issuer,     \* the authority a bundle is recorded under
    record,     \* the inventory's state of a bundle
    answer      \* the OCSP status of its certificates

vars == <<issuer, record, answer>>

Init ==
    /\ issuer = [n \in Names |-> NoIssuer]
    /\ record = [n \in Names |-> "absent"]
    /\ answer = [n \in Names |-> "unknown"]

\* An issued bundle enters the inventory.
Record(n, c) ==
    /\ record[n] = "absent"
    /\ record' = [record EXCEPT ![n] = "valid"]
    /\ issuer' = [issuer EXCEPT ![n] = c]
    /\ UNCHANGED answer

\* The bundles a single revocation concerns: one, or none on other occasions.
AtMostOne == {{}} \cup {{n} : n \in Names}

\* An authority answers anew about everything recorded under it.  It keeps a
\* recorded revocation; AtMostOne bundle more may be answered "revoked" early,
\* the one an operator is about to revoke.
Publish(c, revoking) ==
    /\ answer' = [n \in Names |->
                     IF issuer[n] # c THEN answer[n]
                     ELSE IF record[n] = "revoked" \/ n \in revoking
                          THEN "revoked" ELSE "good"]
    /\ UNCHANGED <<issuer, record>>

\* The revocation is recorded.
Confirm(n) ==
    /\ record[n] = "valid"
    /\ answer[n] = "revoked"
    /\ record' = [record EXCEPT ![n] = "revoked"]
    /\ UNCHANGED <<issuer, answer>>

Next ==
    \/ \E n \in Names, c \in Issuers : Record(n, c)
    \/ \E c \in Issuers, revoking \in AtMostOne : Publish(c, revoking)
    \/ \E n \in Names : Confirm(n)

Spec == Init /\ [][Next]_vars
=============================================================================
