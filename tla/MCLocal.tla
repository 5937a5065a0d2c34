------------------------------ MODULE MCLocal ------------------------------
(***************************************************************************)
(* The instance of Local that TLC explores, with certificates              *)
(* (Certificates) as one more subject.                                     *)
(***************************************************************************)
EXTENDS Local

CONSTANTS Requests, MaxCerts, MaxGraph

VARIABLES certs, judged, packed

Certifying == INSTANCE Certificates
Sample == INSTANCE Samples

certVars == <<certs, judged, packed>>

MCInit == LocalInit /\ Certifying!Init
CertificateSteps ==
  subject = "certificate" /\ Certifying!Next /\ UNCHANGED localVars
MCNext == (LocalNext /\ UNCHANGED certVars) \/ CertificateSteps

MCSpec == MCInit /\ [][MCNext]_<<localVars, certVars>>

\* A registry without live entries behaves the same wherever its counter is,
\* as long as nobody keeps a handle that is gone.
Idle(k) == guest.live[k] = {} /\ (k = "unsigned" => spent = {})
View ==
  <<[k \in Kinds |-> IF Idle(k) THEN 0 ELSE guest.next[k]],
    guest.live, guest.error, objects, lost, spent, calls, thrown,
    subject, sealVars, buildVars, certVars, nameVars>>

-----------------------------------------------------------------------------
(* Values of the constants.                                                *)

MCStarts == Sample!SomeStarts
MCSigners == Sample!SomeSigners
MCCatalogue == Sample!SomeOperations
MCPrimary == Sample!Alice
MCSigner == Sample!Bob
MCGroups == Sample!SomeGroups
MCStaged == Sample!SomeStaged

Extra(oid, critical, value) == [oid |-> oid, critical |-> critical, value |-> value]
Draft(name, issuer, isCa, common, exts) ==
  [subject |-> name, issuer |-> issuer, key |-> name, isCa |-> isCa,
   common |-> common, exts |-> exts]

\* Certificates that issue each other in circles of two and three, roots, and
\* some with a flaw: one is signed with another key than its issuer's, one names
\* another authority key, one has a critical extension nobody knows, and some bring extensions of their own, the authority
\* key that tells two certificates of an issuer apart among them.
Plain == {<<"a", "a">>, <<"a", "b">>, <<"b", "a">>, <<"b", "c">>, <<"c", "a">>,
          <<"c", "b">>, <<"c", "c">>}
MCRequests ==
  {[draft |-> Draft(p[1], p[2], IF p[1] = p[2] THEN "ca" ELSE "unset",
                    p[1] # "c" \/ p[2] = "c", << >>),
    signer |-> p[2]] : p \in Plain} \cup
  {[draft |-> Draft("a", "b", "unset", TRUE, << >>), signer |-> "c"],
   [draft |-> Draft("a", "b", "leaf", TRUE, <<Extra("authorityKeyIdentifier", FALSE, "c")>>),
    signer |-> "b"],
   [draft |-> Draft("b", "c", "ca", TRUE, <<Extra("keyUsage", TRUE, "ca"),
                                            Extra("subjectKeyIdentifier", FALSE, "b")>>),
    signer |-> "c"],
   [draft |-> Draft("b", "c", "unset", FALSE, <<Extra("authorityKeyIdentifier", FALSE, "c")>>),
    signer |-> "c"],
   [draft |-> Draft("c", "c", "unset", TRUE, <<Extra("policyMappings", TRUE, "c")>>),
    signer |-> "c"],
   [draft |-> Draft("a", "a", "ca", TRUE, <<Extra("subjectKeyIdentifier", FALSE, "c")>>),
    signer |-> "a"]}
-----------------------------------------------------------------------------

\* Walking a chain over the certificates of an accepted graph ends
\* (verify_chain).
ChainEnds == Certifying!ChainEnds

\* A bundle, read back from its encoding, has the chain it was encoded from
\* (CertificateBundle, create_common_extensions, validate_rfc5280_compliance).
BundleSurvives == Certifying!BundleSurvives
=============================================================================
