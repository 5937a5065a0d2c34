---------------------------- MODULE Certificates ----------------------------
(***************************************************************************)
(* keetanetwork-x509: certificates are issued with CertificateBuilder, and *)
(* a holder judges the graph of a subject and its intermediates            *)
(* (assert_can_construct_valid_graph, which validates ManageCertificate),  *)
(* walks the chain of a certificate (verify_chain) and sends bundles of    *)
(* them as concatenated DER.                                               *)
(*                                                                         *)
(* A signature is the key that made it. The order of a BTreeSet, by DER    *)
(* encoding in the code, is the order of the serial numbers, which are     *)
(* given out in every order. Left out: the validity window, the curve and  *)
(* hash of a signature and the encoding of the fields.                     *)
(***************************************************************************)
EXTENDS Integers, FiniteSets, SequencesExt

CONSTANTS
  Requests,     \* what builders are set up with: [draft, signer]
  MaxCerts,     \* bound on the certificates issued
  MaxGraph      \* MAX_GRAPH_CERTIFICATES

VARIABLES
  certs,    \* the certificates built, in the order of their encodings
  judged,   \* the last graph asserted: its subject, intermediates and verdict
  packed    \* the last bundle, and the one read back from its encoding, if any

vars == <<certs, judged, packed>>

-----------------------------------------------------------------------------
(* CertificateBuilder.                                                     *)

\* An extension, with the name of the key or the flag that is its value.
Ext(oid, critical, value) == [oid |-> oid, critical |-> critical, value |-> value]

\* create_common_extensions without the last step: what the caller supplied
\* is added again.
CommonExtensionsRepeated(d) ==
  (IF d.isCa # "unset"
   THEN <<Ext("basicConstraints", TRUE, d.isCa), Ext("keyUsage", TRUE, d.isCa)>> ELSE << >>)
  \o <<Ext("subjectKeyIdentifier", FALSE, d.key)>>
  \o (IF d.issuer = d.subject THEN <<Ext("authorityKeyIdentifier", FALSE, d.key)>> ELSE << >>)

\* create_common_extensions: those the caller did not supply.
CommonExtensions(d) ==
  SelectSeq((IF d.isCa # "unset"
             THEN <<Ext("basicConstraints", TRUE, d.isCa), Ext("keyUsage", TRUE, d.isCa)>>
             ELSE << >>)
            \o <<Ext("subjectKeyIdentifier", FALSE, d.key)>>
            \o (IF d.issuer = d.subject THEN <<Ext("authorityKeyIdentifier", FALSE, d.key)>>
                ELSE << >>),
            LAMBDA e : \A i \in DOMAIN d.exts : d.exts[i].oid # e.oid)

\* build_tbs and build, with the signer's key.
Built(d, signer, serial) ==
  [serial |-> serial, subject |-> d.subject, issuer |-> d.issuer, key |-> d.key,
   signer |-> signer,
   exts |-> d.exts \o (IF d.common THEN CommonExtensions(d) ELSE << >>)]

-----------------------------------------------------------------------------
(* Certificate.                                                            *)

IsSelfSigned(c) == c.issuer = c.subject

\* extension: the first with the identifier.
Having(c, oid) == {i \in DOMAIN c.exts : c.exts[i].oid = oid}
Extension(c, oid) == c.exts[CHOOSE i \in Having(c, oid) : \A j \in Having(c, oid) : i <= j]

KnownCritical == {"basicConstraints", "keyUsage", "certificatePolicies", "subjectAltName",
                  "nameConstraints"}

\* validate_rfc5280_compliance
Compliant(c) ==
  /\ \A i \in DOMAIN c.exts : c.exts[i].critical => c.exts[i].oid \in KnownCritical
  /\ \A i, j \in DOMAIN c.exts : c.exts[i].oid = c.exts[j].oid => i = j
  /\ Having(c, "basicConstraints") # {} =>
       LET constraints == Extension(c, "basicConstraints")
       IN constraints.value = "ca" => constraints.critical
  /\ c.subject = "empty" => /\ Having(c, "subjectAltName") # {}
                            /\ Extension(c, "subjectAltName").critical
  /\ c.issuer # "empty"

\* has_valid_authority_key_identifier
AuthorityKeyFits(c, issuer) ==
  Having(c, "authorityKeyIdentifier") # {} =>
    /\ Having(issuer, "subjectKeyIdentifier") # {}
    /\ Extension(c, "authorityKeyIdentifier").value = Extension(issuer, "subjectKeyIdentifier").value

IsIssuedBy(c, issuer) ==
  /\ c.issuer = issuer.subject
  /\ AuthorityKeyFits(c, issuer)
  /\ c.signer = issuer.key

\* verify_chain, with as many rounds of its loop as there are certificates and
\* one more: `done' is FALSE for a loop that is still running then.
VerifyChain(c, list) ==
  LET issuers(x) == SelectSeq(list, LAMBDA i : i # c /\ IsIssuedBy(x, i))
      round(w) ==
        IF w.done \/ IsSelfSigned(w.current) \/ issuers(w.current) = << >>
        THEN [w EXCEPT !.done = TRUE]
        ELSE LET issuer == Head(issuers(w.current))
             IN [w EXCEPT !.current = issuer,
                          !.chain = IF issuer \in ToSet(@) THEN @ ELSE Append(@, issuer)]
  IN FoldLeft(LAMBDA w, n : round(w), [current |-> c, chain |-> <<c>>, done |-> FALSE],
              [n \in 1..(Len(list) + 2) |-> n])

-----------------------------------------------------------------------------
(* assert_can_construct_valid_graph.                                       *)

Ordered(set) == SetToSortSeq(set, LAMBDA c, d : c.serial < d.serial)

\* find_connected_certificates looking only for issuers.
RECURSIVE FindIssuers(_, _, _, _)
FindIssuers(graph, toVisit, visited, connected) ==
  IF toVisit = << >> THEN connected
  ELSE LET c == Last(toVisit)
           near == {d \in graph : c.issuer = d.subject}
       IN IF c \in visited THEN FindIssuers(graph, Front(toVisit), visited, connected)
          ELSE FindIssuers(graph, Front(toVisit) \o Ordered(near \ (visited \cup {c})),
                           visited \cup {c}, connected \cup near)

\* The work list of find_connected_certificates.
RECURSIVE FindAround(_, _, _, _)
FindAround(graph, toVisit, visited, connected) ==
  IF toVisit = << >> THEN connected
  ELSE LET c == Last(toVisit)
           near == {d \in graph : c.issuer = d.subject \/ d.issuer = c.subject}
       IN IF c \in visited THEN FindAround(graph, Front(toVisit), visited, connected)
          ELSE FindAround(graph, Front(toVisit) \o Ordered(near \ (visited \cup {c})),
                          visited \cup {c}, connected \cup near)

FindConnected(c, graph) == FindAround(graph, <<c>>, {}, {})

\* dfs_cycle_detection, from a certificate to those it issues by name.
RECURSIVE Dfs(_, _, _)
Dfs(c, graph, state) ==
  LET step(s, d) ==
        CASE s.cycle \/ d.issuer # c.subject \/ IsSelfSigned(d) -> s
          [] OTHER -> IF d \in s.stack THEN [s EXCEPT !.cycle = TRUE]
                      ELSE IF d \in s.visited THEN s ELSE Dfs(d, graph, s)
      entered == [state EXCEPT !.visited = @ \cup {c}, !.stack = @ \cup {c}]
      left == FoldLeft(step, entered, Ordered(graph))
  IN IF left.cycle THEN left ELSE [left EXCEPT !.stack = @ \ {c}]

Unvisited == [visited |-> {}, stack |-> {}, cycle |-> FALSE]

\* Only what the subject issues is searched.
DetectCyclesBelow(c, graph) == Dfs(c, graph, Unvisited).cycle

\* detect_cycles: from the subject, then from whatever is not visited yet.
DetectCycles(c, graph) ==
  FoldLeft(LAMBDA s, d : IF s.cycle \/ d \in s.visited THEN s ELSE Dfs(d, graph, s),
           Dfs(c, graph, Unvisited), Ordered(graph)).cycle

CanConstructValidGraph(c, graph) ==
  /\ Cardinality(graph) <= MaxGraph
  /\ \A d \in graph : d \in FindConnected(c, graph) \/ d = c
  /\ ~DetectCycles(c, graph)

-----------------------------------------------------------------------------
(* CertificateBundle.                                                      *)

Bundle(c, roots, intermediates) ==
  [certificate |-> c, root |-> roots, intermediate |-> intermediates]

\* Vec<Certificate> of a bundle: what its chain is looked up in.
AllOf(b) == <<b.certificate>> \o Ordered(b.root) \o Ordered(b.intermediate)

\* to_der: the certificate and the rest of its chain.
Encoded(b) == VerifyChain(b.certificate, AllOf(b)).chain

\* TryFrom<&[u8]>: certificates are read up to the first that is refused.
Parsed(list) ==
  LET refused == {i \in DOMAIN list : ~Compliant(list[i])}
  IN IF refused = {} THEN list ELSE SubSeq(list, 1, Min(refused) - 1)

\* TryFrom<Vec<Certificate>>: self-signed certificates are roots; there is no
\* bundle of no certificates.
Decoded(list) ==
  LET others == ToSet(Tail(list))
  IN IF list = << >> THEN << >>
     ELSE <<Bundle(Head(list), {c \in others : IsSelfSigned(c)}, {c \in others : ~IsSelfSigned(c)})>>

-----------------------------------------------------------------------------
Nothing == << >>

Init == certs = << >> /\ judged = Nothing /\ packed = Nothing

\* A builder is set up as requested and builds.
Issue(request) ==
  /\ Len(certs) < MaxCerts /\ judged = Nothing /\ packed = Nothing
  /\ certs' = Append(certs, Built(request.draft, request.signer, Len(certs) + 1))
  /\ UNCHANGED <<judged, packed>>

\* The validation of ManageCertificate, or any other caller, asserts a graph.
Judge(c, graph) ==
  /\ judged = Nothing /\ packed = Nothing
  /\ judged' = <<[subject |-> c, graph |-> graph, ok |-> CanConstructValidGraph(c, graph)]>>
  /\ UNCHANGED <<certs, packed>>

\* A holder puts a bundle together (add_root, add_intermediate), sends it and
\* the receiver reads it.
Pack(c, roots) ==
  /\ judged = Nothing /\ packed = Nothing
  /\ LET b == Bundle(c, roots, (ToSet(certs) \ roots) \ {c})
     IN /\ VerifyChain(c, AllOf(b)).done
        /\ packed' = <<[sent |-> b, received |-> Decoded(Parsed(Encoded(b)))]>>
  /\ UNCHANGED <<certs, judged>>

SelfSigned == {c \in ToSet(certs) : IsSelfSigned(c)}

Next ==
  \/ \E r \in Requests : Issue(r)
  \/ \E c \in ToSet(certs) : Judge(c, ToSet(certs)) \/ Judge(c, ToSet(certs) \ {c})
  \/ \E c \in ToSet(certs) : \E roots \in {{}, SelfSigned, ToSet(certs)} : Pack(c, roots \ {c})

Spec == Init /\ [][Next]_vars

-----------------------------------------------------------------------------
Tied(c, d) == c.issuer = d.subject \/ d.issuer = c.subject

\* Some of the certificates, none of them self-signed, issue each other in a
\* circle, by name.
Circular(set) ==
  \E S \in (SUBSET {c \in set : ~IsSelfSigned(c)}) \ {{}} :
    \A c \in S : \E d \in S : c.issuer = d.subject


\* Walking the chain of the subject of an accepted graph, or of any of its
\* intermediates, over the certificates of the graph ends: verify_chain has no
\* bound of its own, and certificates that issue each other would keep it
\* running.  The certificates walked over are those of the set: where the
\* subject is among them without having been in the set that was judged, it may
\* be part of a circle, and the walk need not end.
ChainEnds ==
  (judged # Nothing /\ judged[1].ok) =>
    \A c \in judged[1].graph \cup {judged[1].subject} : VerifyChain(c, Ordered(judged[1].graph)).done

\* The extensions that the caller of the builder supplied pass
\* validate_rfc5280_compliance by themselves.
WellRequested(c) ==
  \E r \in Requests : /\ c = Built(r.draft, r.signer, c.serial)
                       /\ Compliant([c EXCEPT !.exts = r.draft.exts])

\* A bundle can be passed on as DER: it is read back with the same chain,
\* although only the chain travels, the receiver sorts roots from intermediates
\* on its own and stops at the first certificate it refuses, without an error.
\* This needs a chain of certificates whose builders were given no extension
\* that is refused as it stands, since what the builder adds never repeats one of
\* them, and roots that are the self-signed certificates, as those of a bundle
\* made from a list or read from an encoding are.  (Where a self-signed
\* certificate was added as an intermediate, or another as a root, the receiver
\* may look issuers up in another order and find another chain.)
BundleSurvives ==
  packed # Nothing =>
    LET sent == packed[1].sent
        received == packed[1].received
    IN (/\ \A c \in ToSet(Encoded(sent)) : WellRequested(c)
        /\ \A c \in sent.root \cup sent.intermediate : c \in sent.root <=> IsSelfSigned(c))
       => /\ received # Nothing
          /\ VerifyChain(received[1].certificate, AllOf(received[1]))
               = VerifyChain(sent.certificate, AllOf(sent))
=============================================================================
