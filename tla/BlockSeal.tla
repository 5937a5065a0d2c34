----------------------------- MODULE BlockSeal -----------------------------
(***************************************************************************)
(* The life of one block: it is staged in a BlockBuilder (the host holds   *)
(* it through BuilderState of client-wasi/src/p2), built, signed and       *)
(* sealed, encoded, and decoded again by whoever receives it.              *)
(***************************************************************************)
EXTENDS BlockRules

CONSTANTS
  Starts,       \* the accounts and network classes a block may be built for
  Signers,      \* the signer fields that may be staged
  Catalogue,    \* the operations that may be staged
  MaxSize,      \* a bound: two per operation and other field, one per flag
  MaxFlags      \* a bound on the flags collected

VARIABLES
  draft,      \* the staged fields
  flags,      \* the base flags collected for the permissions it grants
  slot,       \* BuilderState: whether the builder is still "staged" or "taken"
  block,      \* the sealed block: its data and signatures, or NoBlock
  wire,       \* the bytes that were sent, or NoBlock
  received    \* what the receiver made of them: "none", "accepted", "refused"

vars == <<draft, flags, slot, block, wire, received>>

NoBlock == [ok |-> FALSE]

\* BlockBuilder::default with the account and the network.
NewDraft(a, n) ==
  [version |-> 2, purpose |-> "generic", network |-> n, subnet |-> "none",
   idempotent |-> "none", late |-> TRUE, account |-> a, signer |-> Single(a),
   previous |-> 0, ops |-> << >>]

Init ==
  /\ \E start \in Starts : draft = NewDraft(start[1], start[2])
  /\ flags = {} /\ slot = "staged"
  /\ block = NoBlock /\ wire = NoBlock /\ received = "none"

\* How far a draft is from the empty one; flags are collected for grants only.
Confers(op) ==
  \/ op.op = "modifyPermissions" /\ op.permissions.ok
  \/ op.op = "setInfo" /\ op.default.ok
Size(d, fs) ==
  2 * Len(d.ops) + Cardinality(fs)
    + 2 * Cardinality({f \in DOMAIN d \ {"ops"} : d[f] # NewDraft(d.account, d.network)[f]})
Sensible(d, fs) ==
  /\ Size(d, fs) <= MaxSize /\ Cardinality(fs) <= MaxFlags
  /\ fs # {} => \A i \in DOMAIN d.ops : Confers(d.ops[i])

\* BuilderState::stage around one of the setters.
Stage(change) ==
  /\ slot = "staged" /\ Sensible(change, flags)
  /\ draft' = change
  /\ UNCHANGED <<flags, slot, block, wire, received>>

WithVersion(v) == draft.version # v /\ Stage([draft EXCEPT !.version = v])
WithPurpose(p) == draft.purpose # p /\ Stage([draft EXCEPT !.purpose = p])
WithSubnet(n) == draft.subnet # n /\ Stage([draft EXCEPT !.subnet = n])
WithIdempotent(k) == draft.idempotent # k /\ Stage([draft EXCEPT !.idempotent = k])
WithPrevious(h) == draft.previous # h /\ Stage([draft EXCEPT !.previous = h])
WithDate(late) == draft.late # late /\ Stage([draft EXCEPT !.late = late])
WithSigner(s) == draft.signer # s /\ Stage([draft EXCEPT !.signer = s])
WithOperation(op) == Stage([draft EXCEPT !.ops = Append(@, op)])

\* The caller collects one more flag for the permissions it is about to grant.
Collect(f) ==
  /\ slot = "staged" /\ f \notin flags
  /\ Sensible(draft, flags \cup {f})
  /\ flags' = flags \cup {f}
  /\ UNCHANGED <<draft, slot, block, wire, received>>

\* The operations with the collected flags in place of those they grant.
Granting(op, p) ==
  CASE ~Confers(op) -> op
    [] Confers(op) /\ op.op = "setInfo" -> [op EXCEPT !.default = p]
    [] Confers(op) /\ op.op = "modifyPermissions" ->
         [op EXCEPT !.permissions = [p EXCEPT !.external = op.permissions.external]]
Data ==
  LET p == FromFlags(flags, {})
  IN [draft EXCEPT !.ops = [i \in DOMAIN draft.ops |-> Granting(draft.ops[i], p)]]
Constructible == Mixed(flags) => \A i \in DOMAIN draft.ops : ~Confers(draft.ops[i])

\* build_and_sign: the builder is taken out first, and a failure drops it. The
\* signatures are those of sign, or come from elsewhere in another order or
\* without the last one (seal).
Arrange(how, signatures) ==
  CASE how = "sign" -> signatures
    [] how = "reversed" -> Reverse(signatures)
    [] how = "short" -> SubSeq(signatures, 1, Len(signatures) - 1)
BuildAndSign(how) ==
  /\ slot = "staged" /\ slot' = "taken"
  /\ LET possible == Constructible /\ Encodable(Data) /\ Valid(Data)
         signatures == Arrange(how, SignaturesOf(Data))
     IN block' = IF possible /\ CanSign(Data) /\ Sealable(Data, signatures)
                 THEN [ok |-> TRUE, data |-> Data, signatures |-> signatures]
                 ELSE NoBlock
  /\ UNCHANGED <<draft, flags, wire, received>>

\* The bytes leave as encoded here, or as another encoder writes the same
\* block: with the signer spelled out, with the permission bits as collected,
\* or with a removed certificate by value.
Rewritten(how, w) ==
  CASE how = "encoded" -> w
    [] how = "signer" -> [w EXCEPT !.signer = IF @ = NoSigner THEN Single(w.account) ELSE @]
    [] how = "bits" ->
         [w EXCEPT !.ops = [i \in DOMAIN w.ops |->
            Granting(w.ops[i], [ok |-> TRUE, base |-> flags, external |-> {}])]]
    [] how = "certificate" ->
         [w EXCEPT !.ops = [i \in DOMAIN w.ops |->
            IF w.ops[i].op = "manageCertificate" THEN draft.ops[i] ELSE w.ops[i]]]
Send(how) ==
  /\ block.ok /\ ~wire.ok
  /\ wire' = [ok |-> TRUE, bytes |-> Rewritten(how, Encode(block.data)),
              signatures |-> block.signatures]
  /\ UNCHANGED <<draft, flags, slot, block, received>>

\* The receiver without the comparison of the bytes it encodes.
AcceptsAnyBytes(w) ==
  /\ Decodable(w.bytes)
  /\ Sealable(Decode(w.bytes), w.signatures)

\* TryFrom<&[u8]> for Block
Accepts(w) ==
  /\ Decodable(w.bytes)
  /\ Sealable(Decode(w.bytes), w.signatures)
  /\ Encode(Decode(w.bytes)) = w.bytes

Receive ==
  /\ wire.ok /\ received = "none"
  /\ received' = IF Accepts(wire) THEN "accepted" ELSE "refused"
  /\ UNCHANGED <<draft, flags, slot, block, wire>>

Next ==
  \/ \E v \in {1, 2} : WithVersion(v)
  \/ \E p \in {"generic", "fee"} : WithPurpose(p)
  \/ \E n \in {"some", "negative"} : WithSubnet(n)
  \/ \E k \in {"some", "long"} : WithIdempotent(k)
  \/ \E h \in {0, 1} : WithPrevious(h)
  \/ \E late \in BOOLEAN : WithDate(late)
  \/ \E s \in Signers : WithSigner(s)
  \/ \E op \in Catalogue : WithOperation(op)
  \/ \E f \in Flags : Collect(f)
  \/ \E how \in {"sign", "reversed", "short"} : BuildAndSign(how)
  \/ \E how \in {"encoded", "signer", "bits", "certificate"} : Send(how)
  \/ Receive

Spec == Init /\ [][Next]_vars

-----------------------------------------------------------------------------
(* What the rules are for.                                                 *)

\* A block has one encoding: whatever was sealed is accepted when it arrives
\* as it was encoded, and refused when another encoder wrote it differently,
\* even where the difference is lost on decoding (block.rs: byte equality).
OneEncoding ==
  received # "none" =>
    (received = "accepted" <=> wire.bytes = Encode(block.data))

\* Every key below the signer field signed what was sealed, and nobody else.
EverySignerSigned ==
  block.ok =>
    LET levels == Levels(block.data.signer)
        nodes == (UNION {levels[d] : d \in 1..MaxDepth}) \cup {block.data.signer}
        keys == {s.account : s \in {n \in nodes : ~n.multi} \cup
                   UNION {{m \in ToSet(n.members) : ~m.multi} : n \in nodes}}
    IN /\ {block.signatures[i].by : i \in DOMAIN block.signatures} = keys
       /\ Len(block.signatures) = Cardinality(keys)

Grants(c) == {c.ops[i] : i \in {j \in DOMAIN c.ops :
                c.ops[j].op = "modifyPermissions" /\ Confers(c.ops[j])}}
Defaults(c) == {c.ops[i].default : i \in {j \in DOMAIN c.ops :
                  c.ops[j].op = "setInfo" /\ Confers(c.ops[j])}}
Conferred(p) == {f \in Flags : Has(p, {f}, {})}

\* What everybody gets by default, or whoever holds a certificate, never
\* confers a flag that is not for everybody, not even through the flags that
\* OWNER and ADMIN imply (permissions.rs: can_be_default).
DefaultsAreHarmless ==
  block.ok =>
    \A p \in Defaults(block.data) \cup
             {g.permissions : g \in {h \in Grants(block.data) : h.principal.certificate # "none"}} :
      \A f \in Conferred(p) : RuleFor[f].default

\* A grant scoped to a target confers only flags that make sense for that
\* target, implied flags included, and a grant that is added or taken away by
\* delegation confers no power to delegate.
ScopedGrants ==
  block.ok =>
    \A g \in Grants(block.data) :
      /\ g.target # NoAccount =>
           \A f \in Conferred(g.permissions) : MatchesGroup(RuleFor[f].target, g.target.type)
      /\ g.method # "set" =>
           Conferred(g.permissions) \cap
             {"Owner", "Admin", "PermissionDelegateAdd", "PermissionDelegateRemove"} = {}

\* Asking for one more flag never confers less: normalisation drops flags, but
\* only in favour of one that implies them.
CollectingConfersMore ==
  [][ (flags # flags' /\ ~Mixed(flags')) =>
        Conferred(FromFlags(flags, {})) \subseteq Conferred(FromFlags(flags', {})) ]_vars
=============================================================================
