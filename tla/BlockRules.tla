---------------------------- MODULE BlockRules -----------------------------
(***************************************************************************)
(* What makes a block valid, how it is signed, and its wire form: block.rs,*)
(* signer.rs, the nine operations, validation.rs and transport.rs of       *)
(* keetanetwork-block. Operators only; BlockSeal and TxBuilder use them.   *)
(*                                                                         *)
(* An account is a record: a keyed account or a network has a name, an     *)
(* identifier is derived from the account it is of, a block hash and an    *)
(* index. A block hash is a number, 0 the opening hash of the account at   *)
(* hand. Texts, networks, subnets and dates are the classes the rules tell *)
(* apart.                                                                  *)
(***************************************************************************)
EXTENDS Permissions, Integers, FiniteSets, SequencesExt

CONSTANTS
  MaxSupply,          \* ValidationConfig::max_supply
  MaxSigners,         \* max_signer_count
  MaxDepth,           \* max_signer_depth
  MaxExternal         \* max_external_offset

Keyed(n) == [type |-> "keyed", of |-> n, at |-> 0, index |-> 0]
NetworkOf(n) == [type |-> "network", of |-> n, at |-> 0, index |-> 0]
NoAccount == [type |-> "none", of |-> "none", at |-> 0, index |-> 0]

IsIdentifier(a) == a.type \in IdentifierTypes

\* GenericAccount::generate_identifier; opening stands for a block hash of None.
MayDerive(a, type, opening, index) ==
  /\ type \in IdentifierTypes
  /\ IsIdentifier(a) => a.type = "network" /\ type = "token" /\ index = 0 /\ opening

Derive(a, type, previous, index) ==
  IF MayDerive(a, type, previous = 0, index)
  THEN [type |-> type, of |-> a.of, at |-> previous, index |-> index]
  ELSE NoAccount

-----------------------------------------------------------------------------
(* The operations. c is the block they stand in (OperationContext).        *)

OfKind(c, kind) == {i \in DOMAIN c.ops : c.ops[i].op = kind}

Known(c) == c.network = "known"                 \* OperationContext::config

NumericOk(c, amount) == amount >= 0 \/ (Known(c) /\ ~c.late)

TokenAmountOk(c, op) == op.token.type = "token" /\ NumericOk(c, op.amount)

SendOk(c, op) ==
  /\ TokenAmountOk(c, op)
  /\ c.account.type = "token" => op.token = c.account
  /\ op.to.type = "token" => op.to = op.token
  /\ Known(c) /\ op.external \in {"none", "empty", "text"}

ReceiveOk(c, op) ==
  /\ TokenAmountOk(c, op)
  /\ c.account.type # "token"
  /\ op.forward # NoAccount =>
       /\ op.forward # c.account
       /\ op.exact
       /\ op.forward.type = "token" => op.forward = op.token

SetRepOk(c, op) ==
  /\ c.account.type \in {"keyed", "storage"}    \* can_delegate
  /\ ~IsIdentifier(op.to)
  /\ Cardinality(OfKind(c, "setRep")) <= 1

SetInfoOk(c, op) ==
  /\ Known(c)
  /\ op.text \in {"empty", "text"}
  /\ IF IsIdentifier(c.account)
     THEN /\ op.default.ok
          /\ op.default.external = {}
          /\ ValidForDefault(op.default)
          /\ CheckMatches(op.default, "entity", c.account.type)
     ELSE ~op.default.ok

\* ModifyPermissions::validate_payload
PayloadOk(c, op) ==
  LET p == op.permissions IN
  /\ Known(c) /\ ExternalSize(p) < MaxExternal
  /\ ~(~IsIdentifier(c.account) /\ Has(p, {"Owner"}, {}))
  /\ IF op.principal.certificate = "none"
     THEN CheckMatches(p, "principal", op.principal.account.type)
     ELSE ValidForDefault(p)
  /\ op.target # NoAccount => CheckMatches(p, "target", op.target.type)
  /\ CheckMatches(p, "entity", c.account.type)
  /\ ~(op.target # NoAccount /\ Has(p, {"Admin"}, {}))
  /\ op.method = "set" \/ CanUseDelegation(p)

\* reject_duplicate_set: no SET after another change for the same pair.
NoDuplicateSet(c) ==
  LET target(i) == IF c.ops[i].target = NoAccount THEN c.account ELSE c.ops[i].target
  IN \A i, j \in OfKind(c, "modifyPermissions") :
       i < j /\ c.ops[i].principal = c.ops[j].principal /\ target(i) = target(j)
         => c.ops[j].method # "set"

ModifyPermissionsOk(c, op) ==
  /\ IF op.permissions.ok THEN PayloadOk(c, op) ELSE op.method = "set"
  /\ NoDuplicateSet(c)

\* validate_multisig_arguments
MultisigArgumentsOk(c, op) ==
  LET n == Len(op.signers) IN
  /\ Known(c) /\ n \in 1..MaxSigners
  /\ \A i \in 1..n : op.signers[i].type \in {"keyed", "multisig"}
  /\ Cardinality(ToSet(op.signers)) = n
  /\ op.quorum \in 1..n

CreateIdentifierOk(c, op, i) ==
  /\ ~IsIdentifier(c.account)
  /\ IsIdentifier(op.identifier)
  /\ op.identifier = Derive(c.account, op.identifier.type, c.previous, i)
  /\ op.arguments <=> op.identifier.type = "multisig"
  /\ op.arguments => MultisigArgumentsOk(c, op)

TokenAdminSupplyOk(c, op) ==
  /\ op.method # "set"
  /\ NumericOk(c, op.amount)
  /\ c.account.type = "token"
  /\ Known(c) /\ op.amount <= MaxSupply

TokenAdminModifyBalanceOk(c, op) == TokenAmountOk(c, op) /\ c.account.type # "token"

\* A certificate reference: by value, with the account its subject key is of
\* and whether the intermediates given with it can form a graph, or by hash.
ManageCertificateOk(c, op) ==
  /\ op.method # "set"
  /\ op.intermediates # "absent" <=> op.method = "add"
  /\ op.method = "add" =>
       /\ op.byValue
       /\ op.subject = c.account
       /\ op.intermediates # "broken"
  /\ \A i, j \in OfKind(c, "manageCertificate") : i # j => c.ops[i].hash # c.ops[j].hash

OperationOk(c, i) ==
  LET op == c.ops[i] IN
  CASE op.op = "send" -> SendOk(c, op)
    [] op.op = "receive" -> ReceiveOk(c, op)
    [] op.op = "setRep" -> SetRepOk(c, op)
    [] op.op = "setInfo" -> SetInfoOk(c, op)
    [] op.op = "modifyPermissions" -> ModifyPermissionsOk(c, op)
    [] op.op = "createIdentifier" -> CreateIdentifierOk(c, op, i - 1)
    [] op.op = "tokenAdminSupply" -> TokenAdminSupplyOk(c, op)
    [] op.op = "tokenAdminModifyBalance" -> TokenAdminModifyBalanceOk(c, op)
    [] op.op = "manageCertificate" -> ManageCertificateOk(c, op)

-----------------------------------------------------------------------------
(* The signer field: a single account, or a multisig address with members. *)

Single(a) == [account |-> a, multi |-> FALSE, members |-> << >>]
Multisig(a, members) == [account |-> a, multi |-> TRUE, members |-> members]

\* The multisig nodes of each level of the tree, the root's being level 1.
Levels(s) ==
  LET level[d \in 1..(MaxDepth + 1)] ==
        IF d = 1 THEN IF s.multi THEN {s} ELSE {}
        ELSE UNION {{m \in ToSet(n.members) : m.multi} : n \in level[d - 1]}
  IN level

\* validate_signer_field walks the levels in this order and stops with an
\* error below MaxDepth.
SignerOk(b) ==
  LET levels == Levels(b.signer)
      nodes == UNION {levels[d] : d \in 1..MaxDepth}
  IN b.signer.multi =>
       /\ Known(b)
       /\ levels[MaxDepth + 1] = {}
       /\ \A n \in nodes :
            /\ n.account.type = "multisig"
            /\ Len(n.members) \in 1..MaxSigners
            /\ Cardinality({m.account : m \in ToSet(n.members)}) = Len(n.members)

\* The accounts at the leaves of the tree, depth first: it is unfolded one
\* level at a time, and a valid one has no level below MaxDepth.
Leaves(s) ==
  LET unfold[d \in 0..MaxDepth] ==
        IF d = 0 THEN <<s>>
        ELSE FlattenSeq([i \in DOMAIN unfold[d - 1] |->
               LET n == unfold[d - 1][i] IN IF n.multi THEN n.members ELSE <<n>>])
  IN [i \in DOMAIN unfold[MaxDepth] |-> unfold[MaxDepth][i].account]

\* Repetitions and all.
RequiredSignersRepeated(s) == Leaves(s)

\* required_signers: each of them once, where it comes first.
RequiredSigners(s) ==
  FoldLeft(LAMBDA out, a : IF a \in ToSet(out) THEN out ELSE Append(out, a),
           << >>, Leaves(s))

\* BlockData::validate. That a block is not its own previous is left out.
Valid(b) ==
  /\ b.network # "negative" /\ b.subnet # "negative"
  /\ b.account.type # "multisig"
  /\ b.version = 1 => b.purpose = "generic" /\ ~b.signer.multi
  /\ SignerOk(b)
  /\ \A i \in DOMAIN b.ops :
       /\ b.purpose = "fee" => b.ops[i].op = "send"
       /\ OperationOk(b, i)
  /\ b.idempotent # "none" => Known(b) /\ b.idempotent # "long"

-----------------------------------------------------------------------------
(* The wire form. It stands for the bytes, and so for the hash, of a block.*)

\* operation_to_transport: a removal names a certificate by its hash.
WireOp(op) ==
  IF op.op = "manageCertificate" /\ op.method = "subtract"
  THEN [op EXCEPT !.byValue = FALSE]
  ELSE op

NoSigner == Single(NoAccount)

\* build_block_v1 and build_block_v2: the signer is left out when it is the
\* account itself (V1 leaves out the account, which comes to the same).
WireSigner(b) == IF b.signer = Single(b.account) THEN NoSigner ELSE b.signer

\* encode_block: V1 has one signer and no purpose.
Encodable(b) == b.version = 1 => ~b.signer.multi

Encode(b) ==
  [version |-> b.version, purpose |-> IF b.version = 1 THEN "generic" ELSE b.purpose,
   network |-> b.network, subnet |-> b.subnet, idempotent |-> b.idempotent,
   late |-> b.late, account |-> b.account, signer |-> WireSigner(b),
   previous |-> b.previous, ops |-> [i \in DOMAIN b.ops |-> WireOp(b.ops[i])]]

\* operation_from_transport: permissions pass through their normalisation.
ReadPermissions(p) == IF p.ok THEN FromFlags(p.base, p.external) ELSE p
ReadOp(op) ==
  CASE op.op = "modifyPermissions" -> [op EXCEPT !.permissions = ReadPermissions(@)]
    [] op.op = "setInfo" -> [op EXCEPT !.default = ReadPermissions(@)]
    [] OTHER -> op
ReadableOp(op) ==
  CASE op.op = "modifyPermissions" -> ReadPermissions(op.permissions).ok = op.permissions.ok
    [] op.op = "setInfo" -> ReadPermissions(op.default).ok = op.default.ok
    [] OTHER -> TRUE

\* parse_multisig and parse_signer
ReadableSigner(w) ==
  LET levels == Levels(w.signer) IN
  /\ w.signer # Single(w.account)               \* RedundantAccountField
  /\ w.signer.multi =>
       /\ levels[MaxDepth + 1] = {}
       /\ \A n \in UNION {levels[d] : d \in 1..MaxDepth} :
            /\ n.account.type = "multisig"
            /\ \A m \in ToSet(n.members) : m.multi \/ ~IsIdentifier(m.account)

Decodable(w) == ReadableSigner(w) /\ \A i \in DOMAIN w.ops : ReadableOp(w.ops[i])

Decode(w) ==
  [w EXCEPT !.signer = IF @ = NoSigner THEN Single(w.account) ELSE @,
            !.ops = [i \in DOMAIN w.ops |-> ReadOp(w.ops[i])]]

-----------------------------------------------------------------------------
(* Signing. A signature is by an account, over the bytes of a block.       *)

Signature(a, b) == [by |-> a, over |-> Encode(b)]

\* UnsignedBlock::sign: only a keyed account can produce a signature.
CanSign(b) == \A a \in ToSet(RequiredSigners(b.signer)) : ~IsIdentifier(a)
SignaturesOf(b) ==
  LET signers == RequiredSigners(b.signer)
  IN [i \in DOMAIN signers |-> Signature(signers[i], b)]

\* TryFrom<BlockParts> for Block: the only way to a sealed block.
Sealable(b, signatures) ==
  LET signers == RequiredSigners(b.signer) IN
  /\ Encodable(b) /\ Valid(b)
  /\ signatures # << >>
  /\ b.version = 1 => Len(signatures) = 1
  /\ Len(signatures) = Len(signers)
  /\ \A i \in DOMAIN signers :
       ~IsIdentifier(signers[i]) /\ signatures[i] = Signature(signers[i], b)
=============================================================================
