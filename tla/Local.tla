------------------------------- MODULE Local -------------------------------
(***************************************************************************)
(* The parts that work without the network, side by side: the Java host    *)
(* and its core module (JavaHost), blocks from builder to receiver         *)
(* (BlockSeal), the transaction builder (TxBuilder) and accounts           *)
(* (Accounts).  They share no state, so a behaviour is one of one part,    *)
(* which subject names, and the others stay as they began.  Certificates   *)
(* join them in MCLocal.                                                   *)
(***************************************************************************)
EXTENDS JavaHost, Integers, Sequences

CONSTANTS
  MaxSupply, MaxSigners, MaxDepth, MaxExternal,
  Starts, Signers, Catalogue, MaxSize, MaxFlags,
  Primary, Signer, Groups, Staged, MaxOps, MaxHandles, MaxBuilds, MaxHashes,
  Contents, Points

VARIABLES
  subject,
  draft, flags, slot, block, wire, received,
  builder, handles, build, heads, hashes, sealed, failedBuild,
  account, origin, signed, failed

Sealing == INSTANCE BlockSeal
Building == INSTANCE TxBuilder WITH lost <- failedBuild
Naming == INSTANCE Accounts

OperationKinds ==
  {"send", "receive", "setRep", "setInfo", "modifyPermissions", "createIdentifier",
   "tokenAdminSupply", "tokenAdminModifyBalance", "manageCertificate"}

\* Operations are records with the fields of their kind; the target of a grant
\* that may be staged is an account, or there is none.
ASSUME CatalogueAssumption ==
  \A op \in Catalogue :
    /\ op = [field \in DOMAIN op |-> op[field]] /\ "op" \in DOMAIN op
    /\ op.op \in OperationKinds
    /\ op.op = "modifyPermissions" =>
         /\ {"permissions", "target"} \subseteq DOMAIN op
         /\ op.target = Sealing!NoAccount \/ op.target.type # "none"
    /\ op.op = "setInfo" => "default" \in DOMAIN op
    /\ op.op = "manageCertificate" =>
         {"method", "byValue", "hash", "subject", "intermediates"} \subseteq DOMAIN op

\* Blocks are built for accounts, and so are signers: a single one, or a
\* multisig whose members are a sequence.
ASSUME SignersAssumption ==
  /\ MaxDepth \in Nat
  /\ \A start \in Starts : start[1] # Sealing!NoAccount
  /\ \A s \in Signers :
       /\ s # Sealing!NoSigner /\ (s.multi \/ s = Sealing!Single(s.account))
       /\ \A d \in 1..MaxDepth : \A n \in Sealing!Levels(s)[d] :
            n.members \in Seq(Sealing!ToSet(n.members))

\* Operations are staged with known accounts and in the forms of builder.rs; one
\* given as it is (with_operation) derives no identifier of its own.
ASSUME StagedAssumption ==
  \A op \in Staged :
    /\ "op" \in DOMAIN op
    /\ op.op \in {"send", "receive", "tokenAdminModifyBalance", "raw"} \cup DOMAIN Building!BucketOf
    /\ op.op = "send" => /\ {"to", "token", "amount"} \subseteq DOMAIN op /\ op.amount \in Int
                         /\ op.to.handle = 0 /\ op.token.handle = 0
    /\ op.op = "raw" => /\ op.of.op # "createIdentifier"
                        /\ op.of.op = "send" => op.of.amount \in Int

\* Accounts with keys of their own are told apart by their names.
ASSUME GroupsAssumption ==
  \A a, b \in Building!Ledger :
    ~Building!IsIdentifier(a) /\ ~Building!IsIdentifier(b) /\ a.of = b.of => a = b

ASSUME ContentsAssumption == Contents \in SUBSET Nat /\ Points \in SUBSET Nat

sealVars == <<draft, flags, slot, block, wire, received>>
buildVars == <<builder, handles, build, heads, hashes, sealed, failedBuild>>
nameVars == <<account, origin, signed, failed>>
localVars == <<subject, vars, sealVars, buildVars, nameVars>>

\* A part that is not the subject is in one of its initial states.
LocalInit ==
  /\ subject \in {"host", "block", "transaction", "certificate", "account"}
  /\ Init /\ Building!Init /\ Naming!Init
  /\ Sealing!Init /\ (subject # "block" => draft = Sealing!NewDraft(Primary, "known"))

HostSteps ==
  subject = "host" /\ Next /\ UNCHANGED <<subject, sealVars, buildVars, nameVars>>
SealSteps ==
  subject = "block" /\ Sealing!Next /\ UNCHANGED <<subject, vars, buildVars, nameVars>>
BuildSteps ==
  subject = "transaction" /\ Building!Next /\ UNCHANGED <<subject, vars, sealVars, nameVars>>
AccountSteps ==
  subject = "account" /\ Naming!Next /\ UNCHANGED <<subject, vars, sealVars, buildVars>>
LocalNext == HostSteps \/ SealSteps \/ BuildSteps \/ AccountSteps

LocalSpec == LocalInit /\ [][LocalNext]_localVars

-----------------------------------------------------------------------------
\* A sealed block is accepted in its own encoding and in no other (block.rs,
\* TryFrom<&[u8]>).
OneEncoding == Sealing!OneEncoding

\* Every key below the signer field signed a sealed block, and nobody else
\* (Signer::required_signers).
EverySignerSigned == Sealing!EverySignerSigned

\* Default permissions, and those of certificate holders, never confer a flag
\* that is not for everybody (is_valid_for_default).
DefaultsAreHarmless == Sealing!DefaultsAreHarmless

\* A scoped grant confers only what fits its target, and a delegated one no
\* power to delegate (check_account_matches_group, can_use_delegation).
ScopedGrants == Sealing!ScopedGrants

\* Asking for one more flag never confers less (the normalisation of
\* permissions.rs).
CollectingConfersMore == Sealing!CollectingConfersMore

\* An identifier that build derived passes the validation of its block, however
\* the operations were staged (push_create).
CreatesFit == Building!CreatesFit

\* Merging sends and splitting groups keeps what everybody is to receive of
\* every token (push_send).
SendsConserved == Building!SendsConserved

\* A handle that resolves names an identifier that some returned block creates,
\* as long as no call of build was lost (failed after it resolved, or dropped);
\* and no two handles of one call resolve to the same identifier
\* (PendingAccount).
HandlesAreCreated == Building!HandlesAreCreated

\* The blocks of one call of build for one account chain without gap or fork
\* (first_previous).
BlocksChain == Building!BlocksChain

\* No sequence of conversions changes who an account is (keetanetwork-account,
\* bindings).
IdentityKept == Naming!IdentityKept
=============================================================================
