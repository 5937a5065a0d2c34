---------------------------- MODULE Permissions ----------------------------
(***************************************************************************)
(* Account permissions (permissions.rs): the base flags, the group of      *)
(* accounts each of them is for, the normalisation every set passes        *)
(* through when it is built or decoded, and what a set grants.             *)
(*                                                                         *)
(* A bit field is the set of the flags whose bits are set; a permission    *)
(* set is a record of base flags and external offsets.                     *)
(***************************************************************************)
EXTENDS Naturals, Sequences

\* KeyPairType: the two families of accounts (the three curves behave alike).
IdentifierTypes == {"network", "token", "storage", "multisig"}

\* ALL_BASE_FLAGS, in offset order.
FlagOrder == << "Access", "Owner", "Admin", "UpdateInfo", "SendOnBehalf",
                "TokenAdminCreate", "TokenAdminSupply", "TokenAdminModifyBalance",
                "StorageCreate", "StorageCanHold", "StorageDeposit",
                "PermissionDelegateAdd", "PermissionDelegateRemove",
                "ManageCertificate", "MultisigSigner" >>
Flags == {FlagOrder[i] : i \in DOMAIN FlagOrder}

\* rule_for: whether a flag may be given by default, and the group of accounts
\* it may be given on, to and for.
Rule(default, entity, principal, target) ==
  [default |-> default, entity |-> entity, principal |-> principal, target |-> target]

RuleFor == [f \in Flags |->
  CASE f = "Access" -> Rule(TRUE, "Any", "Any", "Any")
    [] f \in {"Owner", "Admin", "UpdateInfo"} -> Rule(FALSE, "Any", "NonIdentifier", "Never")
    [] f = "SendOnBehalf" -> Rule(FALSE, "Any", "NonIdentifier", "Token")
    [] f \in {"StorageCreate", "TokenAdminCreate"} -> Rule(TRUE, "Network", "NonIdentifier", "Never")
    [] f = "StorageCanHold" -> Rule(TRUE, "Storage", "Token", "Never")
    [] f = "StorageDeposit" -> Rule(TRUE, "Storage", "Any", "Token")
    [] f = "TokenAdminSupply" -> Rule(FALSE, "Token", "NonIdentifier", "Never")
    [] f = "TokenAdminModifyBalance" -> Rule(FALSE, "Token", "NonIdentifier", "Any")
    [] f \in {"PermissionDelegateAdd", "PermissionDelegateRemove"} ->
         Rule(FALSE, "Any", "NonIdentifier", "Any")
    [] f = "ManageCertificate" -> Rule(TRUE, "Any", "Any", "Never")
    [] f = "MultisigSigner" -> Rule(FALSE, "Multisig", "NonIdentifierOrMultisig", "Never")]

\* account_matches_group
MatchesGroup(group, type) ==
  CASE group = "Any" -> TRUE
    [] group = "Never" -> FALSE
    [] group \in {"NonIdentifier", "NonIdentifierOrMultisig"} -> type \in {"keyed", "multisig"}
    [] group = "Network" -> type = "network"
    [] group = "Token" -> type = "token"
    [] group = "Storage" -> type = "storage"
    [] group = "Multisig" -> type = "multisig"

\* compute_flag_group: the flags are visited in offset order; the first group
\* that is not Any is kept, a Never ends the walk, a second group is an error.
FlagGroup(kind, flags) ==
  LET group(i) == RuleFor[FlagOrder[i]][kind]
      seen  == {i \in DOMAIN FlagOrder : FlagOrder[i] \in flags /\ group(i) # "Any"}
      kept  == CHOOSE i \in seen : \A j \in seen : i <= j
      stops == {i \in seen : group(i) = "Never" \/ group(i) # group(kept)}
      first == CHOOSE i \in stops : \A j \in stops : i <= j
  IN CASE seen = {} -> "Any"
       [] seen # {} /\ stops = {} -> group(kept)
       [] OTHER -> IF group(first) = "Never" THEN "Never" ELSE "mixed"

Mixed(flags) == \E kind \in {"entity", "principal", "target"} : FlagGroup(kind, flags) = "mixed"

\* The two overrides tested in the other order.
NormalizeAdminFirst(flags) ==
  LET admin == IF "Admin" \in flags THEN {"Admin"} ELSE flags
      owner == IF "Owner" \in admin THEN {"Owner"} ELSE admin
  IN IF owner = {} THEN {} ELSE owner \cup {"Access"}

\* TryFrom<BigInt> for BaseSet, after the check that the groups do not mix:
\* OWNER, then ADMIN, overrides the other flags; any flag implies ACCESS.
Normalize(flags) ==
  LET owner == IF "Owner" \in flags THEN {"Owner"} ELSE flags
      admin == IF "Admin" \in owner THEN {"Admin"} ELSE owner
  IN IF admin = {} THEN {} ELSE admin \cup {"Access"}

\* Permissions::from_flags and from_bigints: the raw flags are checked, the
\* normalised ones kept. External offsets are a set of numbers.
NoPermissions == [ok |-> FALSE, base |-> {}, external |-> {}]
FromFlags(flags, offsets) ==
  IF Mixed(flags) THEN NoPermissions
  ELSE [ok |-> TRUE, base |-> Normalize(flags), external |-> offsets]

\* Permissions::has
Has(p, flags, offsets) ==
  \/ flags = {} /\ offsets = {}
  \/ /\ "Access" \in p.base
     /\ \/ "Owner" \in p.base
        \/ "Owner" \notin flags /\ "Admin" \in p.base
        \/ flags \subseteq p.base /\ offsets \subseteq p.external

\* Looking for the flags themselves, not for what the set grants.
CanUseDelegationByFlag(p) ==
  p.base \cap {"Admin", "PermissionDelegateAdd", "PermissionDelegateRemove"} = {}

\* can_use_delegation
CanUseDelegation(p) ==
  ~ \E f \in {"Admin", "PermissionDelegateAdd", "PermissionDelegateRemove"} : Has(p, {f}, {})

\* BaseSet::is_valid_for_default, asking one flag instead of all of them.
ValidForDefaultAny(p) == p.base = {} \/ \E f \in p.base : RuleFor[f].default

ValidForDefault(p) == \A f \in p.base : RuleFor[f].default

\* check_account_matches_group, for an account of a type or for none.
CheckMatches(p, kind, type) ==
  LET group == FlagGroup(kind, p.base) IN
  /\ group # "mixed"
  /\ IF type = "none" THEN kind = "target" \/ group = "Never"
     ELSE MatchesGroup(group, type)

\* ExternalSet::size is the length of the binary numeral, one for zero.
ExternalSize(p) ==
  IF p.external = {} THEN 1
  ELSE 1 + CHOOSE o \in p.external : \A q \in p.external : q <= o
=============================================================================
