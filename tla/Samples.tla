------------------------------ MODULE Samples ------------------------------
(***************************************************************************)
(* Accounts, signer fields and operations for the instances of BlockSeal   *)
(* and TxBuilder: for every kind of operation some that are accepted and   *)
(* some that are not.                                                      *)
(***************************************************************************)
EXTENDS BlockRules

Alice == Keyed("alice")
Bob == Keyed("bob")
Carol == Keyed("carol")
Net == NetworkOf("net")
Token == Derive(Net, "token", 0, 0)
Other == Derive(Alice, "token", 0, 1)
Vault == Derive(Alice, "storage", 0, 0)
Board == Derive(Alice, "multisig", 0, 2)
Panel == Derive(Bob, "multisig", 0, 0)

SomeStarts == {<<a, "known">> : a \in {Alice, Net, Token, Vault, Board}} \cup {<<Alice, "unknown">>}

Nested == Multisig(Panel, <<Single(Carol), Single(Bob)>>)
SomeSigners ==
  {Single(Bob), Single(Vault), Multisig(Board, <<Single(Bob), Nested>>),
   Multisig(Board, <<Single(Bob), Single(Bob)>>), Multisig(Board, <<Multisig(Panel, <<Nested>>)>>)}

Grant(who, certificate, method, target) ==
  [op |-> "modifyPermissions", principal |-> [certificate |-> certificate, account |-> who],
   method |-> method, permissions |-> [ok |-> TRUE, base |-> {}, external |-> {}],
   target |-> target]
Grantings ==
  {Grant(Bob, "none", m, t) : m \in {"add", "set"}, t \in {NoAccount, Token, Vault}}
    \cup {Grant(Token, "none", "set", NoAccount), Grant(Bob, "c1", "set", NoAccount)}
    \cup {[Grant(Bob, "none", "set", NoAccount) EXCEPT !.permissions = NoPermissions],
          [Grant(Bob, "none", "add", NoAccount) EXCEPT !.permissions.external = {4}]}
Infos == {[op |-> "setInfo", text |-> "text", default |-> NoPermissions],
          [op |-> "setInfo", text |-> "empty", default |-> [ok |-> TRUE, base |-> {}, external |-> {}]],
          [op |-> "setInfo", text |-> "bad", default |-> NoPermissions]}
Transfers ==
  {[op |-> "send", to |-> Bob, token |-> Token, amount |-> -1, external |-> "none"],
   [op |-> "send", to |-> Other, token |-> Token, amount |-> 1, external |-> "text"],
   [op |-> "send", to |-> Bob, token |-> Token, amount |-> 1, external |-> "bad"],
   [op |-> "receive", from |-> Bob, token |-> Token, amount |-> 1, exact |-> TRUE, forward |-> Vault],
   [op |-> "setRep", to |-> Bob],
   [op |-> "tokenAdminSupply", amount |-> 3, method |-> "subtract"],
   [op |-> "tokenAdminModifyBalance", token |-> Token, amount |-> 1, method |-> "set"]}
Create(id, args, signers, quorum) ==
  [op |-> "createIdentifier", identifier |-> id, arguments |-> args,
   signers |-> signers, quorum |-> quorum]
Creations ==
  {Create(Vault, FALSE, << >>, 0), Create(Derive(Alice, "token", 0, 1), FALSE, << >>, 0),
   Create(Derive(Alice, "multisig", 1, 0), TRUE, <<Bob, Carol>>, 2),
   Create(Derive(Alice, "multisig", 0, 0), TRUE, <<Bob>>, 2)}
Certificate(method, byValue, subject, intermediates) ==
  [op |-> "manageCertificate", method |-> method, byValue |-> byValue, hash |-> "c1",
   subject |-> subject, intermediates |-> intermediates]
ManageOps ==
  {Certificate("add", TRUE, Alice, "none"), Certificate("add", TRUE, Alice, "broken"),
   Certificate("subtract", TRUE, Alice, "absent"), Certificate("subtract", FALSE, Alice, "absent"),
   Certificate("add", TRUE, Bob, "bundle")}

SomeOperations == Grantings \cup Infos \cup Transfers \cup Creations \cup ManageOps
\* What a transaction may stage, with accounts that are known already, and the
\* accounts and signers it may switch to.
Resolved(a) == [account |-> a, handle |-> 0]
SomeGroups == {<<Vault, Bob>>, <<Alice, Bob>>}

SendOf(to, token, amount, external) ==
  [op |-> "send", to |-> Resolved(to), token |-> Resolved(token), amount |-> amount,
   external |-> external]
SomeStaged ==
  {SendOf(Bob, Token, n, "none") : n \in {0, 1}} \cup
  {SendOf(Bob, Token, 1, "text"),
   [op |-> "receive", from |-> Resolved(Bob), token |-> Resolved(Token), amount |-> 1,
    exact |-> TRUE, forward |-> Resolved(Vault)],
   [op |-> "setInfo", text |-> "text", default |-> NoPermissions],
   [op |-> "tokenAdminModifyBalance", token |-> Resolved(Token), amount |-> 1, method |-> "add"],
   [op |-> "raw", of |-> [op |-> "send", to |-> Bob, token |-> Token, amount |-> 1, external |-> "none"]]}
=============================================================================
