----------------------------- MODULE TxBuilder -----------------------------
(***************************************************************************)
(* TransactionBuilder (keetanetwork-client/src/builder.rs): operations are *)
(* staged into one group per account, and build renders each group into a  *)
(* block, reading the head of its account from the network in between. The *)
(* builder is the one UserClient::init_builder and begin of client-wasi/p2 *)
(* hand out: its first group is the operating account's, signed by the     *)
(* bound signer.                                                           *)
(*                                                                         *)
(* An operand is an account, or the number of the handle of an identifier  *)
(* that is still to be created (AccountOrPending).                         *)
(***************************************************************************)
EXTENDS BlockRules, FiniteSetsExt

CONSTANTS
  Primary, Signer,   \* the operating account and the signer bound to it
  Groups,            \* the <<account, signer>> pairs the caller may switch to
  Staged,            \* the operations that may be staged
  MaxOps, MaxHandles, MaxBuilds, MaxHashes   \* bounds on a session

VARIABLES
  builder,   \* TransactionBuilder: groups, current and initial_previous (seed)
  handles,   \* PendingAccount cells, in the order they were handed out
  build,     \* the call of build that is running or ran last
  heads,     \* the heads the network answers with (external)
  hashes,    \* how many hashes are in use
  sealed,    \* the blocks that calls of build have returned
  lost       \* whether a call of build failed or was dropped

vars == <<builder, handles, build, heads, hashes, sealed, lost>>

Unset == -1          \* initial_previous before with_previous

Resolved(a) == [account |-> a, handle |-> 0]
Pending(h) == [account |-> NoAccount, handle |-> h]

Group(a, s) == [account |-> a, signer |-> s, ops |-> << >>]
Idle == [phase |-> "idle", all |-> << >>, todo |-> << >>, made |-> << >>,
         rendered |-> << >>, count |-> 0]
\* `phase' is "idle", "running", "ok" or "failed"; `all' are the groups taken,
\* `todo' those still to render, `made' the blocks sealed so far, `rendered'
\* the last block that was given to seal_block.

Ledger == {g[1] : g \in Groups} \cup {Primary}

\* TransactionBuilder::new, then for_account_with_signer when they differ.
Init ==
  /\ builder = [groups |-> << >>, current |-> Group(Primary, Signer), seed |-> Unset]
  /\ handles = << >> /\ build = Idle
  /\ heads = [a \in Ledger |-> 0] /\ hashes = 0
  /\ sealed = {} /\ lost = FALSE

\* build borrows the builder mutably. Staging after the last build is left out.
Callable == build.phase # "running" /\ build.count < MaxBuilds

\* The operations staged now and for the last build, for the bound.
StagedOps ==
  FoldLeft(LAMBDA n, g : n + Len(g.ops), Len(builder.current.ops), builder.groups \o build.all)

-----------------------------------------------------------------------------
(* Staging.                                                                *)

\* switch: the group left behind is kept unless it is empty.
Kept(groups, g) == IF g.ops = << >> THEN groups ELSE Append(groups, g)

ForAccount(a, s) ==
  /\ Callable
  /\ builder' = [builder EXCEPT !.groups = Kept(@, builder.current), !.current = Group(a, s)]
  /\ UNCHANGED <<handles, build, heads, hashes, sealed, lost>>

Push(op) ==
  /\ Callable /\ StagedOps < MaxOps
  /\ builder' = [builder EXCEPT !.current.ops = Append(@, op)]
  /\ UNCHANGED <<build, heads, hashes, sealed, lost>>

\* send, send_external, receive_with, set_rep, modify_permissions,
\* modify_token_supply, modify_token_balance, manage_certificate, with_operation
Stage(op) == op.op # "setInfo" /\ Push(op) /\ UNCHANGED handles

\* The same with a handle for one of the operands.
Pointing(op, h) ==
  CASE op.op = "send" /\ op.amount # 0 -> {[op EXCEPT !.to = Pending(h)], [op EXCEPT !.token = Pending(h)]}
    [] op.op = "receive" -> {[op EXCEPT !.from = Pending(h)]}
    [] op.op = "tokenAdminModifyBalance" -> {[op EXCEPT !.token = Pending(h)]}
    [] OTHER -> {}

\* set_info: merged into the one already staged in the group, field by field.
SetInfo(info) ==
  LET ops == builder.current.ops
      earlier == {i \in DOMAIN ops : ops[i].op = "setInfo"}
      merged(old) == [op |-> "setInfo",
                      text |-> IF info.text # "empty" THEN info.text ELSE old.text,
                      default |-> IF info.default.ok THEN info.default ELSE old.default]
  IN \/ earlier = {} /\ Push(info) /\ UNCHANGED handles
     \/ /\ earlier # {} /\ Callable
        /\ builder' = [builder EXCEPT !.current.ops[Min(earlier)] = merged(@)]
        /\ UNCHANGED <<handles, build, heads, hashes, sealed, lost>>

GenerateIdentifier(type) ==
  /\ Len(handles) < MaxHandles
  /\ Push([op |-> "createIdentifier", type |-> type, handle |-> Len(handles) + 1])
  /\ handles' = Append(handles, NoAccount)

\* Only build reads the seed, so it is set before anything is staged.
WithPrevious(h) ==
  /\ Callable /\ builder.seed # h
  /\ builder.groups = << >> /\ builder.current.ops = << >>
  /\ builder' = [builder EXCEPT !.seed = h]
  /\ UNCHANGED <<handles, build, heads, hashes, sealed, lost>>

-----------------------------------------------------------------------------
(* Rendering one group: render_ops and RenderBuckets.                      *)

Buckets == <<"creates", "external", "aggregated", "receives", "info", "setRep",
             "supply", "certificates", "balance", "permissions", "raw">>
BucketOf == [setInfo |-> "info", setRep |-> "setRep",
             tokenAdminSupply |-> "supply", manageCertificate |-> "certificates",
             modifyPermissions |-> "permissions"]

Resolve(operand, cells) ==
  IF operand.handle = 0 THEN operand.account ELSE cells[operand.handle]
Unresolved(operand, cells) == operand.handle # 0 /\ cells[operand.handle] = NoAccount

Into(r, bucket, op) == [r EXCEPT !.buckets[bucket] = Append(@, op)]

\* The index counts every operation rendered so far.
CreateIndexOfAll(r) == Len(FlattenSeq([i \in DOMAIN Buckets |-> r.buckets[Buckets[i]]]))

\* push_create: the position among the creates of the group.
CreateIndex(r) == Len(r.buckets["creates"])

PushCreate(g, previous, r, op) ==
  LET id == Derive(g.account, op.type, previous, CreateIndex(r))
      fill == [r EXCEPT !.cells[op.handle] = IF @ = NoAccount THEN id ELSE @]
  IN IF id = NoAccount THEN [r EXCEPT !.ok = FALSE]
     ELSE Into(fill, "creates",
               [op |-> "createIdentifier", identifier |-> id, arguments |-> FALSE,
                signers |-> << >>, quorum |-> 0])

\* Sends to one recipient overwrite each other.
AddedSendLast(sums, send) ==
  SelectSeq(sums, LAMBDA s : s.to # send.to \/ s.token # send.token) \o <<send>>

\* AggregatedSend: the sends to one recipient of one token become one.
AddedSend(sums, send) ==
  LET same(s) == s.to = send.to /\ s.token = send.token IN
  IF \E i \in DOMAIN sums : same(sums[i])
  THEN [i \in DOMAIN sums |->
          IF same(sums[i]) THEN [sums[i] EXCEPT !.amount = @ + send.amount] ELSE sums[i]]
  ELSE Append(sums, send)

\* push_send. The order of the sums, by address in the code, is left out.
PushSend(r, op) ==
  LET send == [op EXCEPT !.to = Resolve(@, r.cells), !.token = Resolve(@, r.cells)]
      pending == Unresolved(op.to, r.cells) \/ Unresolved(op.token, r.cells)
  IN CASE pending -> [r EXCEPT !.ok = FALSE]
       [] ~pending /\ op.external # "none" -> Into(r, "external", send)
       [] OTHER -> [r EXCEPT !.buckets["aggregated"] = AddedSend(@, send)]

\* push_receive
PushReceive(r, op) ==
  IF \E operand \in {op.from, op.token, op.forward} : Unresolved(operand, r.cells)
  THEN [r EXCEPT !.ok = FALSE]
  ELSE Into(r, "receives", [op EXCEPT !.from = Resolve(@, r.cells), !.token = Resolve(@, r.cells),
                                      !.forward = Resolve(@, r.cells)])

PushBalance(r, op) ==
  IF Unresolved(op.token, r.cells) THEN [r EXCEPT !.ok = FALSE]
  ELSE Into(r, "balance", [op EXCEPT !.token = Resolve(@, r.cells)])

\* One operation. After an error nothing more is rendered; handles that were
\* filled stay filled.
Render(g, previous, r, op) ==
  CASE ~r.ok -> r
    [] r.ok /\ op.op = "createIdentifier" -> PushCreate(g, previous, r, op)
    [] r.ok /\ op.op = "send" -> IF op.amount = 0 THEN r ELSE PushSend(r, op)
    [] r.ok /\ op.op = "receive" -> IF op.amount = 0 THEN r ELSE PushReceive(r, op)
    [] r.ok /\ op.op = "tokenAdminModifyBalance" -> PushBalance(r, op)
    [] r.ok /\ op.op = "raw" -> Into(r, "raw", op.of)
    [] OTHER -> Into(r, BucketOf[op.op], op)

NothingRendered(cells) ==
  [ok |-> TRUE, cells |-> cells, buckets |-> [b \in ToSet(Buckets) |-> << >>]]

RenderOps(g, previous) ==
  FoldLeft(LAMBDA r, op : Render(g, previous, r, op), NothingRendered(handles), g.ops)

\* into_operations: the buckets in order, without the sums that came to zero.
NonZero(sums) ==
  FoldLeft(LAMBDA kept, s : IF s.amount # 0 THEN Append(kept, s) ELSE kept, << >>, sums)
Whole(r, b) == IF b = "aggregated" THEN NonZero(r.buckets[b]) ELSE r.buckets[b]
IntoOperations(r) == FlattenSeq([i \in DOMAIN Buckets |-> Whole(r, Buckets[i])])

\* The data seal_block gives to BlockBuilder.
BlockOf(g, previous, ops) ==
  [version |-> 2, purpose |-> "generic", network |-> "known", subnet |-> "none",
   idempotent |-> "none", late |-> TRUE, account |-> g.account,
   signer |-> Single(g.signer), previous |-> previous, ops |-> ops]

-----------------------------------------------------------------------------
(* build.                                                                  *)

\* The groups are taken out before anything can fail, and the next group is
\* the operating account's, signed by itself.
Build ==
  /\ Callable
  /\ LET groups == Kept(builder.groups, builder.current)
     IN build' = [Idle EXCEPT !.phase = "running", !.all = groups, !.todo = groups,
                              !.count = build.count + 1]
  /\ builder' = [builder EXCEPT !.groups = << >>, !.current = Group(Primary, Primary)]
  /\ UNCHANGED <<handles, heads, hashes, sealed, lost>>

\* The head is read for every group.
PreviousAlwaysRead(g) ==
  IF g.account = Primary /\ builder.seed # Unset THEN builder.seed ELSE heads[g.account]

\* previous_by_account, then first_previous.
PreviousFor(g) ==
  LET own == {i \in DOMAIN build.made : build.made[i].data.account = g.account}
  IN CASE own # {} -> build.made[Max(own)].hash
       [] own = {} /\ g.account = Primary /\ builder.seed # Unset -> builder.seed
       [] OTHER -> heads[g.account]

BuildGroup ==
  /\ build.phase = "running" /\ build.todo # << >>
  /\ LET g == Head(build.todo)
         previous == PreviousFor(g)
         r == RenderOps(g, previous)
         ops == IntoOperations(r)
         data == BlockOf(g, previous, ops)
         rest == [build EXCEPT !.todo = Tail(@)]
         failed == [build EXCEPT !.phase = "failed", !.rendered = IF r.ok THEN <<data>> ELSE << >>]
     IN /\ handles' = r.cells
        /\ \/ /\ r.ok /\ ops = << >>
              /\ build' = rest /\ UNCHANGED <<hashes, lost>>
           \/ /\ r.ok /\ ops # << >> /\ Valid(data) /\ CanSign(data)
              /\ hashes' = hashes + 1
              /\ build' = [rest EXCEPT !.made = Append(@, [hash |-> hashes + 1, data |-> data]),
                                       !.rendered = <<data>>]
              /\ UNCHANGED lost
           \/ /\ ~r.ok \/ (ops # << >> /\ ~(Valid(data) /\ CanSign(data)))
              /\ build' = failed /\ lost' = TRUE /\ UNCHANGED hashes
  /\ UNCHANGED <<builder, heads, sealed>>

\* The read of a head fails, or the caller drops the future while it is read.
BuildInterrupted ==
  /\ build.phase = "running" /\ build.todo # << >>
  /\ build' = [build EXCEPT !.phase = "failed", !.rendered = << >>]
  /\ lost' = TRUE
  /\ UNCHANGED <<builder, handles, heads, hashes, sealed>>

BuildReturns ==
  /\ build.phase = "running" /\ build.todo = << >>
  /\ build' = [build EXCEPT !.phase = "ok"]
  /\ sealed' = sealed \cup ToSet(build.made)
  /\ UNCHANGED <<builder, handles, heads, hashes, lost>>

\* Somebody's block becomes the head of an account: another client's, or one
\* that this builder returned. Only a running build reads the heads.
HeadMoves(a) ==
  /\ build.phase = "running"
  /\ \/ hashes < MaxHashes /\ hashes' = hashes + 1 /\ heads' = [heads EXCEPT ![a] = hashes + 1]
     \/ \E b \in sealed : /\ b.data.account = a /\ b.data.previous = heads[a]
                          /\ heads' = [heads EXCEPT ![a] = b.hash] /\ UNCHANGED hashes
  /\ UNCHANGED <<builder, handles, build, sealed, lost>>

Next ==
  \/ \E g \in Groups : ForAccount(g[1], g[2])
  \/ \E op \in Staged : Stage(op)
  \/ \E op \in Staged, h \in DOMAIN handles : \E pointing \in Pointing(op, h) : Stage(pointing)
  \/ \E op \in Staged : op.op = "setInfo" /\ SetInfo(op)
  \/ \E type \in {"token", "storage"} : GenerateIdentifier(type)
  \/ WithPrevious(hashes)
  \/ Build \/ BuildGroup \/ BuildInterrupted \/ BuildReturns
  \/ \E a \in Ledger : HeadMoves(a)

Spec == Init /\ [][Next]_vars

-----------------------------------------------------------------------------
Creates(data) == {i \in DOMAIN data.ops : data.ops[i].op = "createIdentifier"}

\* The identifiers a block creates are the ones its validation derives from
\* its previous hash and the position of each operation, however creates,
\* transfers and the rest were interleaved: build never fails over an
\* identifier it derived itself (builder.rs: push_create).
CreatesFit ==
  build.rendered # << >> =>
    LET data == build.rendered[1] IN
    \A i \in Creates(data) :
      data.ops[i].identifier = Derive(data.account, data.ops[i].identifier.type, data.previous, i - 1)

\* A call of build that returns sends to every recipient exactly what was
\* staged for it, token by token: aggregation, dropped zeros and skipped
\* groups change the operations, never the amounts.
Asked(op, to, token, cells) ==
  CASE op.op = "send" /\ Resolve(op.to, cells) = to /\ Resolve(op.token, cells) = token -> op.amount
    [] op.op = "raw" /\ op.of.op = "send" /\ op.of.to = to /\ op.of.token = token -> op.of.amount
    [] OTHER -> 0
Given(op, to, token) == IF op.op = "send" /\ op.to = to /\ op.token = token THEN op.amount ELSE 0
Total(amounts) == FoldLeft(LAMBDA n, amount : n + amount, 0, amounts)
TotalAsked(ops, to, token) == Total([i \in DOMAIN ops |-> Asked(ops[i], to, token, handles)])
TotalGiven(ops, to, token) == Total([i \in DOMAIN ops |-> Given(ops[i], to, token)])
SendsConserved ==
  build.phase = "ok" =>
    LET asked == FlattenSeq([i \in DOMAIN build.all |-> build.all[i].ops])
        done == FlattenSeq([i \in DOMAIN build.made |-> build.made[i].data.ops])
        pairs == {<<done[i].to, done[i].token>> : i \in {k \in DOMAIN done : done[k].op = "send"}} \cup
                 {<<Resolve(asked[i].to, handles), Resolve(asked[i].token, handles)>> :
                    i \in {k \in DOMAIN asked : asked[k].op = "send"}}
    IN \A p \in pairs : TotalAsked(asked, p[1], p[2]) = TotalGiven(done, p[1], p[2])

\* A handle that resolves names an identifier that some returned block
\* creates, as long as no call of build was lost; and no two handles of one
\* call resolve to the same identifier.
HandlesAreCreated ==
  /\ (build.phase # "running" /\ ~lost) =>
       \A h \in DOMAIN handles : handles[h] # NoAccount =>
         \E b \in sealed : \E i \in Creates(b.data) : b.data.ops[i].identifier = handles[h]
  /\ build.phase = "ok" =>
       LET made == {h \in DOMAIN handles : \E i \in DOMAIN build.all :
                      \E j \in DOMAIN build.all[i].ops :
                        LET op == build.all[i].ops[j]
                        IN op.op = "createIdentifier" /\ op.handle = h}
       IN \A h, k \in made : handles[h] # NoAccount /\ (h # k => handles[h] # handles[k])

\* The blocks one call returns for an account follow each other without a gap
\* or a fork, whatever the network does while it runs.
BlocksChain ==
  \A i, j \in DOMAIN build.made :
    (/\ i < j /\ build.made[i].data.account = build.made[j].data.account
     /\ \A k \in (i + 1)..(j - 1) : build.made[k].data.account # build.made[i].data.account)
      => build.made[j].data.previous = build.made[i].hash
=============================================================================
