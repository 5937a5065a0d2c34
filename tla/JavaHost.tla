------------------------------ MODULE JavaHost ------------------------------
(***************************************************************************)
(* The Java SDK (keetanetwork-client-wasi/bindings/java) over the handles  *)
(* of WasiAbi.  A Java object holds one guest handle until it is closed or *)
(* consumed; the SDK throws when a call returns the null handle, and       *)
(* several of its methods make many guest calls, talk to the node in       *)
(* between, and may throw at any of them.                                  *)
(*                                                                         *)
(* An action is one call of the SDK's user, with everything it does before *)
(* it returns or throws.  The SDK is used from one thread.  Left out:      *)
(* calls that throw for a closed argument before they have touched the     *)
(* guest, which change nothing, and the reads of UserClient that make no   *)
(* handle.                                                                 *)
(***************************************************************************)
EXTENDS WasiAbi

CONSTANTS MaxObjects,   \* Java objects that may be open at once
          MaxFees,      \* fee operations a staple may require
          MaxCalls      \* calls of the SDK in one behaviour

ASSUME HostBounds == MaxObjects \in Nat \ {0} /\ MaxFees \in Nat /\ MaxCalls \in Nat

VARIABLES guest,        \* the state of the core module
          objects,      \* slot -> [kind, h]: the open Java objects
          lost,         \* history: handles whose Java reference was dropped
                        \* without a release
          spent,        \* history: handles of unsigned blocks whose signing
                        \* was refused, which their Java objects kept
          calls,        \* the number of calls made
          thrown        \* how the last call ended: "no", "guest" (a coded
                        \* error of the core module), "node", "host"

vars == <<guest, objects, lost, spent, calls, thrown>>

Slots  == 1..MaxObjects
Closed == [kind |-> "none", h |-> 0]
Open(k) == {s \in Slots : objects[s].kind = k}
FreeSlots == {s \in Slots : objects[s] = Closed}

\* The model's bound on the tables: no store meets a full one.
Room == \A k \in Kinds : Cardinality(guest.live[k]) + MaxFees + 1 <= MaxHandle

(***************************************************************************)
(* Helpers of KeetaNet.java, on a guest state.  A result carries the       *)
(* exception in `ex`.                                                      *)
(***************************************************************************)
\* handle(): the null handle throws the last error.
Checked(r) == [g |-> r.g, h |-> r.h, ex |-> IF r.h = 0 THEN "guest" ELSE "no"]

Throw(g, ex) == [g |-> g, h |-> 0, ex |-> ex]

\* takeBytes(): read and release.
TakeBytes(r) == IF r.ex = "no" THEN [r EXCEPT !.g = Remove(r.g, "bytes", r.h)] ELSE r

\* A getter: a string or bytes derived from an object.
ReadOf(g, k, h, ok) == TakeBytes(Checked(MakeFrom(g, {<<k, h>>}, "bytes", ok)))

\* lastError() reads the code and the message as bytes and releases both.
LastError(r) ==
    IF r.ex # "guest" THEN r
    ELSE LET code    == Put(r.g, "bytes")
             message == Put(code.g, "bytes")
         IN  [r EXCEPT !.g = Remove(Remove(message.g, "bytes", code.h), "bytes", message.h)]

\* Ends the call: a new object for the caller, or the exception.
Return(r, k) ==
    LET e == LastError(r)
    IN  /\ guest' = e.g
        /\ thrown' = e.ex
        /\ IF e.ex # "no" \/ k = "none"
           THEN UNCHANGED objects
           ELSE \E s \in FreeSlots :
                    /\ \A t \in FreeSlots : s <= t
                    /\ objects' = [objects EXCEPT ![s] = [kind |-> k, h |-> r.h]]

Begin == Aged(guest)

----------------------------------------------------------------------------
(***************************************************************************)
(* Keeta.java, Account.java, Permissions.java, Certificate.java.           *)
(***************************************************************************)
\* Accounts, permissions and certificates from seeds, keys, names, PEM ...
Create(k) ==
    /\ Room /\ FreeSlots # {}
    /\ \E ok \in BOOLEAN : Return(Checked(Make(Begin, k, ok)), k)
    /\ UNCHANGED <<lost, spent>>

\* generateSeed, generatePassphrase, certificateHash.
Generate ==
    /\ Room
    /\ \E ok \in BOOLEAN : Return(TakeBytes(Checked(Make(Begin, "bytes", ok))), "none")
    /\ UNCHANGED <<lost, spent>>

\* publicKeyString, sign, encrypt, decrypt, pem, subject, hashHex, toBytes ...
Read(s) ==
    /\ Room /\ objects[s].kind \in {"account", "permissions", "certificate", "unsigned", "block"}
    /\ \E ok \in BOOLEAN : Return(ReadOf(Begin, objects[s].kind, objects[s].h, ok), "none")
    /\ UNCHANGED <<lost, spent>>

\* generateIdentifier, generateMultisigIdentifier; SignedBlock.account.
Derive(s) ==
    /\ Room /\ FreeSlots # {} /\ objects[s].kind \in {"account", "block"}
    /\ \E ok \in BOOLEAN :
           Return(Checked(MakeFrom(Begin, {<<objects[s].kind, objects[s].h>>}, "account", ok)),
                  "account")
    /\ UNCHANGED <<lost, spent>>

\* setRep ... modifyPermissions, manageCertificateAdd: arguments are open
\* accounts and permissions.
NewOperation ==
    /\ Room /\ FreeSlots # {}
    /\ \E A \in SUBSET (Open("account") \cup Open("permissions")), ok \in BOOLEAN :
           /\ Cardinality(A) <= 2
           /\ Return(Checked(MakeFrom(Begin, {<<objects[s].kind, objects[s].h>> : s \in A},
                                      "operation", ok)), "operation")
    /\ UNCHANGED <<lost, spent>>

\* close() of any object.
Close(s) ==
    /\ objects[s] # Closed
    /\ guest' = Remove(Begin, objects[s].kind, objects[s].h)
    /\ objects' = [objects EXCEPT ![s] = Closed]
    /\ thrown' = "no"
    /\ UNCHANGED <<lost, spent>>

----------------------------------------------------------------------------
(***************************************************************************)
(* Block.java: the builder, used step by step.                             *)
(***************************************************************************)
NewBuilder ==
    /\ Room /\ FreeSlots # {}
    /\ Return(Checked(Make(Begin, "builder", TRUE)), "builder")
    /\ UNCHANGED <<lost, spent>>

\* What a consumed object becomes: the object made of it, or nothing.
Consumed(s, r, k) ==
    LET e == LastError(r)
    IN  /\ guest' = e.g
        /\ thrown' = e.ex
        /\ objects' = [objects EXCEPT ![s] =
                          IF e.ex = "no" THEN [kind |-> k, h |-> e.h] ELSE Closed]

\* version ... addOperation: consume() clears the Java handle first, so a
\* failure leaves the Java builder consumed.
Step(s) ==
    /\ Room /\ objects[s].kind = "builder"
    /\ \E A \in SUBSET (Open("account") \cup Open("operation")), ok \in BOOLEAN :
           /\ Cardinality(A) <= 1
           /\ Consumed(s, Checked(Rebox(Begin, objects[s].h,
                             {<<objects[t].kind, objects[t].h>> : t \in A}, ok)), "builder")
    /\ UNCHANGED <<lost, spent>>

\* The same with an account or operation that has been closed: its handle()
\* throws after consume() and before the guest is called.
StepWithClosed(s) ==
    /\ objects[s].kind = "builder"
    /\ guest' = Begin
    /\ objects' = [objects EXCEPT ![s] = Closed]
    /\ lost' = [lost EXCEPT !["builder"] = @ \cup {objects[s].h}]
    /\ thrown' = "host"
    /\ UNCHANGED spent

\* build() clears the Java handle in the same way.
Build(s) ==
    /\ Room /\ objects[s].kind = "builder"
    /\ \E ok \in BOOLEAN :
           Consumed(s, Checked(Convert(Begin, "builder", objects[s].h, "unsigned", ok)), "unsigned")
    /\ UNCHANGED <<lost, spent>>

\* sign() clears it only after the guest returned: when the guest refuses, it
\* has taken the unsigned block, and the Java object still holds the handle.
Sign(s) ==
    /\ Room /\ objects[s].kind = "unsigned"
    /\ \E ok \in BOOLEAN :
           LET r == LastError(Checked(Convert(Begin, "unsigned", objects[s].h, "block", ok)))
           IN  /\ guest' = r.g
               /\ thrown' = r.ex
               /\ IF r.ex = "no"
                  THEN /\ objects' = [objects EXCEPT ![s] = [kind |-> "block", h |-> r.h]]
                       /\ UNCHANGED spent
                  ELSE /\ spent' = spent \cup {objects[s].h}
                       /\ UNCHANGED objects
    /\ UNCHANGED lost

----------------------------------------------------------------------------
(***************************************************************************)
(* UserClient.java.  Where a method fails is chosen by `fail`: the node    *)
(* refuses, does not answer or answers with what is no vote ("head",       *)
(* "temp", "perm", "publish"), the SDK meets a closed account ("closed",   *)
(* "payer", "signer") or a head that is no hexadecimal number ("hex"), or  *)
(* the guest refuses what it is given (the others).                        *)
(***************************************************************************)
\* n setters on a builder none of which the guest refuses.
Stepped(builder, n) ==
    LET After[i \in 0..n] == IF i = 0 THEN builder
                             ELSE Rebox(After[i - 1].g, After[i - 1].h, {}, TRUE)
    IN  After[n]

\* build() and sign() in a try-with-resources: the unsigned block is closed
\* on the way out, after a failed sign too, when the guest has consumed it.
Closing(r, k, h) == [r EXCEPT !.g = Remove(r.g, k, h)]
Signed(built, ok) ==
    IF built.ex # "no" THEN built
    ELSE Closing(Checked(Convert(built.g, "unsigned", built.h, "block", ok)),
                 "unsigned", built.h)
BuiltAndSigned(builder, buildOk, signOk) ==
    Signed(Checked(Convert(builder.g, "builder", builder.h, "unsigned", buildOk)), signOk)

\* n bytes handles taken one after the other, as by encode().
Passed(g, k, n) ==
    LET After[i \in 0..n] == IF i = 0 THEN g
                             ELSE LET r == Put(After[i - 1], k) IN Remove(r.g, k, r.h)
    IN  After[n]

Refused(g) == Throw(Fail(g).g, "guest")

\* The result, with the operations and builders whose references are dropped.
NoneLost == [k \in Kinds |-> {}]
Dropping(operations, builders) ==
    [NoneLost EXCEPT !["operation"] = operations, !["builder"] = builders]
Losing(r, handles) == [g |-> r.g, h |-> r.h, ex |-> r.ex, lost |-> handles]

\* buildSigned: a block with the operation o on the account, atop its head.
\* The operation is closed by the try-with-resources, once that is entered;
\* positionAfter decodes the head before it consumes the builder.
Positioned(builder, o, fail) ==
    IF fail = "hex"
    THEN Losing(Throw(builder.g, "host"), Dropping({o}, {builder.h}))
    ELSE IF fail = "position"
    THEN Losing(Refused(Remove(builder.g, "builder", builder.h)), Dropping({o}, {}))
    ELSE Losing(Closing(BuiltAndSigned(Stepped(builder, 2), fail # "build", fail # "sign"),
                        "operation", o), NoneLost)
Headed(g, o, fail) ==
    IF fail = "head" THEN Losing(Throw(g, "node"), Dropping({o}, {}))
    ELSE Positioned(Stepped(Put(g, "builder"), 5), o, fail)
BuildSigned(g, o, fail) ==
    IF fail = "closed" THEN Losing(Throw(g, "host"), Dropping({o}, {}))
    ELSE Headed(Passed(g, "bytes", 1), o, fail)

\* buildFeeBlock, as called by a fee-block factory: the operations are closed
\* with the builder's try block, which the reading of the head and the setters
\* up to the position precede.
ClosingAll(r, hs) == [r EXCEPT !.g.live["operation"] = @ \ hs]
FeePositioned(builder, hs, n, fail) ==
    IF fail = "hex"
    THEN Losing(Throw(builder.g, "host"), Dropping(hs, {builder.h}))
    ELSE IF fail = "position"
    THEN Losing(Refused(Remove(builder.g, "builder", builder.h)), Dropping(hs, {}))
    ELSE Losing(ClosingAll(BuiltAndSigned(Stepped(builder, 1 + n),
                                          fail # "build", fail # "sign"), hs), NoneLost)
FeeSigner(builder, hs, n, fail) ==
    IF fail = "signer" THEN Losing(Throw(builder.g, "host"), Dropping(hs, {builder.h}))
    ELSE FeePositioned(Stepped(builder, 3), hs, n, fail)
FeeHeaded(g, hs, n, fail) ==
    IF fail = "head" THEN Losing(Throw(g, "node"), Dropping(hs, {}))
    ELSE FeeSigner(Stepped(Put(g, "builder"), 3), hs, n, fail)
FeePaid(g, hs, n, fail) ==
    IF fail = "payer" THEN Losing(Throw(g, "host"), Dropping(hs, {}))
    ELSE FeeHeaded(Passed(g, "bytes", 1), hs, n, fail)
FeeListed(sends, n, fail) ==
    IF n = 0 THEN [g |-> sends.g, h |-> 0, ex |-> "no", lost |-> NoneLost]
    ELSE FeePaid(Remove(sends.g, "bytes", sends.h), sends.hs, n, fail)
BuildFeeBlock(staple, n, fail) ==
    FeeListed(FeeSends(staple.g, {<<"staple", staple.h>>}, n), n, fail)

\* The vote handle made to ask whether a fee is required, released in a
\* finally block.
FeesRequired(g) == Passed(g, "vote", 1)

\* stapleFor: the vote handle is released whether the staple is made or not.
StapleOf(vote, fail) ==
    Closing(Checked(MakeFrom(vote.g, {<<"vote", vote.h>>}, "staple", fail # "staple")),
            "vote", vote.h)
StapleFor(g, fail) == StapleOf(Put(g, "vote"), fail)

\* publishStaple: the same for the permanent vote.
Assembled(vote, fail) ==
    Closing(TakeBytes(Checked(MakeFrom(vote.g, {<<"vote", vote.h>>}, "bytes", fail # "assemble"))),
            "vote", vote.h)
PublishStaple(g, fail) ==
    IF fail = "verify" THEN Refused(g)
    ELSE IF fail = "publish" THEN Throw(Assembled(Put(g, "vote"), fail).g, "node")
    ELSE Assembled(Put(g, "vote"), fail)

\* The permanent round over n blocks, the fee block f (0 for none) among
\* them and closed at the end.
Answered(g, fail) == IF fail = "perm" THEN Throw(g, "node") ELSE PublishStaple(g, fail)
PermanentRound(g, n, f, fail) ==
    Losing(Closing(Answered(Passed(g, "bytes", n), fail), "block", f), NoneLost)

\* transmit of n blocks: the temporary votes, the fee block they may require,
\* made from a staple that is closed behind it, and the permanent round.
WithFee(fee, staple, n, fail) ==
    IF fee.ex # "no" THEN Closing(fee, "staple", staple)
    ELSE IF fee.h = 0 THEN Losing(Throw(Remove(fee.g, "staple", staple), "host"), NoneLost)
    ELSE PermanentRound(Remove(fee.g, "staple", staple), n + 1, fee.h, fail)
WithStaple(staple, n, w) ==
    IF staple.ex # "no" THEN Losing(staple, NoneLost)
    ELSE WithFee(BuildFeeBlock(staple, w.fees, w.fail), staple.h, n, w.fail)
WithVotes(g, n, w) ==
    IF ~w.owed THEN PermanentRound(g, n, 0, w.fail)
    ELSE IF ~w.factory THEN Losing(Throw(g, "host"), NoneLost)
    ELSE WithStaple(StapleFor(g, w.fail), n, w)
Voted(g, n, w) ==
    IF w.fail = "temp" THEN Losing(Throw(g, "node"), NoneLost)
    ELSE IF w.fail = "vote" THEN Losing(Refused(g), NoneLost)
    ELSE WithVotes(FeesRequired(g), n, w)
Transmit(g, n, w) == Voted(Passed(g, "bytes", n), n, w)

\* The ways a round may go: what the votes require, whether the caller gave
\* a factory, and where it fails.
Rounds ==
    [owed : {FALSE}, factory : {FALSE}, fees : {0},
     fail : {"none", "temp", "vote", "perm", "verify", "assemble", "publish"}]
    \cup [owed : {TRUE}, factory : {FALSE}, fees : {0}, fail : {"none"}]
    \cup [owed : {TRUE}, factory : {TRUE}, fees : 0..MaxFees,
          fail : {"none", "staple", "payer", "head", "signer", "hex", "position",
                  "build", "sign", "perm", "verify", "assemble", "publish"}]

\* Publishing open blocks with transmit(blocks, options).
Ends(r) ==
    /\ Return(r, "none")
    /\ lost' = [k \in Kinds |-> lost[k] \cup r.lost[k]]
    /\ UNCHANGED spent
TransmitBlocks ==
    /\ Room
    /\ \E B \in SUBSET Open("block"), w \in Rounds :
           B # {} /\ Ends(Transmit(Begin, Cardinality(B), w))

\* send, receive, modifyCertificateAdd, modifyCertificateRemove: make the
\* operation, build and sign its block, publish it without a factory, close
\* it.
Sent(signed, w) ==
    IF signed.ex # "no" THEN signed
    ELSE Closing(Transmit(Passed(signed.g, "bytes", 1), 1, w), "block", signed.h)
Written(op, built, w) == Sent(BuildSigned(op.g, op.h, built), w)
Writing(g, built, w) ==
    IF built = "operation" THEN Losing(Refused(g), NoneLost)
    ELSE Written(Put(g, "operation"), built, w)
Publish(s) ==
    /\ Room /\ objects[s].kind = "account"
    /\ \E built \in {"none", "operation", "closed", "head", "hex", "position", "build", "sign"},
          w \in Rounds :
           /\ ~w.factory
           /\ built # "none" => w.fail = "none" /\ ~w.owed
           /\ Ends(Writing(Begin, built, w))

----------------------------------------------------------------------------
\* UserClient's constructor derives the base token, an account it keeps.
Init ==
    /\ guest = Put(Fresh, "account").g
    /\ objects = [s \in Slots |-> IF s = 1 THEN [kind |-> "account", h |-> 1] ELSE Closed]
    /\ lost = NoneLost
    /\ spent = {}
    /\ calls = 0
    /\ thrown = "no"

Call ==
    \/ \E k \in {"account", "permissions", "certificate"} : Create(k)
    \/ Generate
    \/ NewOperation
    \/ NewBuilder
    \/ \E s \in Slots : \/ Read(s) \/ Derive(s) \/ Close(s) \/ Step(s)
                         \/ StepWithClosed(s) \/ Build(s) \/ Sign(s) \/ Publish(s)
    \/ TransmitBlocks

Next == calls < MaxCalls /\ calls' = calls + 1 /\ Call

Spec == Init /\ [][Next]_vars

----------------------------------------------------------------------------
Owned(k) == {objects[s].h : s \in Open(k)}

\* Every open Java object names a live guest object of its own, however
\* often the handle counters of the registry have wrapped, and whatever failed
\* before: all but unsigned blocks that name the handle of a block whose signing
\* was refused.  sign() clears its handle only when the guest did not refuse,
\* though keeta_unsigned_sign consumes the block either way.
Spoiled(s) == objects[s].kind = "unsigned" /\ objects[s].h \in spent
HandlesResolve ==
    \A s \in Slots : objects[s] # Closed /\ ~Spoiled(s) =>
        /\ objects[s].h \in guest.live[objects[s].kind]
        /\ \A t \in Slots : t # s /\ objects[t].kind = objects[s].kind
                             => objects[t].h # objects[s].h

\* Between two calls of the user, a live guest object belongs to an open
\* Java object: whatever fails in the middle of a fee block, a round or a
\* publication, the bytes, votes, staples, unsigned blocks and blocks made on
\* the way are released, and a refused builder call leaves no builder behind in
\* the guest.  Operations and builders may also be among those the SDK dropped
\* in its own methods, for which see OperationIsConsumed.
LiveIsAccounted ==
    \A k \in Kinds :
        /\ guest.live[k] \subseteq Owned(k) \cup lost[k]
        /\ k \notin {"operation", "builder"} => lost[k] = {}

\* "The operation handle is consumed here" (UserClient.java:338, buildSigned):
\* the operations that live are those of the user.  buildSigned enters the try
\* that closes the operation only after it has read the head and positioned the
\* builder; when one of these throws, the operation stays in the guest.
OperationIsConsumed == guest.live["operation"] \subseteq Owned("operation")

\* A coded error that is thrown is the one of the call that failed, never
\* the one left by an earlier call: every null handle that the SDK turns
\* into an exception was returned with its error recorded.
ErrorIsFresh == thrown = "guest" => guest.error = "now"
=============================================================================
