------------------------------ MODULE WasiAbi ------------------------------
(***************************************************************************)
(* The WASI Preview 1 core module (keetanetwork-client-wasi/src/p1) as its *)
(* host sees it: one registry of opaque handles per kind of object         *)
(* (keetanetwork-bindings/src/registry.rs) and the last error.             *)
(*                                                                         *)
(* The guest is single threaded, so an exported function is an operator    *)
(* that takes the guest's state and returns [g |-> new state, h |-> the    *)
(* returned handle, 0 for null].  The objects themselves are left out:     *)
(* only which handles are live matters to a host.  Whether the arguments   *)
(* of a call are acceptable (a parsable amount, a block that validates) is *)
(* a parameter, ok.                                                        *)
(***************************************************************************)
EXTENDS Naturals, FiniteSets

CONSTANT MaxHandle      \* stands for i32::MAX, where the counter wraps

\* The two parts of an error are read at once (LastError of JavaHost).
ASSUME MaxHandleAssumption == MaxHandle \in Nat /\ MaxHandle >= 2

Kinds == {"account", "block", "bytes", "permissions", "operation", "builder",
          "unsigned", "vote", "staple", "certificate"}

Handles == 1..MaxHandle

Fresh == [next  |-> [k \in Kinds |-> 0],
          live  |-> [k \in Kinds |-> {}],
          error |-> "none"]

(***************************************************************************)
(* HandleRegistry.  store() advances the counter, wrapping past the        *)
(* greatest handle to 1, until it meets a handle that is not live.         *)
(***************************************************************************)
Distance(from, h) == IF h > from THEN h - from ELSE h - from + MaxHandle

NextHandle(next, live) ==
    CHOOSE h \in Handles \ live :
        \A other \in Handles \ live : Distance(next, h) <= Distance(next, other)

\* Mutant: a counter that wraps onto live handles.
PutWithoutSkip(g, k) ==
    LET h == (g.next[k] % MaxHandle) + 1
    IN  [g |-> [g EXCEPT !.next[k] = h, !.live[k] = @ \cup {h}], h |-> h]

Put(g, k) ==
    LET h == NextHandle(g.next[k], g.live[k])
    IN  [g |-> [g EXCEPT !.next[k] = h, !.live[k] = @ \cup {h}], h |-> h]

Known(g, k, h) == h \in g.live[k]

Remove(g, k, h) == [g EXCEPT !.live[k] = @ \ {h}]

Fail(g) == [g |-> [g EXCEPT !.error = "now"], h |-> 0]

(***************************************************************************)
(* The shapes of the exported functions.                                   *)
(***************************************************************************)
\* Mutant: a refusal that records no error.
MakeWithoutError(g, k, ok) == IF ok THEN Put(g, k) ELSE [g |-> g, h |-> 0]

\* A new object from plain arguments.
Make(g, k, ok) == IF ok THEN Put(g, k) ELSE Fail(g)

\* A new object of kind k from arguments that name other objects, a set of
\* <<kind, handle>>; a handle that is not live fails the call.
MakeFrom(g, args, k, ok) ==
    IF \A a \in args : Known(g, a[1], a[2]) THEN Make(g, k, ok) ELSE Fail(g)

\* Mutant: a setter that puts the builder back when the call is refused.
ReboxKeepingFailed(g, h, args, ok) ==
    LET r == MakeFrom(g, args, "builder", ok)
    IN  IF r.h = 0 THEN r ELSE [r EXCEPT !.g = Remove(r.g, "builder", h)]

\* A setter of the block builder consumes the handle, whatever becomes of
\* the call, and returns a new one.
Rebox(g, h, args, ok) ==
    IF ~Known(g, "builder", h)
    THEN Fail(g)
    ELSE MakeFrom(Remove(g, "builder", h), args, "builder", ok)

\* keeta_builder_build and keeta_unsigned_sign consume their argument too.
Convert(g, from, h, to, ok) ==
    IF ~Known(g, from, h) THEN Fail(g) ELSE Make(Remove(g, from, h), to, ok)

\* The sends that pay the fees of a staple: n operations, and a list of
\* their handles as bytes; null when nothing is owed, and for a bad handle.
FeeSends(g, args, n) ==
    LET Ops[i \in 0..n] ==
            IF i = 0 THEN [g |-> g, hs |-> {}]
                     ELSE LET r == Put(Ops[i - 1].g, "operation")
                          IN  [g |-> r.g, hs |-> Ops[i - 1].hs \cup {r.h}]
    IN  IF ~\A a \in args : Known(g, a[1], a[2])
        THEN [g |-> Fail(g).g, h |-> 0, hs |-> {}]
        ELSE IF n = 0
        THEN [g |-> g, h |-> 0, hs |-> {}]
        ELSE LET list == Put(Ops[n].g, "bytes")
             IN  [g |-> list.g, h |-> list.h, hs |-> Ops[n].hs]

\* The last error stays until the next one replaces it; at the start of a
\* host call it is one of an earlier call.
Aged(g) == IF g.error = "now" THEN [g EXCEPT !.error = "earlier"] ELSE g
=============================================================================
