----------------------------- MODULE WriteCalls -----------------------------
(***************************************************************************)
(* What the callers of UserClient's write methods may rely on, without     *)
(* votes, representatives or recoveries.  Each call renders its operations *)
(* into `Steps' blocks, perhaps several times.  Blocks of any rendering    *)
(* made so far may take effect at any time, also after their call ended    *)
(* (somebody else may finish what it left half done), but only in the      *)
(* order of the rendering.  A call returns success only when every block   *)
(* of its LAST rendering took effect; what another writer's block did, or  *)
(* an earlier rendering of its own, does not count.                        *)
(***************************************************************************)
EXTENDS Naturals

CONSTANTS Clients, Steps, MaxRebuilds

VARIABLES
  status,      \* status[c]: "running", "returned" (success) or "gave_up"
  rendering,   \* rendering[c]: the number of the last rendering of c's call
  applied      \* <<c, n, i>>: block i of rendering n of c's call took effect

callVars == <<status, rendering, applied>>

Init ==
  /\ status = [c \in Clients |-> "running"]
  /\ rendering = [c \in Clients |-> 0]
  /\ applied = {}

Apply ==
  /\ applied \subseteq applied'
  /\ \A x \in applied' \ applied :
       /\ x[2] <= rendering[x[1]]
       /\ \A j \in 1..(x[3] - 1) : <<x[1], x[2], j>> \in applied
  /\ UNCHANGED <<status, rendering>>

Render(c) ==
  /\ status[c] = "running" /\ rendering[c] < MaxRebuilds
  /\ rendering' = [rendering EXCEPT ![c] = @ + 1]
  /\ UNCHANGED <<status, applied>>

Return(c) ==
  /\ status[c] = "running"
  /\ \A i \in 1..Steps : <<c, rendering[c], i>> \in applied
  /\ status' = [status EXCEPT ![c] = "returned"]
  /\ UNCHANGED <<rendering, applied>>

GiveUp(c) ==
  /\ status[c] = "running"
  /\ status' = [status EXCEPT ![c] = "gave_up"]
  /\ UNCHANGED <<rendering, applied>>

Next == Apply \/ \E c \in Clients : Render(c) \/ Return(c) \/ GiveUp(c)

Spec == Init /\ [][Next]_callVars
=============================================================================
