--------------------------- MODULE HandoffRegister ---------------------------
(***************************************************************************)
(* What the handoff record of a background operation promises: one         *)
(* authority at a time, given away at most once and never taken back.      *)
(* The parent that launches may hand over to its worker; whoever has the   *)
(* authority may be closed cleanly, or give up and ask for reconciliation. *)
(***************************************************************************)
CONSTANT Ops

VARIABLE authority   \* of each operation

States == {"none", "parent", "worker", "closed", "unresolved"}

Init == authority = [o \in Ops |-> "none"]

Become(o, s) == authority' = [authority EXCEPT ![o] = s]

Begin(o) == authority[o] = "none" /\ Become(o, "parent")
Claim(o) == authority[o] = "parent" /\ Become(o, "worker")
End(o) ==
  /\ authority[o] \in {"parent", "worker"}
  /\ \E s \in {"closed", "unresolved"} : Become(o, s)

Next == \E o \in Ops : Begin(o) \/ Claim(o) \/ End(o)
Spec == Init /\ [][Next]_authority
=============================================================================
