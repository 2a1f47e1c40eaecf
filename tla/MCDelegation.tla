---------------------------- MODULE MCDelegation ----------------------------
(* Instances of Delegation for TLC. *)
EXTENDS Delegation

NoPairs == {}
OnePair == {{1, 2}}

(* The behaviours in which one command starts the group, a second resumes, *)
(* and no child dies.                                                      *)
Narrow ==
  /\ \A g \in Commands : cmd[g].pc = "unused" /\ cmd'[g].pc # "unused" =>
       cmd'[g].pc = IF g = 1 THEN "read" ELSE "inspect"
  /\ \A a \in Actors : child'[a].state \notin {"dead", "killed"}

NarrowSpec == Init /\ [][Next /\ Narrow]_vars

(* Two slices of an instance with two delegations and two commands.  The   *)
(* second delegation is decided on first.  When it is rejected, both       *)
(* commands are about the first, at any moment.  When it is approved, both *)
(* are prepared and then one command has both, so that their retries meet; *)
(* the first may be cancelled while both retry, and a child that finishes  *)
(* has succeeded.                                                          *)
Retries == {"release", "prepare", "readmit"}
Sliced ==
  /\ session.status[2] = "draft" => session'.status[2] # "draft"
  /\ session'.status[2] # "rejected" =>
       /\ cmd'[1].pc # "unused" => \A d \in Delegations : session'.envelopes[d] > 0
       /\ cmd'[2].pc = "unused"
       /\ session'.cancels # session.cancels => \A d \in Delegations : thr[1][d].pc \in Retries
       /\ \A a \in Actors : child'[a].result \in {"none", "succeeded"}
=============================================================================
