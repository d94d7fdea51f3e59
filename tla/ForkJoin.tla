------------------------------ MODULE ForkJoin -------------------------------
(***************************************************************************)
(* What parallel_compute promises its caller: every element of the output  *)
(* is computed before the call returns, or the call fails; after either,   *)
(* no element changes any more.                                            *)
(***************************************************************************)
CONSTANT Slots  \* the elements of the output vector

VARIABLES
  filled,   \* the elements computed so far
  outcome   \* "running" until the call returns ("ok") or throws ("failed")

Init == filled = {} /\ outcome = "running"

(* Some worker computes one more element. *)
Fill(s) ==
  /\ outcome = "running"
  /\ filled' = filled \cup {s}
  /\ UNCHANGED outcome

(* The call returns: every element is there. *)
Return ==
  /\ outcome = "running"
  /\ filled = Slots
  /\ outcome' = "ok"
  /\ UNCHANGED filled

(* The call throws, however much has been computed. *)
Throw ==
  /\ outcome = "running"
  /\ outcome' = "failed"
  /\ UNCHANGED filled

Next == (\E s \in Slots : Fill(s)) \/ Return \/ Throw

Spec == Init /\ [][Next]_<<filled, outcome>>
=============================================================================
