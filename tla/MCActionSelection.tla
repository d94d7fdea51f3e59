-------------------------- MODULE MCActionSelection --------------------------
(***************************************************************************)
(* TLC instance of ActionSelection: one to five actions, numbered without  *)
(* gaps and with, and three replications: more than the rounds of halving  *)
(* for up to four actions, as many for five.                               *)
(***************************************************************************)
EXTENDS ActionSelection

(* The powers of two are those of the exponents. *)
ASSUME RoundsAssumption ==
  \A n \in 1 .. 20 :
    Rounds(n) = CHOOSE r \in 0 .. n : 2 ^ r >= n /\ \A q \in 0 .. r - 1 : 2 ^ q < n

MCRootActions == {<<1>>, <<0, 1>>, <<0, 2, 5>>, <<1, 2, 3, 4>>, <<0, 1, 2, 4, 6>>}
=============================================================================
