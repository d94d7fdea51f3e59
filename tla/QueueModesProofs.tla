-------------------------- MODULE QueueModesProofs ---------------------------
(***************************************************************************)
(* Theorems about the heuristics in either action mode.  Everything that   *)
(* is particular to the queue is a lemma of QueueProofs, used once for     *)
(* each of its two instances.                                              *)
(***************************************************************************)
EXTENDS QueueModes, TLAPS

(* The inductive invariant of QueueProofs, in the mode chosen. *)
ModeInv ==
  /\ per_event \in Modes
  /\ IF per_event THEN PerEvent!DecidedInv ELSE ByQueue!DecidedInv

(* A step of a behaviour is a step of the instance in its mode. *)
StepOfMode ==
  /\ per_event' = per_event
  /\ IF per_event
     THEN [PerEvent!PolicyNext]_(PerEvent!policyVars)
     ELSE [ByQueue!PolicyNext]_(ByQueue!policyVars)

LEMMA ModeSteps == ModeInv /\ [Next]_vars => StepOfMode
BY DEF ModeInv, vars, Next, StepOfMode, PerEvent!policyVars, ByQueue!policyVars

LEMMA InitMode == Init => ModeInv
<1> SUFFICES ASSUME Init PROVE ModeInv
  OBVIOUS
<1>1. per_event \in Modes
  BY DEF Init
<1>2. CASE per_event
  BY <1>1, <1>2, PerEvent!InitDecided, ModesAssumption DEF Init, ModeInv
<1>3. CASE ~per_event
  BY <1>1, <1>3, ByQueue!InitDecided, ModesAssumption DEF Init, ModeInv
<1>4. QED
  BY <1>2, <1>3

LEMMA NextMode == ModeInv /\ [Next]_vars => ModeInv'
<1> SUFFICES ASSUME ModeInv, [Next]_vars PROVE ModeInv'
  OBVIOUS
<1>1. per_event \in Modes /\ per_event' = per_event
  BY ModeSteps DEF ModeInv, StepOfMode
<1>2. CASE per_event
  BY <1>1, <1>2, ModeSteps, PerEvent!NextDecided, ModesAssumption DEF ModeInv, StepOfMode
<1>3. CASE ~per_event
  BY <1>1, <1>3, ModeSteps, ByQueue!NextDecided, ModesAssumption DEF ModeInv, StepOfMode
<1>4. QED
  BY <1>2, <1>3

(* Whichever mode and heuristic a behaviour starts with, the invariants of *)
(* the simulator in that mode and those of the heuristic hold throughout.  *)
THEOREM ModesSound == Spec => []ModeInv
BY InitMode, NextMode, PTL DEF Spec

-----------------------------------------------------------------------------
(* A heuristic answers allowed actions only, in either mode; the exception *)
(* is the FIFO policy where late service is forced.                        *)
THEOREM ModesAnswerLegally == Spec => []((ForceLateService => policy = "cmu") => PolicyLegal)
<1>1. ModeInv => ((ForceLateService => policy = "cmu") => PolicyLegal)
  <2>1. CASE per_event
    BY <2>1, PerEvent!AnswersLegal, ModesAssumption DEF ModeInv, PolicyLegal
  <2>2. CASE ~per_event
    BY <2>2, ByQueue!AnswersLegal, ModesAssumption DEF ModeInv, PolicyLegal
  <2>3. QED
    BY <2>1, <2>2
<1>2. QED
  BY <1>1, ModesSound, PTL

(* In either mode no deterministic heuristic lets the process go on while  *)
(* a server is idle that could start a waiting job, also where late        *)
(* service is forced and what FIFO answers is carried out though it is not *)
(* allowed.                                                                *)
THEOREM ModesConserveWork == Spec => []WorkConserving
<1>1. ModeInv => WorkConserving
  <2>1. CASE per_event
    BY <2>1, PerEvent!ConservesWork, ModesAssumption DEF ModeInv, WorkConserving
  <2>2. CASE ~per_event
    BY <2>2, ByQueue!ConservesWork, ModesAssumption DEF ModeInv, WorkConserving
  <2>3. QED
    BY <2>1, <2>2
<1>2. QED
  BY <1>1, ModesSound, PTL

(* Asked about candidates, the oldest first, the enforced FIFO policy      *)
(* serves whatever it is shown, as the greedy one does.                    *)
THEOREM EnforcedFifoIsGreedy == Spec => []EnforcedIsGreedy
<1>1. ModeInv => EnforcedIsGreedy
  BY ByQueue!EnforcedGreedy, ModesAssumption DEF ModeInv, EnforcedIsGreedy
<1>2. QED
  BY <1>1, ModesSound, PTL

-----------------------------------------------------------------------------
(* In either mode every heuristic starts jobs in the order it is named     *)
(* after: fewer types that it ranks higher wait for the pool than the pool *)
(* has free servers.  (Not cmu where late service is forced, nor greedy    *)
(* FIFO on ascending presentation, see HonoursItsOrder.)                   *)
THEOREM ModesHonourTheirOrder == Spec => HonoursItsOrder
<1> DEFINE InOrder == IF per_event THEN PerEvent!ServesInOrder ELSE ByQueue!ServesInOrder
<1>1. ModeInv /\ ModeInv' /\ [Next]_vars => InOrder
  <2> SUFFICES ASSUME ModeInv, ModeInv', StepOfMode PROVE InOrder
    BY ModeSteps
  <2>1. CASE per_event
    BY <2>1, PerEvent!ServesItsOrder, ModesAssumption DEF ModeInv, StepOfMode
  <2>2. CASE ~per_event
    BY <2>2, ByQueue!ServesItsOrder, ModesAssumption DEF ModeInv, StepOfMode
  <2>3. QED
    BY <2>1, <2>2
<1>2. QED
  BY <1>1, ModesSound, PTL DEF HonoursItsOrder, Spec

(* With the oldest shown first, the greedy FIFO policy starts the oldest   *)
(* of all jobs that some free server could start.                          *)
THEOREM GreedyFifoServesOldest == SortDescending => (Spec => FifoServesOldest)
<1> SUFFICES ASSUME SortDescending PROVE Spec => FifoServesOldest
  OBVIOUS
<1>1. ModeInv /\ ModeInv' /\ [Next]_vars => (~per_event => ByQueue!ServesOldest)
  <2> SUFFICES ASSUME ModeInv, ModeInv', StepOfMode, ~per_event PROVE ByQueue!ServesOldest
    BY ModeSteps
  <2>1. QED
    BY ByQueue!StartsOldest, ModesAssumption DEF ModeInv, StepOfMode
<1>2. QED
  BY <1>1, ModesSound, PTL DEF FifoServesOldest, Spec
=============================================================================
