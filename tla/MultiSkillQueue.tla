-------------------------- MODULE MultiSkillQueue --------------------------
(***************************************************************************)
(* What queue_mdp promises in either action mode: a multi-skill service    *)
(* system.  Jobs of several types wait in lines of which the oldest Depth  *)
(* positions are tracked; a free server of a pool that has the skill may   *)
(* start the head of a line, after which the line shows who comes next;    *)
(* servers finish.  No candidate queue, no labels, no counters, no rates   *)
(* and no turns: which start happens, if any, is up to the policy.         *)
(***************************************************************************)
EXTENDS QueueStatic

VARIABLES
  line,       \* line[n]: ages of the tracked jobs of type n, oldest first
  inService,  \* inService[k][n]: jobs of type n being served by pool k
  revealing   \* type whose head has just started, or None

abstractVars == <<line, inService, revealing>>

AbstractInit ==
  /\ line = [n \in Jobs |-> <<>>]
  /\ inService = [k \in Pools |-> [n \in Jobs |-> 0]]
  /\ revealing = None

Arrive(n) ==
  /\ revealing = None
  /\ Len(line[n]) < Depth
  /\ line' = [line EXCEPT ![n] = Append(@, 0)]
  /\ UNCHANGED <<inService, revealing>>

GrowOlder ==
  /\ revealing = None
  /\ line' = Aged(line)
  /\ UNCHANGED <<inService, revealing>>

Start(k, n) ==
  /\ revealing = None
  /\ line[n] # <<>>
  /\ n \in CanServe[k]
  /\ BusyIn(inService, k) < Servers[k]
  /\ inService' = [inService EXCEPT ![k][n] = @ + 1]
  /\ revealing' = n
  /\ UNCHANGED line

Reveal ==
  /\ revealing # None
  /\ line[revealing] # <<>>
  /\ \E bottom \in Bottoms(line[revealing]) :
       line' = [line EXCEPT ![revealing] = Revealed(@, bottom)]
  /\ revealing' = None
  /\ UNCHANGED inService

Finish(k, n) ==
  /\ revealing = None
  /\ inService[k][n] > 0
  /\ inService' = [inService EXCEPT ![k][n] = @ - 1]
  /\ UNCHANGED <<line, revealing>>

AbstractNext ==
  \/ \E n \in Jobs : Arrive(n)
  \/ GrowOlder
  \/ \E k \in Pools, n \in Jobs : Start(k, n) \/ Finish(k, n)
  \/ Reveal

AbstractSpec == AbstractInit /\ [][AbstractNext]_abstractVars
=============================================================================
