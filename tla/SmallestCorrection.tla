-------------------------- MODULE SmallestCorrection --------------------------
(***************************************************************************)
(* What the integer-cycle correction promises of each pixel (loop_correction.rs, *)
(* its module comment): the whole cycles added to each interferogram that close *)
(* every loop with the fewest cycles, if there is exactly one way, and nothing   *)
(* otherwise.  It says nothing of how they are found.                         *)
(***************************************************************************)
EXTENDS InterferogramNetwork

CONSTANT Reach  \* no smallest correction of the instances adds more cycles to a pair

VARIABLES
  pairs,     \* the network
  problems,  \* per pixel, its misclosures in whole cycles, or why it has none
  outcomes   \* of the pixels decided so far: [status, cycles]

Size(cycles) == MapThenSumSet(LAMBDA p : IF cycles[p] < 0 THEN -cycles[p] ELSE cycles[p],
                              DOMAIN cycles)

Corrections(misclosure) ==
  {cycles \in [pairs -> -Reach .. Reach] : ClosesEveryLoop(cycles, misclosure)}

Smallest(corrections) ==
  LET least == Min({Size(cycles) : cycles \in corrections})
  IN  {cycles \in corrections : Size(cycles) = least}

LeftAlone(status) == [status |-> status, cycles |-> [p \in pairs |-> 0]]

Promised(problem) ==
  LET corrections == Corrections(problem.misclosure)
      smallest == Smallest(corrections)
  IN  IF problem.error # "none" THEN LeftAlone(problem.error)
      ELSE IF \A t \in DOMAIN problem.misclosure : problem.misclosure[t] = 0
           THEN LeftAlone("closed")
      ELSE IF corrections = {} THEN LeftAlone("inconsistent")
      ELSE IF Cardinality(smallest) > 1 THEN LeftAlone("ambiguous")
      ELSE [status |-> "corrected", cycles |-> CHOOSE cycles \in smallest : TRUE]

Init == outcomes = << >>

Decide ==
  /\ Len(outcomes) < Len(problems)
  /\ Len(outcomes') = Len(outcomes) + 1
  /\ \E problem \in {problems[Len(outcomes) + 1]} :
       outcomes' = Append(outcomes, Promised(problem))

Spec == Init /\ [][Decide]_outcomes
===============================================================================
