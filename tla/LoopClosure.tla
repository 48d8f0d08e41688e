----------------------------- MODULE LoopClosure -----------------------------
(***************************************************************************)
(* Loop closure after unwrapping (dolphin-timeseries loop_correction.rs and     *)
(* loop_closure.rs; apply_loop_closure_qc in displacement.rs).  Whole-cycle      *)
(* errors are first repaired pixel by pixel, where the smallest repair is        *)
(* unique: a min-cost circulation is solved by cancelling negative cycles and    *)
(* the repair is read off its potentials.  Then a gate closes every loop again   *)
(* and blanks the pixels that fail.                                         *)
(*                                                                         *)
(* Phases are in quarters of a cycle.                                        *)
(***************************************************************************)
EXTENDS InterferogramNetwork, SequencesExt

CONSTANTS
  Runs,           \* [days, net, gate, correct, stack]
  MinRootPixels,  \* fewest residuals a root is taken from (16)
  Reach           \* as in SmallestCorrection

Cycle == 4

(* Options that are not set are None; the others are indices, and pairs of them.     *)
ASSUME UnsetAssumption == Unset \notin Int
ASSUME ReachAssumption == Reach \in Nat
ASSUME RootAssumption == MinRootPixels \in Nat \ {0}

Index(i) == i = Unset \/ i \in Nat

(* A run: the dates of a "date-sorted SLC stack", the modes of a network of        *)
(* "(early, later) index pairs", and a stack of what was unwrapped.             *)
IsMode(net) ==
  /\ net = [reference |-> net.reference, bandwidth |-> net.bandwidth,
            baseline |-> net.baseline, indexes |-> net.indexes]
  /\ Index(net.reference) /\ Index(net.bandwidth)
  /\ net.baseline = Unset \/ net.baseline \in Int
  /\ net.indexes = Unset \/ /\ IsFiniteSet(net.indexes)
                            /\ \A p \in net.indexes : p \in Nat \X Nat /\ p[1] < p[2]

IsPixel(network, pixel) ==
  /\ pixel = [phase |-> pixel.phase, missing |-> pixel.missing, label |-> pixel.label]
  /\ pixel.phase \in [network -> Int]
  /\ pixel.missing \subseteq network
  /\ pixel.label \in [network -> Nat]

(* correct_unwrap_loop_errors is refused without mask_unwrap_loop_errors.        *)
ASSUME RunsAssumption ==
  \A r \in Runs :
    /\ r.days \in Seq(Int) /\ \A i, j \in DOMAIN r.days : i < j => r.days[i] <= r.days[j]
    /\ IsMode(r.net)
    /\ r.stack = [i \in 1 .. Len(r.stack) |-> r.stack[i]] /\ Len(r.stack) \in Nat
    /\ \A i \in 1 .. Len(r.stack) : IsPixel(Network(r.days, r.net), r.stack[i])
    /\ r.correct => r.gate

VARIABLES
  run,      \* what the run is given
  stage,
  pairs,    \* the interferograms
  stack,    \* per pixel, [phase, missing, label]: quarter cycles, the pairs that
            \* are NaN, and the unwrap component, of each pair
  outcomes, \* of the pixels decided: [status, cycles]
  costs,    \* particular: a correction that closes the loops of the pixel in hand
  flow,     \* and a unit flow per pair, while it is being made the smallest
  qc        \* per pixel, [bad, judged, withheld], once the gate has run

vars == << run, stage, pairs, stack, outcomes, costs, flow, qc >>
-------------------------------------------------------------------------------
(* Residuals and their roots                                                *)

Members(t) == {Early(t), Late(t), Spanning(t)}

(* component_key: no key with an unlabelled member.                           *)
Labelled(pixel, t) == \A p \in Members(t) : pixel.label[p] # 0
SameKey(pixel, other, t) == \A p \in Members(t) : pixel.label[p] = other.label[p]

Finite(pixel, t) == Members(t) \cap pixel.missing = {}
Residual(pixel, t) == Misses(pixel.phase, t)

(* f64::round: halves away from zero.                                        *)
Rounded(quarters) ==
  IF quarters < 0 THEN -((-quarters + Cycle \div 2) \div Cycle)
  ELSE (quarters + Cycle \div 2) \div Cycle

(* The pixels whose residuals share a root with a pixel's.                     *)
Sharing(frame, pixel, t) ==
  {i \in DOMAIN frame : SameKey(frame[i], pixel, t) /\ Finite(frame[i], t)}

(* rounded_median_cycles, the upper median: half of the residuals come before it.  *)
Root(frame, pixel, t) ==
  LET sharing == Sharing(frame, pixel, t)
      below(i) == {j \in sharing :
                     \/ Residual(frame[j], t) < Residual(frame[i], t)
                     \/ Residual(frame[j], t) = Residual(frame[i], t) /\ j < i}
      median == CHOOSE i \in sharing : Cardinality(below(i)) = Cardinality(sharing) \div 2
  IN  Cycle * Rounded(Residual(frame[median], t))

(* triangle_roots: what became of a loop's root at a pixel.                    *)
Rooted(frame, pixel, t) ==
  Labelled(pixel, t) /\ Cardinality(Sharing(frame, pixel, t)) >= MinRootPixels
Withheld(frame, pixel, t) ==
  Labelled(pixel, t) /\ Cardinality(Sharing(frame, pixel, t)) \in 1 .. MinRootPixels - 1

Evaluable(frame, pixel, t) == Rooted(frame, pixel, t) /\ Finite(pixel, t)
Off(frame, pixel, t) == Residual(pixel, t) - Root(frame, pixel, t)

Magnitude(n) == IF n < 0 THEN -n ELSE n

(* loop_misclosure: why a loop has none; MAX_CORRECTION_FRACTION_CYCLES is a      *)
(* quarter.                                                                 *)
WhyNone(frame, pixel, t) ==
  IF ~Evaluable(frame, pixel, t) THEN "unevaluable"
  ELSE LET off == Off(frame, pixel, t)
       IN  IF Magnitude(off - Cycle * Rounded(off)) > 1 THEN "non-integer" ELSE "none"

(* correct_pixel (misclosure): the first loop with an error gives the status.    *)
Problem(network, frame, pixel) ==
  LET loops == Triangles(network)
      failing == {t \in loops : WhyNone(frame, pixel, t) # "none"}
      first == CHOOSE t \in failing : \A u \in failing \ {t} : Before(t, u)
  IN  IF failing # {} THEN [error |-> WhyNone(frame, pixel, first), misclosure |-> << >>]
      ELSE [error |-> "none",
            misclosure |-> [t \in loops |-> Rounded(Off(frame, pixel, t))]]
-------------------------------------------------------------------------------
(* The circulation                                                          *)

(* A bug: one unit too many.                                                *)
HasRoom_OneMore(arc) == flow[arc.pair] + arc.push \in -2 .. 2

HasRoom(arc) == flow[arc.pair] + arc.push \in -1 .. 1

(* residual_arcs, in their order.                                            *)
ResidualArcs ==
  LET arc(p, from, to, push) ==
        [from |-> from, to |-> to, cost |-> -push * costs[p], pair |-> p, push |-> push]
      room(a) == IF HasRoom(a) THEN << a >> ELSE << >>
      both(p) == room(arc(p, p[1], p[2], 1)) \o room(arc(p, p[2], p[1], -1))
      sorted == InOrder(pairs)
  IN  FlattenSeq([i \in DOMAIN sorted |-> both(sorted[i])])

Shorter(distance, arc) == distance[arc.from] + arc.cost < distance[arc.to]
Via(distance, arc) == [distance EXCEPT ![arc.to] = distance[arc.from] + arc.cost]

(* A pass of negative_cycle looks at one arc after another.                     *)
Relax(s, arc) ==
  IF Shorter(s.distance, arc)
  THEN [distance |-> Via(s.distance, arc), via |-> [s.via EXCEPT ![arc.to] = arc],
        last |-> arc.to]
  ELSE s

Pass(s, arcs) ==
  LET after[i \in 0 .. Len(arcs)] ==
        IF i = 0 THEN [s EXCEPT !.last = Unset] ELSE Relax(after[i - 1], arcs[i])
  IN  after[Len(arcs)]

(* Bellman-Ford from a virtual source, as many passes as nodes.                  *)
Search(nodes, arcs) ==
  LET passes[k \in 0 .. Cardinality(nodes)] ==
        IF k = 0
        THEN [distance |-> [n \in nodes |-> 0], via |-> [n \in nodes |-> Unset], last |-> Unset]
        ELSE Pass(passes[k - 1], arcs)
  IN  passes[Cardinality(nodes)]

(* negative_cycle: what the last pass still relaxes is led to by a cycle, which is   *)
(* as many steps back as there are nodes.  The arcs of the cycle, or none.        *)
NegativeCycle(nodes, arcs) ==
  LET size == Cardinality(nodes)
      end == Search(nodes, arcs)
      back[k \in 0 .. 2 * size] == IF k = 0 THEN end.last ELSE end.via[back[k - 1]].from
  IN  IF end.last = Unset THEN {} ELSE {end.via[back[k]] : k \in size .. 2 * size - 1}

(* A pass of shortest_distances.                                              *)
Extend(distance, arc) ==
  IF distance[arc.from] # Unset /\ (distance[arc.to] = Unset \/ Shorter(distance, arc))
  THEN Via(distance, arc) ELSE distance

Extended(distance, arcs) ==
  LET after[i \in 0 .. Len(arcs)] == IF i = 0 THEN distance ELSE Extend(after[i - 1], arcs[i])
  IN  after[Len(arcs)]

(* shortest_distances from the first date, or to it over turned arcs.           *)
Distances(nodes, arcs) ==
  LET passes[k \in 0 .. Cardinality(nodes) - 1] ==
        IF k = 0 THEN [n \in nodes |-> IF n = 0 THEN 0 ELSE Unset]
        ELSE Extended(passes[k - 1], arcs)
  IN  passes[Cardinality(nodes) - 1]

Turned(arcs) ==
  [i \in DOMAIN arcs |-> [arcs[i] EXCEPT !.from = arcs[i].to, !.to = arcs[i].from]]

(* A bug: any of several optima taken.                                        *)
BoundsMeet_Assumed(nodes, arcs) == TRUE

(* unique_optimal_potentials (the end): the distances bound the potentials from   *)
(* both sides.                                                              *)
BoundsMeet(nodes, arcs) ==
  LET upper == Distances(nodes, arcs)
      lower == Distances(nodes, Turned(arcs))
  IN  \A n \in nodes : upper[n] # Unset /\ lower[n] # Unset /\ upper[n] + lower[n] = 0
-------------------------------------------------------------------------------
(* A run                                                                    *)

Pixel == Len(outcomes) + 1
Pixels == DOMAIN stack
Still == [p \in pairs |-> 0]
Solving == flow # Unset

Init ==
  /\ run \in Runs
  /\ stage = "unwrapped"
  /\ pairs = {}
  /\ stack = run.stack
  /\ outcomes = << >>
  /\ costs = Unset
  /\ flow = Unset
  /\ qc = Unset

(* finish_displacement, up to the pairs; check_correction_network.             *)
MakeNetwork ==
  LET made == Network(run.days, run.net)
      supported == made # {} /\ (run.correct => HasFan(made))
  IN  /\ stage = "unwrapped"
      /\ pairs' = made
      /\ stage' = IF ~supported THEN "refused"
                  ELSE IF ~run.gate \/ Triangles(made) = {} THEN "done"
                  ELSE IF run.correct THEN "correcting" ELSE "corrected"
      /\ UNCHANGED << run, stack, outcomes, costs, flow, qc >>

Judging == stage = "correcting" /\ Pixel \in Pixels

Settled(status, cycles) ==
  /\ outcomes' = Append(outcomes, [status |-> status, cycles |-> cycles])
  /\ costs' = Unset
  /\ flow' = Unset
  /\ UNCHANGED << run, stage, pairs, stack, qc >>

(* correct_pixel: most pixels need not be solved.                             *)
CorrectPixel ==
  /\ Judging /\ ~Solving
  /\ \E problem \in {Problem(pairs, stack, stack[Pixel])} :
       \/ problem.error # "none" /\ Settled(problem.error, Still)
       \/ /\ problem.error = "none"
          /\ \A t \in DOMAIN problem.misclosure : problem.misclosure[t] = 0
          /\ Settled("closed", Still)
       \/ /\ problem.error = "none"
          /\ \E t \in DOMAIN problem.misclosure : problem.misclosure[t] # 0
          /\ \E particular \in {Particular(pairs, problem.misclosure)} :
               \/ /\ ~ClosesEveryLoop(particular, problem.misclosure)
                  /\ Settled("inconsistent", Still)
               \/ /\ ClosesEveryLoop(particular, problem.misclosure)
                  /\ costs' = particular
                  /\ flow' = Still
                  /\ UNCHANGED << run, stage, pairs, stack, outcomes, qc >>

(* What a cycle adds to the flow of a pair.                                    *)
Pushed(cycle, p) ==
  SumFunctionOnSet([a \in cycle |-> a.push], {a \in cycle : a.pair = p})

(* One turn of the loop of unique_optimal_potentials.                          *)
Cancel ==
  /\ Judging /\ Solving
  /\ \E arcs \in {ResidualArcs} : \E cycle \in {NegativeCycle(Nodes(pairs), arcs)} :
       /\ cycle # {}
       /\ flow' = [p \in pairs |-> flow[p] + Pushed(cycle, p)]
  /\ UNCHANGED << run, stage, pairs, stack, outcomes, costs, qc >>

(* minimal_correction                                                       *)
ReadPotentials ==
  /\ Judging /\ Solving
  /\ \E arcs \in {ResidualArcs} : \E potentials \in {Distances(Nodes(pairs), arcs)} :
       /\ NegativeCycle(Nodes(pairs), arcs) = {}
       /\ \/ ~BoundsMeet(Nodes(pairs), arcs) /\ Settled("ambiguous", Still)
          \/ /\ BoundsMeet(Nodes(pairs), arcs)
             /\ Settled("corrected",
                        [p \in pairs |-> costs[p] + potentials[p[2]] - potentials[p[1]]])

(* A bug: the cycles taken away instead of added.                              *)
Repaired_Subtracted(pixel, cycles) ==
  [pixel EXCEPT !.phase = [p \in DOMAIN @ |-> @[p] - Cycle * cycles[p]]]

Repaired(pixel, cycles) ==
  [pixel EXCEPT !.phase = [p \in DOMAIN @ |-> @[p] + Cycle * cycles[p]]]

(* correct_loop_closure_errors: no pixel changes before all are decided.         *)
ApplyCorrections ==
  /\ stage = "correcting" /\ Pixel \notin Pixels
  /\ stack' = [i \in Pixels |-> Repaired(stack[i], outcomes[i].cycles)]
  /\ stage' = "corrected"
  /\ UNCHANGED << run, pairs, outcomes, costs, flow, qc >>

(* loop_closure_qc and pixel_loop_stats, with a tolerance of half a cycle.       *)
Verdicts(frame) ==
  [i \in DOMAIN frame |->
     LET judged == {t \in Triangles(pairs) : Evaluable(frame, frame[i], t)}
     IN  [judged |-> judged,
          bad |-> {t \in judged : Magnitude(Off(frame, frame[i], t)) > Cycle \div 2},
          withheld |-> \E t \in Triangles(pairs) : Withheld(frame, frame[i], t)]]

(* mask_failed_loops: every interferogram is blanked, at the pixels that fail.    *)
Gate ==
  LET verdicts == Verdicts(stack)
  IN  /\ stage = "corrected"
      /\ qc' = verdicts
      /\ stack' = [i \in Pixels |-> IF verdicts[i].bad = {} THEN stack[i]
                                    ELSE [stack[i] EXCEPT !.missing = pairs]]
      /\ stage' = "done"
      /\ UNCHANGED << run, pairs, outcomes, costs, flow >>

Next ==
  \/ MakeNetwork \/ CorrectPixel \/ Cancel \/ ReadPotentials
  \/ ApplyCorrections \/ Gate

Spec == Init /\ [][Next]_vars
-------------------------------------------------------------------------------
(* Properties                                                               *)

(* Each pixel gets the smallest correction that closes every loop if there is one *)
(* only, and is left alone otherwise, with the reason: the cancelling of cycles  *)
(* finds the optimum, and the potentials tell a tie ("The method never picks     *)
(* among equally good answers").                                             *)
Promise == INSTANCE SmallestCorrection WITH
  problems <- [i \in DOMAIN run.stack |-> Problem(pairs, run.stack, run.stack[i])]

NeverGuesses == Promise!Spec

(* A correction does not move the gate: a pixel that was left alone is judged as   *)
(* it would be had no other been corrected ("exactly as it would without the     *)
(* correction"), though its roots are medians of corrected pixels; a corrected   *)
(* one closes every loop; and only pixels with a bad loop are blanked.          *)
JudgedAsWithout ==
  qc # Unset =>
    /\ \A i \in DOMAIN outcomes :
         IF outcomes[i].status = "corrected"
         THEN qc[i].bad = {} /\ qc[i].judged = Triangles(pairs)
         ELSE qc[i] = Verdicts(run.stack)[i]
    /\ \A i \in Pixels :
         stack[i].missing = IF qc[i].bad = {} THEN run.stack[i].missing ELSE pairs

(* "a fan of triangles ... which every bandwidth or temporal-baseline network      *)
(* contains": such a network is refused only when it is empty or has a gap.      *)
FanNetworksAccepted ==
  (stage = "refused" /\ run.net.reference = Unset /\ run.net.indexes = Unset) =>
    \/ pairs = {}
    \/ \E d \in Nodes(pairs) \ {0} : << d - 1, d >> \notin pairs

(* Every cancelled cycle makes the flow cheaper by a whole unit and leaves it a     *)
(* circulation of at most one unit per pair, so the cancelling ends, whatever     *)
(* cycle is found.                                                          *)
CancellingPays ==
  [][(flow # Unset /\ flow' # Unset) =>
       /\ SumFunction([p \in pairs |-> costs[p] * flow'[p]])
            > SumFunction([p \in pairs |-> costs[p] * flow[p]])
       /\ \A p \in pairs : flow'[p] \in -1 .. 1
       /\ \A n \in Nodes(pairs) :
            SumFunctionOnSet(flow', {p \in pairs : p[1] = n})
              = SumFunctionOnSet(flow', {p \in pairs : p[2] = n})]_flow
===============================================================================
