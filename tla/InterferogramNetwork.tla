------------------------- MODULE InterferogramNetwork -------------------------
(***************************************************************************)
(* The interferogram network (dolphin-timeseries network.rs, with network() of *)
(* displacement.rs) and its loops (loop_closure.rs, loop_correction.rs), as      *)
(* constant operators.  Dates are numbered from 0; an interferogram is the pair *)
(* of its dates, a loop the triple of its.                                  *)
(***************************************************************************)
EXTENDS Integers, Sequences, FiniteSets, FiniteSetsExt

CONSTANT Unset  \* a mode that is not configured

AllPairs(days) == {p \in (0 .. Len(days) - 1) \X (0 .. Len(days) - 1) : p[1] < p[2]}
Baseline(days, p) == days[p[2] + 1] - days[p[1] + 1]

(* build_network: every mode that is set contributes.  net is [reference,       *)
(* bandwidth, baseline, indexes].                                           *)
BuildNetwork(days, net) ==
  LET single == {<< Min({d, net.reference}), Max({d, net.reference}) >> :
                   d \in (0 .. Len(days) - 1) \ {net.reference}}
  IN  (IF net.reference = Unset THEN {} ELSE single)
        \cup {p \in AllPairs(days) :
                \/ net.bandwidth # Unset /\ p[2] - p[1] <= net.bandwidth
                \/ net.baseline # Unset /\ Baseline(days, p) <= net.baseline}
        \cup (IF net.indexes = Unset THEN {} ELSE net.indexes)

(* network: nothing configured is single-reference on the first date.         *)
Network(days, net) ==
  LET unconfigured == \A mode \in DOMAIN net : net[mode] = Unset
  IN  BuildNetwork(days, IF unconfigured THEN [net EXCEPT !.reference = 0] ELSE net)

(* The order a network is kept in.                                           *)
InOrder(pairs) ==
  LET before(p) == {q \in pairs : q[1] < p[1] \/ (q[1] = p[1] /\ q[2] < p[2])}
  IN  [k \in 1 .. Cardinality(pairs) |-> CHOOSE p \in pairs : Cardinality(before(p)) = k - 1]

Early(t) == << t[1], t[2] >>
Late(t) == << t[2], t[3] >>
Spanning(t) == << t[1], t[3] >>

(* network_triplets                                                         *)
Triangles(pairs) ==
  {t \in {<< p[1], p[2], q[2] >> : p \in pairs, q \in pairs} :
     {Early(t), Late(t), Spanning(t)} \subseteq pairs}

(* The order of network_triplets: by pairs, which are sorted.                  *)
Before(t, u) ==
  \/ t[1] < u[1]
  \/ t[1] = u[1] /\ t[2] < u[2]
  \/ t[1] = u[1] /\ t[2] = u[2] /\ t[3] < u[3]

Nodes(pairs) == 0 .. Max({p[2] : p \in pairs})

(* The triangle under a pair that is not sequential.                          *)
Fan(p) == << p[1], p[2] - 1, p[2] >>

(* A bug: the triangle above the pair looked for.                              *)
HasFan_Above(pairs) ==
  /\ \A d \in Nodes(pairs) \ {0} : << d - 1, d >> \in pairs
  /\ \A p \in pairs : p[2] > p[1] + 1 => << p[1], p[2] + 1 >> \in pairs

(* FanBasis::new: no sequential pair is missing, and no fan triangle.          *)
HasFan(pairs) ==
  /\ \A d \in Nodes(pairs) \ {0} : << d - 1, d >> \in pairs
  /\ \A p \in pairs : p[2] > p[1] + 1 => Early(Fan(p)) \in pairs

(* FanBasis::particular: zero on sequential pairs, and up the fan what closes    *)
(* each triangle.                                                           *)
Particular(pairs, misclosure) ==
  LET cycles[p \in pairs] ==
        IF p[2] = p[1] + 1 THEN 0
        ELSE cycles[Early(Fan(p))] + cycles[Late(Fan(p))] + misclosure[Fan(p)]
  IN  cycles

Misses(cycles, t) == cycles[Early(t)] + cycles[Late(t)] - cycles[Spanning(t)]

(* closes_every_loop                                                        *)
ClosesEveryLoop(cycles, misclosure) ==
  \A t \in DOMAIN misclosure : Misses(cycles, t) + misclosure[t] = 0
===============================================================================
