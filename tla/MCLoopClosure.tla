---------------------------- MODULE MCLoopClosure ----------------------------
(* Instances of LoopClosure: networks of three to five dates, three pixels.      *)
EXTENDS LoopClosure, TLC

Mode(reference, bandwidth, baseline, indexes) ==
  [reference |-> reference, bandwidth |-> bandwidth, baseline |-> baseline,
   indexes |-> indexes]
Near(bandwidth) == Mode(Unset, bandwidth, Unset, Unset)

Run(days, net, gate, correct, frame) ==
  [days |-> days, net |-> net, gate |-> gate, correct |-> correct, stack |-> frame]

Three == << 0, 12, 24 >>
Four == << 0, 12, 24, 36 >>
Five == << 0, 12, 24, 36, 48 >>
Gapped == << 0, 12, 60, 72 >>

(* A pixel with whole-cycle errors, or with quarters of one.                   *)
Phases(network, cycles) ==
  [phase |-> [p \in network |-> IF p \in DOMAIN cycles THEN cycles[p] ELSE 0],
   missing |-> {}, label |-> [p \in network |-> 1]]
Clean(network) == Phases(network, << >>)
Shifted(network, p, quarters) == Phases(network, p :> quarters)

(* Every misclosure of up to so many cycles, at one pixel beside two clean ones:    *)
(* errors in sequential pairs would only shift the dates.                      *)
Planted(days, bandwidth, most) ==
  LET network == Network(days, Near(bandwidth))
      wide == {p \in network : p[2] > p[1] + 1}
  IN  {Run(days, Near(bandwidth), TRUE, TRUE,
           << Clean(network), Clean(network), Phases(network, errors) >>) :
         errors \in [wide -> {Cycle * n : n \in -most .. most}]}

(* Three pixels that disagree, are noisy, partly missing, unlabelled, or in        *)
(* another component.                                                       *)
Mixed(days, bandwidth, chosen) ==
  LET network == Network(days, Near(bandwidth))
      clean == Clean(network)
      kinds == << clean,
                  Shifted(network, << 1, 2 >>, Cycle), Shifted(network, << 2, 3 >>, -Cycle),
                  Shifted(network, << 0, 1 >>, Cycle), Shifted(network, << 1, 2 >>, 1),
                  Shifted(network, << 1, 2 >>, 2), Shifted(network, << 1, 2 >>, 3),
                  Shifted(network, << 1, 3 >>, -2), Shifted(network, << 1, 3 >>, -3),
                  [clean EXCEPT !.missing = {<< 0, 2 >>}],
                  [clean EXCEPT !.label[<< 1, 2 >>] = 0],
                  [Shifted(network, << 1, 2 >>, Cycle) EXCEPT !.label[<< 1, 2 >>] = 2] >>
  IN  {Run(days, Near(bandwidth), TRUE, correct, << kinds[i], kinds[j], kinds[k] >>) :
         correct \in BOOLEAN, << i, j, k >> \in
           {c \in chosen \X chosen \X chosen : c[1] <= c[2] /\ c[2] <= c[3]}}

(* Networks that are empty, without loops, with a gap, or without a fan.          *)
Networks ==
  {Run(days, net, TRUE, correct, << Clean(Network(days, net)) >>) :
     correct \in BOOLEAN, days \in {Three, Four, Five, Gapped},
     net \in {Mode(r, b, t, x) : r \in {Unset, 0, 1, 2}, b \in {Unset, 0, 1, 2},
                                 t \in {Unset, 12, 24, 48, 60}, x \in {Unset, {<< 0, 2 >>}}}}

AllRuns ==
  Planted(Four, 2, 2) \cup Planted(Five, 2, 2) \cup Planted(Four, 3, 1)
    \cup Mixed(Four, 2, 1 .. 12) \cup Mixed(Four, 3, 1 .. 12) \cup Networks
    \cup {Run(Four, Near(2), FALSE, FALSE, << Clean(Network(Four, Near(2))) >>)}
===============================================================================
