-------------------------------- MODULE MCRDT --------------------------------
(* Machines with up to four logical CPUs for Startup and RDT.               *)
EXTENDS RDT

MCCPUs == 0 .. 3

At(package, die, core, thread) ==
  [package |-> package, die |-> die, core |-> core, thread |-> thread]

\* placements of the four CPUs; Linux numbers the second threads last
TwoPackages == [c \in MCCPUs |-> At(3 * (c % 2), 0, 0, c \div 2)]
TwoCores == [c \in MCCPUs |-> At(0, 0, c % 2, c \div 2)]
TwoDies == [c \in MCCPUs |-> At(0, c \div 2, c % 2, 0)]
NoSMT == [c \in MCCPUs |-> At(1 + c \div 2, 0, c % 2, 0)]

Layout(leaf1F, smt, die, l2) ==
  [leaf1F |-> leaf1F, smt |-> smt, core |-> 1, die |-> die, l2 |-> l2, coreReported |-> TRUE]

MCLayouts == {Layout(f, 1, d, l2) : f \in BOOLEAN, d \in {0, 1}, l2 \in {1, 2}}
             \cup {Layout(FALSE, 0, 1, 1)}

Fits(place, w) ==
  \A c \in MCCPUs : place[c].thread < 2^w.smt /\ place[c].die < 2^w.die

Machine(model, stepping, place, layout, listed, allowed, mbm, resctrl, vpmu) ==
  [model |-> model, stepping |-> stepping, place |-> place, layout |-> layout, listed |-> listed,
   allowed |-> allowed, mbm |-> mbm, resctrl |-> resctrl, vpmu |-> vpmu]

\* every model on one machine; every placement and layout with all, some or few CPUs online; and
\* the monitoring counters on machines with two online cores
MCMachines ==
  {Machine(m, s, TwoCores, Layout(TRUE, 1, 0, 1), MCCPUs, MCCPUs, FALSE, FALSE, v) :
     m \in SupportedCPUModels \cup {OtherModel}, s \in {4, 6, 11}, v \in BOOLEAN}
  \cup {Machine("SPR", 8, pl[1], pl[2], l, a, FALSE, r, TRUE) :
          pl \in {x \in {TwoPackages, TwoCores, TwoDies, NoSMT} \X MCLayouts : Fits(x[1], x[2])},
          l \in {MCCPUs, {0, 1, 2}, {0, 2, 3}}, a \in {MCCPUs, {2, 3}}, r \in BOOLEAN}
  \cup {Machine("ICX", 6, TwoDies, Layout(TRUE, 1, 1, 1), {0, 1}, MCCPUs, TRUE, FALSE, TRUE)}

\* core 1 is offline
MCOffline ==
  {Machine("ICX", 6, TwoDies, Layout(TRUE, 1, 1, 1), {0, 2, 3}, MCCPUs, TRUE, FALSE, TRUE)}
=============================================================================
