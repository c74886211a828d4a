----------------------------- MODULE MCTakeover -----------------------------
(* Takeover for TLC: a device with a DAP and up to three submodules, and      *)
(* GSDMLs that give them no data, inputs, outputs, both, or more than the     *)
(* 16-bit fields of a Connect can say.                                        *)
EXTENDS Takeover

At(slot, subslot, module, sub) ==
  [slot |-> slot, subslot |-> subslot, module |-> module, sub |-> sub]

MCTopologies ==
  LET dap == At(0, 1, 1, 1) a == At(1, 1, 2, 1) b == At(1, 2, 2, 2)
      c == At(2, 1, 3, 1) unknown == At(3, 1, 9, 9)
  IN {<<dap, a, c>>, <<c, a, unknown, b>>}

Lengths == {<<0, 0>>, <<2, 0>>, <<0, 1>>, <<40, 3>>}

MCGsdmls ==
  LET sub(id, ident, l) == [id |-> id, sub |-> ident, input |-> l[1], output |-> l[2]]
      gsdml(a, b, c) ==
        [daps |-> <<[module |-> 1, submodules |-> <<sub("d", 1, <<0, 0>>)>>,
                     system |-> <<[subslot |-> 32769, sub |-> 2]>>,
                     useable |-> <<[target |-> "AB", fixed |-> {1}], [target |-> "C", fixed |-> {2}],
                                   [target |-> "gone", fixed |-> {4}]>>]>>,
         modules |-> <<[id |-> "AB", module |-> 2, useable |-> <<>>,
                        submodules |-> <<sub("a", 1, a), sub("b", 2, b)>>],
                       [id |-> "C", module |-> 3, submodules |-> <<>>,
                        useable |-> <<[target |-> "c", fixed |-> {1}],
                                      [target |-> "gone", fixed |-> {5}]>>]>>,
         catalog |-> <<sub("c", 1, c)>>]
  IN {gsdml(a, b, c) : a, b, c \in Lengths} \union {gsdml(<<2, 65535>>, <<0, 1>>, <<0, 1>>)}

(* nothing else, or a second submodule in slot 2 *)
MCFittings == {<<>>, 2 :> (2 :> "c")}
=============================================================================
