------------------------------ MODULE IoLayout ------------------------------
(***************************************************************************)
(* From the slots a device reports and a GSDML to the layout of the cyclic *)
(* frames.  The layout is computed twice: connect.rs tells it to the       *)
(* device in the Connect request (16-bit fields), rt.rs lays out the       *)
(* buffers that are sent and decoded (machine integers).  Nothing in the   *)
(* code compares the two.                                                  *)
(*                                                                         *)
(* A slot of the device is [slot, subslot, module, sub] (the two ident     *)
(* numbers), an IoSlot has input and output lengths in addition.           *)
(***************************************************************************)
EXTENDS Integers, Sequences, SequencesExt, FiniteSets, TLC

U16(n) == n % 65536

-----------------------------------------------------------------------------
(* gsdml.rs: a GSDML is [daps, modules, catalog]; a submodule is            *)
(* [id, sub, input, output], a module [id, module, submodules, useable]; a   *)
(* DAP has its system submodules [subslot, sub] in addition.  An entry of    *)
(* `useable` is [target, fixed]: what is useable and where it always sits.   *)

catalog_submodule(gsdml, id) == SelectSeq(gsdml.catalog, LAMBDA s : s.id = id)

(* The places a list of references fixes; the last one for a place counts. *)
fixed_places(refs) ==
  FoldLeft(LAMBDA acc, r : [p \in r.fixed |-> r.target] @@ acc, <<>>, refs)

fixed_slots(gsdml) == fixed_places(gsdml.daps[1].useable)

Ascending(S) == SetToSortSeq(S, LAMBDA a, b : a < b)

IoSlots == [slot : Nat, subslot : Nat, module : Nat, sub : Nat, input : Nat, output : Nat]
IoSlot(slot, subslot, m, s) ==
  [slot |-> slot, subslot |-> subslot, module |-> m.module, sub |-> s.sub,
   input |-> s.input, output |-> s.output]

(* A module without submodules of its own takes them from the catalog: the     *)
(* fixed ones, overridden by the caller's choice for this slot.                *)
add_useable_submodule_slots(gsdml, m, slot, chosen) ==
  LET resolved == chosen @@ fixed_places(m.useable)
      at(p) == LET found == catalog_submodule(gsdml, resolved[p])
               IN IF found = <<>> THEN <<>> ELSE <<IoSlot(slot, p, m, Head(found))>>
      places == Ascending(DOMAIN resolved)
  IN FlattenSeq([i \in DOMAIN places |-> at(places[i])])

(* The slots of a device with the modules of `assignment` plugged. *)
build_io_slots(gsdml, assignment, choice) ==
  LET dap == gsdml.daps[1]
      own(m, slot) == [i \in DOMAIN m.submodules |-> IoSlot(slot, i, m, m.submodules[i])]
      system == [i \in DOMAIN dap.system |->
                   IoSlot(0, dap.system[i].subslot, dap,
                          [sub |-> dap.system[i].sub, input |-> 0, output |-> 0])]
      chosen(slot) == IF slot \in DOMAIN choice THEN choice[slot] ELSE <<>>
      plugged(slot) ==
        LET ms == SelectSeq(gsdml.modules, LAMBDA m : m.id = assignment[slot])
        IN IF ms = <<>> THEN <<>>
           ELSE IF Head(ms).submodules # <<>> THEN own(Head(ms), slot)
           ELSE add_useable_submodule_slots(gsdml, Head(ms), slot,
                                            IF Head(ms).useable = <<>> THEN <<>> ELSE chosen(slot))
      numbers == Ascending(DOMAIN assignment)
  IN own(dap, 0) \o system \o FlattenSeq([i \in DOMAIN numbers |-> plugged(numbers[i])])

(* What build_io_slots_from_device enters in its table, in that order:         *)
(* <<module ident, submodule ident, input length, output length>>.             *)
registrations(gsdml) ==
  LET dap == gsdml.daps[1]
      entries(m, subs) ==
        [i \in DOMAIN subs |-> <<m.module, subs[i].sub, subs[i].input, subs[i].output>>]
      system == [i \in DOMAIN dap.system |-> <<dap.module, dap.system[i].sub, 0, 0>>]
      first(m, id) == LET found == catalog_submodule(gsdml, id)
                      IN IF found = <<>> THEN <<>> ELSE entries(m, <<Head(found)>>)
      of(m) == entries(m, m.submodules)
                 \o FlattenSeq([i \in DOMAIN m.useable |-> first(m, m.useable[i].target)])
  IN entries(dap, dap.submodules) \o system
       \o FlattenSeq([i \in DOMAIN gsdml.modules |-> of(gsdml.modules[i])])

(* The last entry for a pair of idents counts; an unknown pair has no IO data. *)
build_io_slots_from_device(gsdml, device_slots) ==
  LET table == registrations(gsdml)
      lengths(ds) ==
        LET hits == {i \in DOMAIN table : table[i][1] = ds.module /\ table[i][2] = ds.sub}
        IN IF hits = {} THEN <<0, 0>>
           ELSE LET last == CHOOSE i \in hits : \A k \in hits : k <= i
                IN <<table[last][3], table[last][4]>>
  IN [i \in DOMAIN device_slots |->
        [slot |-> device_slots[i].slot, subslot |-> device_slots[i].subslot,
         module |-> device_slots[i].module, sub |-> device_slots[i].sub,
         input |-> lengths(device_slots[i])[1], output |-> lengths(device_slots[i])[2]]]

apply_zero_io_exclusion(slots, exclude) ==
  IF exclude THEN SelectSeq(slots, LAMBDA s : s.input > 0 \/ s.output > 0) ELSE slots

-----------------------------------------------------------------------------
(* connect.rs: what the device is told *)

Length(s, direction) == IF direction = "input" THEN s.input ELSE s.output

(* The slots with data in a direction, and the other ones.  A list that a loop  *)
(* over the slots builds is a function here, from the places in the slot list   *)
(* of those that are in it.                                                     *)
WithData(slots, direction) == {i \in DOMAIN slots : Length(slots[i], direction) > 0}
Without(slots, direction)  == DOMAIN slots \ WithData(slots, direction)

(* An offset that starts at z and that iteration i moves by step[i]: its value  *)
(* after each iteration, and before the first.                                  *)
Moving(z, step) ==
  LET after[i \in 0 .. Len(step)] == IF i = 0 THEN z ELSE after[i - 1] + step[i]
  IN after

(* iocr_block_req: the data objects, then a consumer status byte for every     *)
(* other submodule.                                                            *)
iocr_block_req(direction, slots) ==
  LET n == Len(slots)
      has(i) == Length(slots[i], direction) > 0
      data == Moving(0, [i \in 1..n |-> IF has(i) THEN Length(slots[i], direction) + 1 ELSE 0])
      rest == Moving(data[n], [i \in 1..n |-> IF has(i) THEN 0 ELSE 1])
      object(i, off) == [slot |-> slots[i].slot, subslot |-> slots[i].subslot, offset |-> U16(off)]
  IN [objects |-> [i \in WithData(slots, direction) |-> object(i, data[i - 1])],
      iocs |-> [i \in Without(slots, direction) |-> object(i, rest[i - 1])],
      data_length |-> U16(IF rest[n] > 40 THEN rest[n] ELSE 40)]

(* expected_submodule_block: one entry per slot number, at the place where it   *)
(* is first seen, with the data descriptions of its submodules.                 *)
expected_submodule_block(slots) ==
  LET first == {i \in DOMAIN slots : \A k \in 1 .. i - 1 : slots[k].slot # slots[i].slot}
      descriptions(s) ==
        (IF s.input > 0 \/ s.output = 0 THEN {<<"input", U16(s.input)>>} ELSE {})
          \union (IF s.output > 0 THEN {<<"output", U16(s.output)>>} ELSE {})
  IN [i \in first |->
        [slot |-> slots[i].slot, module |-> slots[i].module,
         submodules |-> [k \in {k \in DOMAIN slots : slots[k].slot = slots[i].slot} |->
            [subslot |-> slots[k].subslot, sub |-> slots[k].sub, data |-> descriptions(slots[k])]]]]

(* build_connect_request: the blocks of the IO AR *)
build_connect_request(slots) ==
  [input |-> iocr_block_req("input", slots), output |-> iocr_block_req("output", slots),
   expected |-> expected_submodule_block(slots)]

-----------------------------------------------------------------------------
(* rt.rs: what the controller sends and decodes *)

(* An IoDataObject: the submodule, where its data is and how long, and where    *)
(* its status bytes are.  One without an IOCS has iocs = -1.                    *)
IoDataObject(s, off, len, iops, iocs) ==
  [slot |-> s.slot, subslot |-> s.subslot, frame_offset |-> off,
   data_length |-> len, iops |-> iops, iocs |-> iocs]

(* mutant: an input-only submodule gets no consumer status byte *)
build_iocr_configs_NoIocs(slots) ==
  LET n == Len(slots)
      config(direction) ==
        LET length(i) == Length(slots[i], direction)
            offset == Moving(0, [i \in 1..n |-> IF length(i) > 0 THEN length(i) + 1 ELSE 0])
        IN [data_length |-> IF offset[n] > 40 THEN offset[n] ELSE 40,
            objects |-> [i \in WithData(slots, direction) |->
              IoDataObject(slots[i], offset[i - 1], length(i), offset[i - 1] + length(i), -1)],
            status |-> <<>>]
  IN [input |-> config("input"), output |-> config("output")]

(* build_iocr_configs: the objects with data, and behind them in the output     *)
(* configuration those that are only an IOCS; the input one just leaves room    *)
(* for them.                                                                    *)
build_iocr_configs(slots) ==
  LET n == Len(slots)
      config(direction) ==
        LET length(i) == Length(slots[i], direction)
            offset == Moving(0, [i \in 1..n |-> IF length(i) > 0 THEN length(i) + 1 ELSE 0])
            behind == Moving(offset[n], [i \in 1..n |-> IF length(i) = 0 THEN 1 ELSE 0])
        IN [data_length |-> IF behind[n] > 40 THEN behind[n] ELSE 40,
            objects |-> [i \in WithData(slots, direction) |->
              IoDataObject(slots[i], offset[i - 1], length(i), offset[i - 1] + length(i), -1)],
            status |-> [i \in IF direction = "output" THEN Without(slots, direction) ELSE {} |->
              IoDataObject(slots[i], behind[i - 1], 0, 0, behind[i - 1])]]
  IN [input |-> config("input"), output |-> config("output")]

-----------------------------------------------------------------------------
(* The bytes an object occupies *)
Window(o) ==
  (o.frame_offset .. o.frame_offset + o.data_length - 1)
    \union (IF o.data_length > 0 THEN {o.iops} ELSE {})
    \union (IF o.iocs >= 0 THEN {o.iocs} ELSE {})

(* The image fits the 16-bit fields of the Connect request. *)
Fits(used) == \A c \in {"input", "output"} : used[c].data_length < 65536

Placed(os) == [i \in DOMAIN os |->
  [slot |-> os[i].slot, subslot |-> os[i].subslot, offset |-> os[i].frame_offset]]

(* The frames the controller lays out are the ones the device was told of: the *)
(* same objects at the same places in a C_SDU of the same length, with the     *)
(* lengths of the expected configuration.                                      *)
SameFrames(told, used) ==
  /\ \A c \in {"input", "output"} :
       /\ told[c].data_length = used[c].data_length
       /\ told[c].objects = Placed(used[c].objects)
       /\ \A o \in Range(used[c].objects) :
            \E e \in Range(told.expected) : \E s \in Range(e.submodules) :
              /\ e.slot = o.slot /\ s.subslot = o.subslot
              /\ <<c, o.data_length>> \in s.data
  /\ told.output.iocs = Placed(used.output.status)

(* Within a frame no two objects share a byte and none lies outside it: a      *)
(* write to one submodule reaches no other one's data or status.               *)
Apart(os, ps, config) ==
  \A i \in DOMAIN os, k \in DOMAIN ps :
    /\ Window(os[i]) \subseteq 0 .. config.data_length - 1
    /\ (i # k \/ os[i] # ps[k]) => Window(os[i]) \intersect Window(ps[k]) = {}
Separate(config) ==
  /\ Apart(config.objects, config.objects, config)
  /\ Apart(config.objects, config.status, config)
  /\ Apart(config.status, config.status, config)
=============================================================================
