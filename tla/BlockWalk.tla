----------------------------- MODULE BlockWalk -----------------------------
(***************************************************************************)
(* The loops that walk the blocks of a received PDU: DCP responses         *)
(* (dcp.rs), connect responses and records (transport.rs, im.rs,           *)
(* blocks.rs), alarms (alarms.rs), diagnosis (diagnosis.rs) and endpoint   *)
(* mapper replies (epm.rs).  None of them can trust a length or a count    *)
(* that it reads.                                                          *)
(*                                                                         *)
(* A PDU is the sequence of units its sender encoded, each with the bytes  *)
(* it really occupies and the length or count it declares; `len` of its    *)
(* bytes arrived.  A walker that lands on a unit's first byte reads that   *)
(* unit, one that lands anywhere else reads garbage.  One step is one      *)
(* iteration of the loop.                                                  *)
(***************************************************************************)
EXTENDS Integers, Sequences, SequencesExt

CONSTANT
  Lies           \* bound: the wrong lengths and counts that are tried

ASSUME WalkAssumption == Lies \subseteq Nat

VARIABLES
  walker,        \* which of the loops
  units,         \* what the sender encoded
  honest,        \* does every declared length and count tell the truth?
  len,           \* the bytes that arrived
  walking,       \* FALSE once the loop is over
  off,           \* the loop's offset
  lim,           \* the length, end or count the loop keeps beside it
  left,          \* what the enclosing loops of a nested record still expect
  out,           \* the units that were decoded, 0 for garbage
  touched,       \* the end of the furthest slice or byte accessed
  steps          \* iterations so far

walkVars == <<walker, units, honest, len, walking, off, lim, left, out, touched, steps>>

-----------------------------------------------------------------------------
(* Arithmetic of the walkers *)

least(a, b) == IF a < b THEN a ELSE b
most(a, b)  == IF a < b THEN b ELSE a
pad2(n)     == n + (n % 2)
align4(n)   == ((n + 3) \div 4) * 4

(* BlockHeader::body_length *)
body_length(n) == most(n, 2) - 2

(* What one iteration does: the furthest byte it accesses, where it goes on,   *)
(* the units it decodes, and whether the loop ends here.                       *)
iter(t, next, emits, stop) ==
  [touch |-> t, next |-> next, emits |-> emits, stop |-> stop, lim |-> lim, left |-> left]
decoded(u, b) == IF b THEN {u.id} ELSE {}

-----------------------------------------------------------------------------
(* DCP responses (dcp.rs): `lim` is what remains of DCPDataLength *)

parse_set_response(u) ==
  LET size == 4 + pad2(u.n) IN
  [iter(least(off + 4 + u.n, len), least(off + size, len), decoded(u, u.ty = "want"), u.ty = "want")
     EXCEPT !.lim = lim - size]

(* mutant: the payload is sliced by its declared length alone *)
parse_get_response_Unclamped(u) ==
  LET size == 4 + pad2(u.n) IN
  [iter(off + 6 + body_length(u.n), least(off + size, len), decoded(u, u.ty = "want"), u.ty = "want")
     EXCEPT !.lim = lim - size]
parse_get_response(u) ==
  LET size == 4 + pad2(u.n) IN
  [iter(least(off + 6 + body_length(u.n), len), least(off + size, len),
        decoded(u, u.ty = "want"), u.ty = "want")
     EXCEPT !.lim = lim - size]

(* A block of a known suboption counts when its payload is long enough. *)
parse_identify_response(u) ==
  LET size == 4 + pad2(u.n)
      end  == least(off + 6 + body_length(u.n), len)
  IN [iter(end, least(off + size, len), decoded(u, u.ty = "want" /\ end >= off + 6 + u.m), FALSE)
        EXCEPT !.lim = lim - size]

(* Connect responses: the first complete block of the wanted type *)
(* mutant: the length field is left out of the step *)
parse_cr_block_res_Stuck(u) ==
  LET found == u.ty = "want" /\ off + 12 <= len IN
  iter(off + (IF found THEN 12 ELSE 6), off + u.n, decoded(u, found), found)
parse_cr_block_res(u) ==
  LET found == u.ty = "want" /\ off + 12 <= len IN
  iter(off + (IF found THEN 12 ELSE 6), off + 4 + u.n, decoded(u, found), found)

parse_alarm_cr_res(u) ==
  LET found == u.ty = "want" /\ off + 12 <= len IN
  iter(off + (IF found THEN 10 ELSE 4), off + 4 + u.n, decoded(u, found), found)

(* IODWriteMultipleRes: `lim` is the end of the record *)
parse_write_multiple_response(u) ==
  iter(off + 56, off + align4(4 + u.n), decoded(u, u.ty = "want"), u.ty # "want")

-----------------------------------------------------------------------------
(* Diagnosis (diagnosis.rs) *)

entry_size(ty) == CASE ty = "ext" -> 14 [] ty = "qualified" -> 18 [] OTHER -> 8

(* What looks like a location header is taken for one: a small API and slot.   *)
(* The entry v behind it is read in the same iteration.                        *)
parse_diagnosis_block(u, v) ==
  LET loc   == u.ty = "location" /\ off + 8 <= len
      at    == off + (IF loc THEN 8 ELSE 0)
      entry == IF loc THEN v ELSE u
      end   == at + entry_size(entry.ty)
  IN IF at + 6 > len THEN iter(0, at, {}, TRUE)
     ELSE iter(IF end <= len THEN end ELSE at + 6, end, decoded(entry, end <= len), end > len)

(* Flat entries, an all-zero one ends the list *)
parse_diagnosis_simple(u) == iter(off + 6, off + 6, decoded(u, u.ty # "zero"), u.ty = "zero")

-----------------------------------------------------------------------------
(* Alarm items (alarms.rs): `lim` is where the notification block ends *)

(* What each item has after its USI; PRAL and unknown items take all the rest. *)
item_size(ty) ==
  CASE ty = "channel" -> 6 [] ty = "ext" -> 12 [] ty = "qualified" -> 16
    [] ty = "maintenance" -> 12 [] ty = "upload" -> 16 [] ty = "rs" -> 2 [] ty = "pe" -> 7
    [] ty = "pral" -> 8 [] OTHER -> 0
takes_rest(ty) == ty \in {"pral", "generic"}

parse_alarm_item(u) ==
  LET end == off + 2 + item_size(u.ty)
      to  == IF takes_rest(u.ty) THEN lim ELSE end
  IN CASE off + 2 > lim -> iter(0, off, {}, TRUE)
       [] off + 2 <= lim /\ end > lim -> iter(off + 2, off, {}, TRUE)
       [] end <= lim -> iter(to, to, decoded(u, TRUE), FALSE)

(* mutant: items are read up to the end of the frame *)
parse_alarm_notification_Padding(end) == len

(* Where the notification ends: bytes past it are Ethernet padding, not items. *)
parse_alarm_notification(end) == IF 26 <= end /\ end < len THEN end ELSE len

-----------------------------------------------------------------------------
(* Endpoint mapper (epm.rs): `lim` counts the floors or entries to come *)

parse_epm_tower(u) ==
  LET rhs == off + 2 + u.n
      end == rhs + 2 + u.m
  IN CASE rhs > len                     -> iter(off + 2, off, {}, TRUE)
       [] rhs <= len /\ rhs + 2 > len   -> iter(rhs, off, {}, TRUE)
       [] rhs + 2 <= len /\ end > len   -> iter(rhs + 2, off, {}, TRUE)
       [] end <= len -> [iter(end, end, decoded(u, TRUE), FALSE) EXCEPT !.lim = lim - 1]

(* Object UUID, tower pointer, annotation and tower; the offset moves past an   *)
(* annotation that overruns, and the next check stops there.                    *)
parse_epm_response(u) ==
  LET ann   == off + 24
      tower == align4(ann + u.n)
      end   == tower + 4 + u.m
  IN CASE ann > len -> iter(off + 16, off, {}, TRUE)
       [] ann <= len /\ tower + 4 > len ->
            iter(IF ann + u.n <= len THEN ann + u.n ELSE ann, off, {}, TRUE)
       [] tower + 4 <= len /\ end > len -> iter(tower + 4, off, {}, TRUE)
       [] end <= len -> [iter(end, align4(end), decoded(u, TRUE), FALSE) EXCEPT !.lim = lim - 1]

-----------------------------------------------------------------------------
(* Records of im.rs *)

(* `lim` is the end of the MultipleBlockHeader the walk is inside of, 0 between  *)
(* two of them.                                                                 *)
parse_pd_real_data(u) ==
  LET end == off + 6 + body_length(u.n) IN
  CASE lim # 0 /\ off + 6 <= least(lim, len) -> iter(off + 6, end, decoded(u, TRUE), FALSE)
    [] lim # 0 /\ off + 6 > least(lim, len) ->
         [iter(least(lim, len), lim, {}, FALSE) EXCEPT !.lim = 0]
    [] lim = 0 /\ u.ty = "multi" /\ off + 16 <= len ->
         [iter(off + 16, off + 16, decoded(u, TRUE), FALSE) EXCEPT !.lim = end]
    [] OTHER -> iter(off + 6, end, {}, FALSE)

parse_pd_interface_data_real(u) ==
  LET chassis == off + 1 + u.n
      mac     == align4(chassis) + 6
      ip      == align4(mac) + 12
  IN CASE off + 1 > len                -> iter(0, off, {}, TRUE)
       [] off + 1 <= len /\ chassis > len -> iter(off + 1, off, {}, TRUE)
       [] chassis <= len /\ mac > len  -> iter(chassis, off, {}, TRUE)
       [] mac <= len /\ ip > len       -> iter(mac, off, {}, TRUE)
       [] ip <= len                    -> iter(ip, ip, decoded(u, TRUE), TRUE)

(* Port, then its peers, then the rest; a field that does not fit is skipped.   *)
(* `left[1]` is set once the port is read, `lim` counts the peers to come.      *)
parse_pd_port_data_real(u) ==
  LET fits(at, n) == IF at + n <= len THEN at + n ELSE at
      port    == fits(off, 4)
      id      == fits(port + 1, u.n)
      count   == fits(id, 1)
      name    == fits(off + 1, u.n)
      chassis == fits(name + 1, u.m)
      mac     == fits(align4(chassis), 6)
      state   == fits(fits(align4(fits(off, 2)), 8), 2)
      media   == fits(align4(state), 4)
      reads(to, alone) == IF to <= len THEN to ELSE alone
  IN CASE left[1] = 0 /\ port + 1 > len -> iter(least(port, len), off, {}, TRUE)
       [] left[1] = 0 /\ port + 1 <= len ->
            [iter(count, align4(count), decoded(u, TRUE), FALSE)
               EXCEPT !.left = <<1, 0, 0>>, !.lim = IF count > id THEN u.m ELSE 0]
       [] left[1] = 1 /\ lim > 0 /\ off + 1 > len ->
            [iter(0, off, {}, FALSE) EXCEPT !.lim = 0]
       [] left[1] = 1 /\ lim > 0 /\ off + 1 <= len /\ name + 1 > len ->
            [iter(name, name, {}, FALSE) EXCEPT !.lim = 0]
       [] left[1] = 1 /\ lim > 0 /\ off + 1 <= len /\ name + 1 <= len ->
            [iter(reads(mac, chassis), align4(mac), decoded(u, TRUE), FALSE) EXCEPT !.lim = lim - 1]
       [] left[1] = 1 /\ lim = 0 -> iter(least(media, len), media, decoded(u, TRUE), TRUE)

(* Three nested counted loops: a level that does not fit is left, and the ones   *)
(* around it go on with what they still expect.  `sizes` are the bytes of one    *)
(* entry of each level, `end` is where they must stop.                          *)
nested(u, sizes, end) ==
  LET level == CHOOSE k \in 1..3 : left[k] > 0 /\ \A j \in k + 1 .. 3 : left[j] = 0
      fits  == off + sizes[level] <= end
      next  == [left EXCEPT ![level] = IF fits THEN @ - 1 ELSE 0]
  IN [iter(IF fits THEN off + sizes[level] ELSE off, IF fits THEN off + sizes[level] ELSE off,
           decoded(u, fits /\ level = 3), FALSE)
        EXCEPT !.left = IF fits /\ level < 3 THEN [next EXCEPT ![level + 1] = u.n] ELSE next]

parse_real_identification_data(u) == nested(u, <<6, 8, 6>>, len)

(* ... where anything that does not fit is an error. *)
parse_inm0_filter(u) ==
  LET r == nested(u, <<6, 8, 6>>, len) IN [r EXCEPT !.stop = (r.next = off)]

(* ModuleDiffBlock in the block list of a connect response: `lim` is its end,   *)
(* 0 outside of it.                                                             *)
parse_module_diff_block(u) ==
  IF \E k \in 1..3 : left[k] > 0
  THEN nested(u, <<6, 10, 8>>, least(lim, len))
  ELSE IF lim # 0
  THEN [iter(0, lim, {}, FALSE) EXCEPT !.lim = 0]
  ELSE LET end == off + 4 + u.n IN
       IF u.ty = "diff" /\ off + 8 <= least(end, len)
       THEN [iter(off + 8, off + 8, {}, FALSE) EXCEPT !.lim = end, !.left = <<u.m, 0, 0>>]
       ELSE iter(off + 6, end, {}, FALSE)

-----------------------------------------------------------------------------
(* Ethernet (util.rs): any number of tags, then the EtherType *)

skip_vlan_tags(u) ==
  LET tag == u.ty = "tag" /\ off + 4 <= len IN
  iter(off + 2, IF tag THEN off + 4 ELSE off, decoded(u, ~tag), ~tag)

-----------------------------------------------------------------------------
(* What the senders encode.  A unit is [ty, n, m, size]: n and m are the length  *)
(* and count fields it carries, size the bytes it occupies.                      *)

dcp(ty, n, m)   == [ty |-> ty, n |-> n, m |-> m, size |-> 4 + pad2(n)]
block(ty, n, m) == [ty |-> ty, n |-> n, m |-> m, size |-> 4 + n]
plain(ty, n, size) == [ty |-> ty, n |-> n, m |-> 0, size |-> size]
item(ty)        == plain(ty, 0, 2 + item_size(ty) + (IF takes_rest(ty) THEN 4 ELSE 0))
floor(n, m)     == [ty |-> "floor", n |-> n, m |-> m, size |-> 4 + n + m]
peer(n, m)      == [ty |-> "peer", n |-> n, m |-> m, size |-> align4(align4(2 + n + m) + 6)]
epm(n, m)       == [ty |-> "entry", n |-> n, m |-> m, size |-> align4(24 + n) + 4 + align4(m)]

(* an API with a slot of two submodules, and one whose slot has none *)
topology(sizes) ==
  <<plain("api", 1, sizes[1]), plain("slot", 2, sizes[2]), plain("sub", 0, sizes[3]),
    plain("sub", 0, sizes[3]), plain("api", 1, sizes[1]), plain("slot", 0, sizes[2])>>

Sent ==
  [set       |-> {<<dcp("other", 5, 0), dcp("want", 3, 0)>>, <<dcp("other", 2, 0)>>},
   get       |-> {<<dcp("other", 5, 0), dcp("want", 8, 0)>>, <<dcp("other", 6, 0), dcp("want", 2, 0)>>},
   identify  |-> {<<dcp("want", 7, 0), dcp("want", 14, 12), dcp("other", 3, 0), dcp("want", 6, 4)>>},
   cr        |-> {<<block("other", 30, 0), block("want", 8, 0), block("other", 2, 0)>>},
   alarm_cr  |-> {<<block("other", 8, 0), block("want", 8, 0)>>},
   multiple  |-> {<<plain("want", 60, 64), plain("want", 60, 64)>>},
   diagnosis |-> {<<plain("location", 0, 8), plain("ext", 0, 14), plain("channel", 0, 8),
                    plain("location", 0, 8), plain("qualified", 0, 18)>>},
   simple    |-> {<<plain("entry", 0, 6), plain("entry", 0, 6), plain("zero", 0, 6)>>},
   alarm     |-> {<<item("channel"), item("ext"), item("maintenance")>>,
                  <<item("qualified"), item("upload"), item("pe")>>,
                  <<item("rs"), item("pral")>>, <<item("rs"), item("generic")>>},
   tower     |-> {<<floor(19, 2), floor(1, 2), floor(1, 4)>>},
   lookup    |-> {<<epm(5, 11), epm(0, 8)>>},
   pd        |-> {<<plain("multi", 36, 16), block("interface", 10, 0), block("port", 6, 0),
                    plain("multi", 18, 16), block("port", 2, 0), block("other", 4, 0)>>},
   interface |-> {<<plain("interface", 5, align4(align4(6 + 1 + 5) + 6) + 12 - 6)>>},
   port      |-> {<<[plain("port", 3, 12) EXCEPT !.m = 2], peer(2, 5), peer(0, 1), plain("tail", 0, 20)>>},
   slots     |-> {topology(<<6, 8, 6>>)},
   filter    |-> {topology(<<6, 8, 6>>)},
   diff      |-> {<<block("other", 2, 0),
                    [ty |-> "diff", n |-> 4 + 12 + 20 + 16, m |-> 2, size |-> 8]>>
                    \o topology(<<6, 10, 8>>)},
   vlan      |-> {<<plain("tag", 0, 4), plain("tag", 0, 4), plain("type", 0, 2)>>,
                  <<plain("type", 0, 2)>>}]

Walkers == DOMAIN Sent

(* where the first unit is, and the least a walker looks at *)
base(w) ==
  CASE w \in {"set", "get", "identify", "vlan"} -> 12
    [] w = "multiple" -> 64 [] w \in {"diagnosis", "simple", "interface"} -> 6 [] w = "alarm" -> 26
    [] w = "tower" -> 2 [] w = "lookup" -> 20 [] w \in {"slots", "filter"} -> 8 [] OTHER -> 0
minimal(w) ==
  CASE w = "tower" -> 4 [] w = "lookup" -> 12 [] w = "vlan" -> 14
    [] OTHER -> base(w)

(* the units with their place in the PDU, and its true length *)
placed(w, us) ==
  LET at[i \in DOMAIN us] == IF i = 1 THEN base(w) ELSE at[i - 1] + us[i - 1].size
  IN [i \in DOMAIN us |-> us[i] @@ [id |-> i, at |-> at[i]]]
total(us) == LET z == us[Len(us)] IN z.at + z.size

(* where unit i begins, and behind the last one where the PDU ends *)
place(us, i) == IF i <= Len(us) THEN us[i].at ELSE total(us)

(* The APIs, slots or submodules (level 1 to 3) of a tree that come from unit i  *)
(* on, before a unit of a higher level: the entries the sender counts.          *)
above(level) == CASE level = 1 -> {"diff", "other"}
                  [] level = 2 -> {"diff", "other", "api"}
                  [] level = 3 -> {"diff", "other", "api", "slot"}
entry_kind(level) == CASE level = 1 -> "api" [] level = 2 -> "slot" [] level = 3 -> "sub"
entries(us, i, level) ==
  {j \in i .. Len(us) : us[j].ty = entry_kind(level) /\ \A h \in i .. j - 1 : us[h].ty \notin above(level)}

(* the total or count the header declares, when it has one *)
truth(w, us) ==
  CASE w \in {"set", "get", "identify", "multiple"} -> total(us) - base(w)
    [] w = "alarm" -> total(us)
    [] w \in {"tower", "lookup"} -> Len(us)
    [] w \in {"slots", "filter"} -> Cardinality(entries(us, 1, 1))
    [] OTHER -> 0

-----------------------------------------------------------------------------
(* The walk *)

(* one field of the PDU is wrong, or none *)
Pdus(w) ==
  UNION {LET us == placed(w, s) IN
         {[units |-> us, declared |-> truth(w, us), honest |-> TRUE]}
           \cup {[units |-> us, declared |-> d, honest |-> FALSE] : d \in Lies}
           \cup {[units |-> [us EXCEPT ![i].n = d], declared |-> truth(w, us), honest |-> FALSE] :
                   i \in DOMAIN us, d \in Lies} : s \in Sent[w]}

(* Frames of the two layer-2 protocols may be padded. *)
Padded == {"set", "get", "identify", "alarm"}
padding(w) == IF w \in Padded THEN {0, 3} ELSE {0}

(* a PDU of which `bytes` arrived is handed to a walker *)
Arrives(w, us, declared, honestly, bytes) ==
  /\ walker = w
  /\ units = us
  /\ honest = honestly
  /\ len = bytes
  /\ walking = (len >= minimal(w))
  /\ off = base(w)
  /\ lim = CASE w \in {"set", "get", "identify", "tower", "lookup"} -> declared
             [] w = "multiple" -> least(64 + declared, len)
             [] w = "alarm" -> parse_alarm_notification(declared)
             [] OTHER -> 0
  /\ left = IF w \in {"slots", "filter"} THEN <<declared, 0, 0>> ELSE <<0, 0, 0>>
  /\ out = {}
  /\ touched = IF walking THEN minimal(w) ELSE 0
  /\ steps = 0

WalkInit ==
  \E w \in Walkers : \E p \in Pdus(w) : \E cut \in 0 .. total(p.units) : \E pad \in padding(w) :
    /\ cut < total(p.units) => pad = 0
    /\ Arrives(w, p.units, p.declared, p.honest, cut + pad)

(* any PDU at all, the ones above among them: every field may be any number *)
Unit == [ty : STRING, n : Nat, m : Nat, size : Nat, id : Nat, at : Nat]
AnyInit ==
  \E w \in Walkers, us \in Seq(Unit), declared \in Nat, honestly \in BOOLEAN, bytes \in Nat :
    Arrives(w, us, declared, honestly, bytes)

(* What is honest about a record of records.  A block that holds other units ends *)
(* where the next one that is no part of it begins; ...                          *)
closes(us, i, end, outer) ==
  \E j \in i + 1 .. Len(us) + 1 :
    /\ end = place(us, j)
    /\ \A h \in i + 1 .. j - 1 : us[h].ty \notin outer
    /\ j <= Len(us) => us[j].ty \in outer

(* ... an entry of a tree follows one that can hold it or that is its sibling,   *)
(* and says how many entries it holds.                                           *)
grown(us, i, sizes, roots) ==
  LET u == us[i]
      follows(tys) == i > 1 /\ us[i - 1].ty \in tys
  IN CASE u.ty = "api"  -> u.size = sizes[1] /\ u.n = Cardinality(entries(us, i + 1, 2))
                             /\ (roots # {} => follows(roots \cup {"api", "slot", "sub"}))
       [] u.ty = "slot" -> u.size = sizes[2] /\ u.n = Cardinality(entries(us, i + 1, 3))
                             /\ follows({"api", "slot", "sub"})
       [] u.ty = "sub"  -> u.size = sizes[3] /\ follows({"slot", "sub"})
       [] OTHER -> FALSE

(* What is honest about the units of a PDU, however many and however long: every  *)
(* length and count is the true one, ...                                         *)
formed(w, us, i) ==
  LET u    == us[i]
      last == i = Len(us)
      once == u.ty = "want" => \A j \in DOMAIN us : us[j].ty = "want" => j = i
  IN CASE w = "set"      -> u.size = 4 + pad2(u.n) /\ u.n > 0 /\ once
       [] w = "get"      -> u.size = 4 + pad2(u.n) /\ once
       [] w = "identify" -> u.size = 4 + pad2(u.n) /\ (u.ty = "want" => u.m <= body_length(u.n))
       [] w \in {"cr", "alarm_cr"} -> u.size = 4 + u.n /\ u.n >= (IF u.ty = "want" THEN 8 ELSE 2) /\ once
       [] w = "multiple" -> u.size = align4(4 + u.n) /\ u.n >= 52 /\ u.ty = "want"
       [] w = "simple"   -> u.size = 6 /\ (u.ty = "zero" => last)
       [] w = "alarm"    -> /\ u.size >= 2 + item_size(u.ty) /\ u.ty # "other"
                            /\ IF takes_rest(u.ty) THEN last ELSE u.size = 2 + item_size(u.ty)
       [] w = "tower"    -> u.size = 4 + u.n + u.m /\ u.ty # "other"
       [] w = "lookup"   -> u.size = align4(24 + u.n) + 4 + align4(u.m) /\ u.ty # "other"
       [] w = "vlan"     -> IF last THEN u.ty = "type" /\ u.size = 2 ELSE u.ty = "tag" /\ u.size = 4
       [] w = "diagnosis" -> IF u.ty = "location" THEN u.size = 8 /\ ~last /\ us[i + 1].ty # "location"
                             ELSE u.size = entry_size(u.ty)
       [] w = "interface" -> i = 1 /\ last /\ u.ty # "other" /\ u.size = align4(align4(7 + u.n) + 6) + 6
       [] w = "port"     -> /\ i = 1 => u.ty = "port" /\ u.size = align4(6 + u.n) /\ u.m = Len(us) - 2
                            /\ i > 1 /\ ~last => u.ty = "peer" /\ u.size = align4(align4(2 + u.n + u.m) + 6)
                            /\ i > 1 /\ last => u.ty = "tail" /\ u.size = 20
       [] w = "pd"       -> IF u.ty = "multi"
                            THEN u.size = 16 /\ u.n >= 2 /\ closes(us, i, u.at + 4 + u.n, {"multi", "other"})
                            ELSE /\ u.size = 4 + u.n /\ u.n >= 2
                                 /\ u.ty # "other" => i > 1 /\ us[i - 1].ty # "other"
       [] w \in {"slots", "filter"} -> grown(us, i, <<6, 8, 6>>, {})
       [] w = "diff"     -> /\ u.ty = "other" => u.size = 4 + u.n /\ u.n >= 2
                            /\ u.ty = "diff" => /\ u.size = 8 /\ u.m = Cardinality(entries(us, i + 1, 1))
                                                /\ closes(us, i, u.at + 4 + u.n, {"diff", "other"})
                            /\ u.ty \notin {"diff", "other"} => grown(us, i, <<6, 10, 8>>, {"diff"})

(* ... and each unit begins where the one before it ends. *)
Encoded(w, us) ==
  /\ us # <<>> /\ us[1].at = base(w)
  /\ \A i \in DOMAIN us : us[i].id = i /\ formed(w, us, i)
  /\ \A i, j \in DOMAIN us :
       i < j => /\ us[i].at + us[i].size <= us[j].at
                /\ j = i + 1 => us[j].at = us[i].at + us[i].size

ASSUME SentIsEncoded == \A w \in Walkers : \A s \in Sent[w] : Encoded(w, placed(w, s))

(* any honest PDU that arrived whole, perhaps padded *)
HonestInit ==
  \E w \in Walkers, us \in Seq(Unit), extra \in Nat :
    /\ Encoded(w, us)
    /\ extra > 0 => w \in Padded
    /\ Arrives(w, us, truth(w, us), TRUE, total(us) + extra)

open == \E k \in 1..3 : left[k] > 0

continues ==
  CASE walker = "set" -> lim > 4 /\ off + 4 <= len
    [] walker \in {"get", "identify"} -> lim > 6 /\ off + 6 <= len
    [] walker \in {"cr", "alarm_cr", "diagnosis", "simple"} -> off + 6 <= len
    [] walker = "multiple" -> off + 56 <= lim
    [] walker = "alarm" -> off < lim
    [] walker = "tower" -> lim > 0 /\ off + 4 <= len
    [] walker = "lookup" -> lim > 0 /\ off + 16 <= len
    [] walker \in {"pd", "diff"} -> open \/ lim # 0 \/ off + 6 <= len
    [] walker \in {"slots", "filter"} -> open
    [] walker = "vlan" -> off + 2 <= len
    [] walker \in {"interface", "port"} -> TRUE

body(u, v) ==
  CASE walker = "set"       -> parse_set_response(u)
    [] walker = "get"       -> parse_get_response(u)
    [] walker = "identify"  -> parse_identify_response(u)
    [] walker = "cr"        -> parse_cr_block_res(u)
    [] walker = "alarm_cr"  -> parse_alarm_cr_res(u)
    [] walker = "multiple"  -> parse_write_multiple_response(u)
    [] walker = "diagnosis" -> parse_diagnosis_block(u, v)
    [] walker = "simple"    -> parse_diagnosis_simple(u)
    [] walker = "alarm"     -> parse_alarm_item(u)
    [] walker = "tower"     -> parse_epm_tower(u)
    [] walker = "lookup"    -> parse_epm_response(u)
    [] walker = "pd"        -> parse_pd_real_data(u)
    [] walker = "interface" -> parse_pd_interface_data_real(u)
    [] walker = "port"      -> parse_pd_port_data_real(u)
    [] walker = "slots"     -> parse_real_identification_data(u)
    [] walker = "filter"    -> parse_inm0_filter(u)
    [] walker = "diff"      -> parse_module_diff_block(u)
    [] walker = "vlan"      -> skip_vlan_tags(u)

(* what is read at an offset: a unit at its first byte, garbage elsewhere *)
Garbage ==
  LET nested_in == open /\ walker # "port"
      any(b) == IF b THEN Lies ELSE {0}
  IN {[ty |-> ty, n |-> n, m |-> m, id |-> 0] :
        ty \in IF nested_in THEN {"sub"}
               ELSE ({u.ty : u \in Range(units)} \ {"api", "slot", "sub"})
                      \cup (IF walker = "alarm" THEN {"generic"} ELSE {}),
        n \in any(walker \notin {"diagnosis", "simple", "alarm", "vlan"}),
        m \in any(~nested_in /\ walker \in {"identify", "tower", "lookup", "port", "diff"})}
At(o) ==
  IF \E u \in Range(units) : u.at = o THEN {u \in Range(units) : u.at = o} ELSE Garbage

Iterate ==
  /\ walking
  /\ continues
  /\ \E u \in At(off) : \E v \in IF walker = "diagnosis" THEN At(off + 8) ELSE {u} :
       LET r == body(u, v) IN
       /\ touched' = most(touched, r.touch)
       /\ off' = r.next
       /\ lim' = r.lim
       /\ left' = r.left
       /\ out' = out \cup r.emits
       /\ walking' = ~r.stop
  /\ steps' = steps + 1
  /\ UNCHANGED <<walker, units, honest, len>>

Finish ==
  /\ walking
  /\ ~continues
  /\ walking' = FALSE
  /\ UNCHANGED <<walker, units, honest, len, off, lim, left, out, touched, steps>>

WalkNext == Iterate \/ Finish

AnyWalk == AnyInit /\ [][WalkNext]_walkVars
HonestWalk == HonestInit /\ [][WalkNext]_walkVars

-----------------------------------------------------------------------------
(* Properties *)

(* What an honest and complete PDU must yield.  The last DCP block counts only  *)
(* if it carries more than its BlockInfo.                                       *)
Expected ==
  {u.id : u \in {u \in Range(units) :
     CASE walker \in {"get", "identify"} -> u.ty = "want" /\ (u.id < Len(units) \/ u.size > 6)
       [] walker \in {"set", "cr", "alarm_cr", "multiple"} -> u.ty = "want"
       [] walker = "diagnosis" -> u.ty # "location"
       [] walker = "simple" -> u.ty # "zero"
       [] walker \in {"slots", "filter", "diff"} -> u.ty = "sub"
       [] walker = "vlan" -> u.ty = "type"
       [] OTHER -> u.ty # "other"}}

(* No walker slices or indexes past the bytes that arrived, whatever lengths    *)
(* and counts it was told: there is no input on which it panics.                *)
InBounds == touched <= len

(* A PDU whose fields tell the truth and that arrived whole is decoded whole,   *)
(* and nothing else is: no unit is skipped or read twice as something else, and *)
(* Ethernet padding yields no phantom.                                          *)
AllDecoded ==
  honest /\ ~walking /\ len >= total(units) => out = Expected

(* A declared length or count cannot make a walker iterate more often than the  *)
(* bytes allow: every loop ends, and a lying count costs nothing.               *)
WorkBounded == steps <= 4 + len \div 2
=============================================================================
