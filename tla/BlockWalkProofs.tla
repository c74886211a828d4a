-------------------------- MODULE BlockWalkProofs ---------------------------
(***************************************************************************)
(* Proofs about the loops that walk a received PDU: whatever arrives, they *)
(* stay inside it and end; and what a sender encoded truthfully and what   *)
(* arrived whole they decode, all of it and nothing else.                  *)
(***************************************************************************)
EXTENDS BlockWalk, FiniteSetTheorems, TLAPS

-----------------------------------------------------------------------------
(* The block walkers (BlockWalk) *)

Triples == [1..3 -> Nat]
opened(k) == k[1] > 0 \/ k[2] > 0 \/ k[3] > 0
depth(k)  == IF k[3] > 0 THEN 3 ELSE IF k[2] > 0 THEN 2 ELSE IF k[1] > 0 THEN 1 ELSE 0

Plain  == {"set", "get", "identify", "cr", "alarm_cr", "multiple", "diagnosis", "simple", "alarm",
           "tower", "lookup", "vlan"}
Nested == {"slots", "filter"}

(* What a loop keeps after s iterations.  The ends it remembers are inside the PDU,  *)
(* so is the offset of a nested record while a level of it is open; and iterations   *)
(* are paid for: two bytes each, three in the records of a MultipleBlockHeader,      *)
(* whose end may be behind the offset, and a nested level that does not fit is       *)
(* closed for good by the iteration that finds out.                                  *)
Shape(o, l, k, s) ==
    /\ o \in Nat /\ l \in Int /\ k \in Triples /\ s \in Nat
    /\ walker \in Plain => 2 * s <= o
    /\ walker \in {"multiple", "alarm"} => l <= len
    /\ walker = "pd" =>
         /\ l \in Nat /\ ~opened(k)
         /\ l = 0 => 3 * s <= o /\ 3 * s <= len + 3
         /\ l # 0 => 3 * s + 3 <= l /\ 3 * s + 3 <= o /\ 3 * s <= len
    /\ walker = "interface" => s = 0
    /\ walker = "port" =>
         /\ l \in Nat /\ k[1] \in {0, 1}
         /\ k[1] = 0 => s = 0
         /\ k[1] = 1 /\ l > 0 => 2 * s <= o + 1 /\ 2 * s <= len + 2
         /\ k[1] = 1 /\ l = 0 => 2 * s <= len + 4
    /\ walker \in Nested => o <= len /\ 2 * s <= o + 6 - 2 * depth(k)
    /\ walker = "diff" =>
         /\ l \in Nat
         /\ opened(k) => l # 0
         /\ l # 0 => o <= len /\ o <= l /\ 2 * s <= o + 6 - 2 * depth(k)
         /\ l = 0 => 2 * s <= o + 8

Field(u) == u.n \in Nat /\ u.m \in Nat

WalkInv ==
    /\ walker \in Walkers /\ units \in Seq(Unit) /\ len \in Nat
    /\ touched \in Nat /\ touched <= len
    /\ steps \in Nat /\ 2 * steps <= len + 8
    /\ walking => Shape(off, lim, left, steps)

(* One iteration accesses what arrived, leaves the loop in shape and is paid for. *)
Stays(r) ==
    /\ r.touch \in Nat /\ r.touch <= len
    /\ 2 * (steps + 1) <= len + 8
    /\ ~r.stop => Shape(r.next, r.lim, r.left, steps + 1)


LEMMA Arithmetic ==
    ASSUME NEW n \in Nat
    PROVE  /\ pad2(n) \in Nat /\ n <= pad2(n)
           /\ align4(n) \in Nat /\ n <= align4(n)
           /\ body_length(n) \in Nat
  BY DEF pad2, align4, body_length, most

(* Whatever is read, its fields are numbers. *)
LEMMA ReadsFields ==
    ASSUME WalkInv, NEW o, NEW u \in At(o) PROVE Field(u)
  <1>1. CASE u \in Range(units)
    <2>1. u \in Unit
      BY <1>1 DEF WalkInv, Range
    <2> QED BY <2>1 DEF Unit, Field
  <1>2. CASE u \in Garbage
    BY <1>2, WalkAssumption DEF Garbage, Field
  <1> QED BY <1>1, <1>2 DEF At

(* One level of a nested record: an entry that fits moves the offset, one that does *)
(* not closes its level.                                                            *)
LEMMA NestedLevel ==
    ASSUME left \in Triples, opened(left), off \in Nat, NEW u, Field(u), NEW end \in Int,
           NEW sizes, \A k \in 1..3 : sizes[k] \in Nat /\ 6 <= sizes[k],
           NEW r, r = nested(u, sizes, end)
    PROVE  /\ r.lim = lim /\ r.left \in Triples /\ r.stop = FALSE
           /\ \/ /\ r.next \in Nat /\ off + 6 <= r.next /\ r.next <= end /\ r.touch = r.next
                 /\ depth(r.left) <= depth(left) + 1
              \/ r.next = off /\ r.touch = off /\ depth(r.left) + 1 <= depth(left)
  <1> DEFINE Top(k) == left[k] > 0 /\ \A j \in k + 1 .. 3 : left[j] = 0
  <1>1. PICK level : level = CHOOSE k \in 1..3 : Top(k)
    OBVIOUS
  <1>2. level = depth(left) /\ level \in 1..3
    <2>1. left[1] \in Nat /\ left[2] \in Nat /\ left[3] \in Nat
      BY DEF Triples
    <2>2. Top(depth(left)) /\ depth(left) \in 1..3
      BY <2>1 DEF depth, opened
    <2>3. \A k \in 1..3 : Top(k) => k = depth(left)
      BY <2>1 DEF depth
    <2> HIDE DEF Top
    <2> QED BY <1>1, <2>2, <2>3
  <1>3. PICK z \in Nat : z = sizes[level] /\ 6 <= z
    BY <1>2
  <1>4. PICK next : next = [left EXCEPT ![level] = IF off + z <= end THEN @ - 1 ELSE 0]
    OBVIOUS
  <1>5. r = [iter(IF off + z <= end THEN off + z ELSE off, IF off + z <= end THEN off + z ELSE off,
                  decoded(u, off + z <= end /\ level = 3), FALSE)
               EXCEPT !.left = IF off + z <= end /\ level < 3
                               THEN [next EXCEPT ![level + 1] = u.n] ELSE next]
    BY <1>1, <1>3, <1>4 DEF nested
  <1>6. left[level] \in Nat /\ left[level] > 0
    BY <1>2 DEF depth, Triples, opened
  <1>7. next \in Triples
    BY <1>2, <1>4, <1>6 DEF Triples
  <1>8. CASE off + z <= end
    <2>1. /\ r.lim = lim /\ r.stop = FALSE /\ r.next = off + z /\ r.touch = off + z
          /\ r.left = IF level < 3 THEN [next EXCEPT ![level + 1] = u.n] ELSE next
      BY <1>5, <1>8 DEF iter
    <2>2. r.left \in Triples
      BY <1>2, <1>7, <2>1 DEF Triples, Field
    <2>3. \A j \in 1..3 : j > level + 1 => r.left[j] = 0
      <3>1. \A j \in 1..3 : j > level => left[j] = 0 /\ next[j] = left[j]
        BY <1>2, <1>4 DEF Triples, depth
      <3>2. SUFFICES ASSUME NEW j \in 1..3, j > level + 1 PROVE r.left[j] = 0
        OBVIOUS
      <3>3. j = 3 /\ level = 1
        BY <1>2, <3>2
      <3>4. r.left = [next EXCEPT ![2] = u.n] /\ next[3] = 0
        BY <2>1, <3>1, <3>3
      <3> QED BY <1>7, <3>3, <3>4 DEF Triples
    <2>4. depth(r.left) <= depth(left) + 1
      BY <1>2, <2>2, <2>3 DEF Triples, depth
    <2> QED BY <1>3, <1>8, <2>1, <2>2, <2>4
  <1>9. CASE ~(off + z <= end)
    <2>1. /\ r.lim = lim /\ r.stop = FALSE /\ r.next = off /\ r.touch = off /\ r.left = next
      BY <1>5, <1>9 DEF iter
    <2>2. \A j \in 1..3 : j >= level => next[j] = 0
      BY <1>2, <1>4, <1>7, <1>9 DEF Triples, depth
    <2>3. depth(next) + 1 <= depth(left)
      BY <1>2, <1>7, <2>2 DEF Triples, depth
    <2> QED BY <1>7, <2>1, <2>3
  <1> QED BY <1>8, <1>9

(* Iterations of the plain loops: two bytes at least, and no slice past the end. *)
LEMMA PlainStays ==
    ASSUME WalkInv, walking, continues, walker \in Plain, NEW r,
           r.touch \in Nat, r.touch <= len, r.lim \in Int, r.left = left,
           walker \in {"multiple", "alarm"} => r.lim <= len,
           ~r.stop => r.next \in Nat /\ off + 2 <= r.next,
           off <= len
    PROVE  Stays(r)
  <1>1. Shape(off, lim, left, steps) /\ len \in Nat /\ steps \in Nat
    BY DEF WalkInv
  <1>2. 2 * steps <= off /\ off \in Nat /\ left \in Triples
    BY <1>1 DEF Shape
  <1>3. 2 * (steps + 1) <= len + 8
    BY <1>1, <1>2
  <1>4. ~r.stop => 2 * (steps + 1) <= r.next
    BY <1>1, <1>2
  <1> QED BY <1>1, <1>2, <1>3, <1>4 DEF Stays, Shape, Plain, Nested

LEMMA SetStays ==
    ASSUME WalkInv, walking, continues, walker = "set", NEW u, Field(u), NEW v, Field(v), NEW r, r = parse_set_response(u)
    PROVE  Stays(r)
  <1>1. off \in Nat /\ lim \in Int /\ len \in Nat /\ walker \in Plain
        /\ u.n \in Nat /\ u.m \in Nat /\ v.n \in Nat
    BY DEF WalkInv, Shape, Plain, Field
  <1>2. off + 4 <= len
    BY <1>1 DEF continues
  <1>3. /\ pad2(u.n) \in Nat /\ align4(4 + u.n) \in Nat /\ 4 + u.n <= align4(4 + u.n)
        /\ body_length(u.n) \in Nat
    BY <1>1, Arithmetic
  <1>4. /\ r.touch \in Nat /\ r.touch <= len /\ r.lim \in Int /\ r.left = left
        /\ ~r.stop => r.next \in Nat /\ off + 2 <= r.next
    BY <1>1, <1>2, <1>3 DEF iter, least, parse_set_response
  <1> QED BY <1>1, <1>2, <1>4, PlainStays

LEMMA GetStays ==
    ASSUME WalkInv, walking, continues, walker = "get", NEW u, Field(u), NEW v, Field(v), NEW r, r = parse_get_response(u)
    PROVE  Stays(r)
  <1>1. off \in Nat /\ lim \in Int /\ len \in Nat /\ walker \in Plain
        /\ u.n \in Nat /\ u.m \in Nat /\ v.n \in Nat
    BY DEF WalkInv, Shape, Plain, Field
  <1>2. off + 6 <= len
    BY <1>1 DEF continues
  <1>3. /\ pad2(u.n) \in Nat /\ align4(4 + u.n) \in Nat /\ 4 + u.n <= align4(4 + u.n)
        /\ body_length(u.n) \in Nat
    BY <1>1, Arithmetic
  <1>4. /\ r.touch \in Nat /\ r.touch <= len /\ r.lim \in Int /\ r.left = left
        /\ ~r.stop => r.next \in Nat /\ off + 2 <= r.next
    BY <1>1, <1>2, <1>3 DEF iter, least, parse_get_response
  <1> QED BY <1>1, <1>2, <1>4, PlainStays

LEMMA IdentifyStays ==
    ASSUME WalkInv, walking, continues, walker = "identify", NEW u, Field(u), NEW v, Field(v), NEW r, r = parse_identify_response(u)
    PROVE  Stays(r)
  <1>1. off \in Nat /\ lim \in Int /\ len \in Nat /\ walker \in Plain
        /\ u.n \in Nat /\ u.m \in Nat /\ v.n \in Nat
    BY DEF WalkInv, Shape, Plain, Field
  <1>2. off + 6 <= len
    BY <1>1 DEF continues
  <1>3. /\ pad2(u.n) \in Nat /\ align4(4 + u.n) \in Nat /\ 4 + u.n <= align4(4 + u.n)
        /\ body_length(u.n) \in Nat
    BY <1>1, Arithmetic
  <1>4. /\ r.touch \in Nat /\ r.touch <= len /\ r.lim \in Int /\ r.left = left
        /\ ~r.stop => r.next \in Nat /\ off + 2 <= r.next
    BY <1>1, <1>2, <1>3 DEF iter, least, parse_identify_response
  <1> QED BY <1>1, <1>2, <1>4, PlainStays

LEMMA CrStays ==
    ASSUME WalkInv, walking, continues, walker = "cr", NEW u, Field(u), NEW v, Field(v), NEW r, r = parse_cr_block_res(u)
    PROVE  Stays(r)
  <1>1. off \in Nat /\ lim \in Int /\ len \in Nat /\ walker \in Plain
        /\ u.n \in Nat /\ u.m \in Nat /\ v.n \in Nat
    BY DEF WalkInv, Shape, Plain, Field
  <1>2. off + 6 <= len
    BY <1>1 DEF continues
  <1>3. /\ pad2(u.n) \in Nat /\ align4(4 + u.n) \in Nat /\ 4 + u.n <= align4(4 + u.n)
        /\ body_length(u.n) \in Nat
    BY <1>1, Arithmetic
  <1>4. /\ r.touch \in Nat /\ r.touch <= len /\ r.lim \in Int /\ r.left = left
        /\ ~r.stop => r.next \in Nat /\ off + 2 <= r.next
    BY <1>1, <1>2, <1>3 DEF iter, least, parse_cr_block_res
  <1> QED BY <1>1, <1>2, <1>4, PlainStays

LEMMA AlarmCrStays ==
    ASSUME WalkInv, walking, continues, walker = "alarm_cr", NEW u, Field(u), NEW v, Field(v), NEW r, r = parse_alarm_cr_res(u)
    PROVE  Stays(r)
  <1>1. off \in Nat /\ lim \in Int /\ len \in Nat /\ walker \in Plain
        /\ u.n \in Nat /\ u.m \in Nat /\ v.n \in Nat
    BY DEF WalkInv, Shape, Plain, Field
  <1>2. off + 6 <= len
    BY <1>1 DEF continues
  <1>3. /\ pad2(u.n) \in Nat /\ align4(4 + u.n) \in Nat /\ 4 + u.n <= align4(4 + u.n)
        /\ body_length(u.n) \in Nat
    BY <1>1, Arithmetic
  <1>4. /\ r.touch \in Nat /\ r.touch <= len /\ r.lim \in Int /\ r.left = left
        /\ ~r.stop => r.next \in Nat /\ off + 2 <= r.next
    BY <1>1, <1>2, <1>3 DEF iter, least, parse_alarm_cr_res
  <1> QED BY <1>1, <1>2, <1>4, PlainStays

LEMMA SimpleStays ==
    ASSUME WalkInv, walking, continues, walker = "simple", NEW u, Field(u), NEW v, Field(v), NEW r, r = parse_diagnosis_simple(u)
    PROVE  Stays(r)
  <1>1. off \in Nat /\ lim \in Int /\ len \in Nat /\ walker \in Plain
        /\ u.n \in Nat /\ u.m \in Nat /\ v.n \in Nat
    BY DEF WalkInv, Shape, Plain, Field
  <1>2. off + 6 <= len
    BY <1>1 DEF continues
  <1>3. /\ pad2(u.n) \in Nat /\ align4(4 + u.n) \in Nat /\ 4 + u.n <= align4(4 + u.n)
        /\ body_length(u.n) \in Nat
    BY <1>1, Arithmetic
  <1>4. /\ r.touch \in Nat /\ r.touch <= len /\ r.lim \in Int /\ r.left = left
        /\ ~r.stop => r.next \in Nat /\ off + 2 <= r.next
    BY <1>1, <1>2, <1>3 DEF iter, least, parse_diagnosis_simple
  <1> QED BY <1>1, <1>2, <1>4, PlainStays

LEMMA TowerStays ==
    ASSUME WalkInv, walking, continues, walker = "tower", NEW u, Field(u), NEW v, Field(v), NEW r, r = parse_epm_tower(u)
    PROVE  Stays(r)
  <1>1. off \in Nat /\ lim \in Int /\ len \in Nat /\ walker \in Plain
        /\ u.n \in Nat /\ u.m \in Nat /\ v.n \in Nat
    BY DEF WalkInv, Shape, Plain, Field
  <1>2. off + 4 <= len
    BY <1>1 DEF continues
  <1>3. /\ pad2(u.n) \in Nat /\ align4(4 + u.n) \in Nat /\ 4 + u.n <= align4(4 + u.n)
        /\ body_length(u.n) \in Nat
    BY <1>1, Arithmetic
  <1>4. /\ r.touch \in Nat /\ r.touch <= len /\ r.lim \in Int /\ r.left = left
        /\ ~r.stop => r.next \in Nat /\ off + 2 <= r.next
    BY <1>1, <1>2, <1>3 DEF iter, least, parse_epm_tower
  <1> QED BY <1>1, <1>2, <1>4, PlainStays

LEMMA VlanStays ==
    ASSUME WalkInv, walking, continues, walker = "vlan", NEW u, Field(u), NEW v, Field(v), NEW r, r = skip_vlan_tags(u)
    PROVE  Stays(r)
  <1>1. off \in Nat /\ lim \in Int /\ len \in Nat /\ walker \in Plain
        /\ u.n \in Nat /\ u.m \in Nat /\ v.n \in Nat
    BY DEF WalkInv, Shape, Plain, Field
  <1>2. off + 2 <= len
    BY <1>1 DEF continues
  <1>3. /\ pad2(u.n) \in Nat /\ align4(4 + u.n) \in Nat /\ 4 + u.n <= align4(4 + u.n)
        /\ body_length(u.n) \in Nat
    BY <1>1, Arithmetic
  <1>4. /\ r.touch \in Nat /\ r.touch <= len /\ r.lim \in Int /\ r.left = left
        /\ ~r.stop => r.next \in Nat /\ off + 2 <= r.next
    <2>1. CASE u.ty = "tag" /\ off + 4 <= len
      <3>1. r.touch = off + 2 /\ r.lim = lim /\ r.left = left /\ r.next = off + 4
        BY <2>1 DEF iter, skip_vlan_tags
      <3> QED BY <1>1, <1>2, <3>1
    <2>2. CASE ~(u.ty = "tag" /\ off + 4 <= len)
      <3>1. r.touch = off + 2 /\ r.lim = lim /\ r.left = left
        BY <2>2 DEF iter, skip_vlan_tags
      <3>2. r.stop
        BY <2>2 DEF iter, skip_vlan_tags
      <3> QED BY <1>1, <1>2, <3>1, <3>2
    <2> QED BY <2>1, <2>2
  <1> QED BY <1>1, <1>2, <1>4, PlainStays

LEMMA MultipleStays ==
    ASSUME WalkInv, walking, continues, walker = "multiple", NEW u, Field(u), NEW r,
           r = parse_write_multiple_response(u)
    PROVE  Stays(r)
  <1>1. /\ off \in Nat /\ lim \in Int /\ len \in Nat /\ lim <= len /\ walker \in Plain /\ u.n \in Nat
        /\ off + 56 <= lim
    BY DEF WalkInv, Shape, Plain, Field, continues
  <1>2. align4(4 + u.n) \in Nat /\ 4 + u.n <= align4(4 + u.n)
    BY <1>1, Arithmetic
  <1>3. /\ r.touch = off + 56 /\ r.next = off + align4(4 + u.n) /\ r.lim = lim /\ r.left = left
    BY DEF parse_write_multiple_response, iter
  <1> QED BY <1>1, <1>2, <1>3, PlainStays

LEMMA DiagnosisStays ==
    ASSUME WalkInv, walking, continues, walker = "diagnosis", NEW u, Field(u), NEW v, Field(v), NEW r,
           r = parse_diagnosis_block(u, v)
    PROVE  Stays(r)
  <1>1. /\ off \in Nat /\ lim \in Int /\ len \in Nat /\ walker \in Plain /\ off + 6 <= len
    BY DEF WalkInv, Shape, Plain, continues
  <1>2. \A ty : entry_size(ty) \in Nat /\ 8 <= entry_size(ty)
    BY DEF entry_size
  <1>3. /\ r.touch \in Nat /\ r.touch <= len /\ r.lim = lim /\ r.left = left
        /\ ~r.stop => r.next \in Nat /\ off + 2 <= r.next
    <2>1. PICK loc : loc = (u.ty = "location" /\ off + 8 <= len)
      OBVIOUS
    <2>2. PICK at : at = off + (IF loc THEN 8 ELSE 0)
      OBVIOUS
    <2>3. PICK ty : ty = IF loc THEN v.ty ELSE u.ty
      OBVIOUS
    <2>4. at \in Nat /\ off <= at
      BY <1>1, <2>2
    <2>5. PICK end \in Nat : end = at + entry_size(ty) /\ at + 8 <= end
      BY <1>2, <2>4
    <2>a. PICK e : e = decoded(IF loc THEN v ELSE u, end <= len)
      OBVIOUS
    <2>6. r = IF at + 6 > len THEN iter(0, at, {}, TRUE)
              ELSE iter(IF end <= len THEN end ELSE at + 6, end, e, end > len)
      BY <2>1, <2>2, <2>3, <2>5, <2>a DEF parse_diagnosis_block
    <2>7. CASE at + 6 > len
      BY <1>1, <2>6, <2>7 DEF iter
    <2>8. CASE at + 6 <= len
      <3>1. r = iter(IF end <= len THEN end ELSE at + 6, end, e, end > len)
        <4>1. ~(at + 6 > len)
          BY <1>1, <2>4, <2>8
        <4> QED BY <2>6, <4>1
      <3>2. r.touch = (IF end <= len THEN end ELSE at + 6) /\ r.next = end /\ r.lim = lim /\ r.left = left
        BY <3>1 DEF iter
      <3> QED BY <1>1, <2>4, <2>5, <2>8, <3>2
    <2> QED BY <1>1, <2>4, <2>7, <2>8
  <1> QED BY <1>1, <1>3, PlainStays

LEMMA AlarmStays ==
    ASSUME WalkInv, walking, continues, walker = "alarm", NEW u, Field(u), NEW r, r = parse_alarm_item(u)
    PROVE  Stays(r)
  <1>1. /\ off \in Nat /\ lim \in Int /\ len \in Nat /\ lim <= len /\ off < lim /\ walker \in Plain
    BY DEF WalkInv, Shape, Plain, continues
  <1>2. item_size(u.ty) \in Nat
    BY DEF item_size
  <1>3. /\ r.touch \in Nat /\ r.touch <= len /\ r.lim = lim /\ r.left = left
        /\ ~r.stop => r.next \in Nat /\ off + 2 <= r.next
    <2>1. PICK end \in Nat : end = off + 2 + item_size(u.ty) /\ off + 2 <= end
      BY <1>1, <1>2
    <2>2. PICK to : to = IF takes_rest(u.ty) THEN lim ELSE end
      OBVIOUS
    <2>3. end <= lim => to \in Nat /\ off + 2 <= to /\ to <= lim
      BY <1>1, <2>1, <2>2
    <2>4. r = CASE off + 2 > lim -> iter(0, off, {}, TRUE)
                [] off + 2 <= lim /\ end > lim -> iter(off + 2, off, {}, TRUE)
                [] end <= lim -> iter(to, to, decoded(u, TRUE), FALSE)
      BY <2>1, <2>2 DEF parse_alarm_item
    <2>5. \/ r = iter(0, off, {}, TRUE)
          \/ off + 2 <= lim /\ r = iter(off + 2, off, {}, TRUE)
          \/ end <= lim /\ r = iter(to, to, decoded(u, TRUE), FALSE)
      <3>1. \/ off + 2 > lim \/ (off + 2 <= lim /\ end > lim) \/ end <= lim
        BY <1>1
      <3>2. ~(off + 2 > lim) \/ ~(end <= lim)
        BY <1>1, <2>1
      <3> QED BY <1>1, <2>4, <3>1, <3>2
    <2>6. r.lim = lim /\ r.left = left
      <3>1. CASE r = iter(0, off, {}, TRUE)
        BY <3>1 DEF iter
      <3>2. CASE r = iter(off + 2, off, {}, TRUE)
        BY <3>2 DEF iter
      <3>3. CASE r = iter(to, to, decoded(u, TRUE), FALSE)
        BY <3>3 DEF iter
      <3> QED BY <2>5, <3>1, <3>2, <3>3
    <2>7. \/ r.touch = 0 /\ r.stop
          \/ off + 2 <= lim /\ r.touch = off + 2 /\ r.stop
          \/ end <= lim /\ r.touch = to /\ r.next = to
      <3>1. ASSUME NEW t, r = iter(t, off, {}, TRUE) PROVE r.touch = t /\ r.stop
        <4>1. r.touch = t
          BY <3>1 DEF iter
        <4>2. r.stop = TRUE
          BY <3>1 DEF iter
        <4> QED BY <4>1, <4>2
      <3>2. r = iter(to, to, decoded(u, TRUE), FALSE) => r.touch = to /\ r.next = to
        BY DEF iter
      <3> QED BY <2>5, <3>1, <3>2
    <2> QED BY <1>1, <2>3, <2>6, <2>7
  <1> QED BY <1>1, <1>3, PlainStays

LEMMA LookupStays ==
    ASSUME WalkInv, walking, continues, walker = "lookup", NEW u, Field(u), NEW r,
           r = parse_epm_response(u)
    PROVE  Stays(r)
  <1>1. /\ off \in Nat /\ lim \in Int /\ len \in Nat /\ off + 16 <= len /\ walker \in Plain
        /\ u.n \in Nat /\ u.m \in Nat
    BY DEF WalkInv, Shape, Plain, Field, continues
  <1>2. PICK tower \in Nat : tower = align4(off + 24 + u.n) /\ off + 24 + u.n <= tower
    BY <1>1, Arithmetic
  <1>3. PICK end \in Nat : end = tower + 4 + u.m /\ off + 28 <= end
    BY <1>1, <1>2
  <1>4. align4(end) \in Nat /\ end <= align4(end)
    BY Arithmetic
  <1>5. \/ r = iter(off + 16, off, {}, TRUE)
        \/ /\ off + 24 <= len
           /\ r = iter(IF off + 24 + u.n <= len THEN off + 24 + u.n ELSE off + 24, off, {}, TRUE)
        \/ tower + 4 <= len /\ r = iter(tower + 4, off, {}, TRUE)
        \/ /\ end <= len
           /\ r = [iter(end, align4(end), decoded(u, TRUE), FALSE) EXCEPT !.lim = lim - 1]
    <2>1. r = CASE off + 24 > len -> iter(off + 16, off, {}, TRUE)
                [] off + 24 <= len /\ tower + 4 > len ->
                     iter(IF off + 24 + u.n <= len THEN off + 24 + u.n ELSE off + 24, off, {}, TRUE)
                [] tower + 4 <= len /\ end > len -> iter(tower + 4, off, {}, TRUE)
                [] end <= len -> [iter(end, align4(end), decoded(u, TRUE), FALSE) EXCEPT !.lim = lim - 1]
      BY <1>2, <1>3 DEF parse_epm_response
    <2>2. \/ off + 24 > len \/ (off + 24 <= len /\ tower + 4 > len)
          \/ (tower + 4 <= len /\ end > len) \/ end <= len
      BY <1>1
    <2>3. /\ off + 24 > len => ~(tower + 4 <= len) /\ ~(end <= len) /\ ~(off + 24 <= len)
          /\ tower + 4 > len => ~(tower + 4 <= len) /\ ~(end <= len)
          /\ end > len => ~(end <= len)
      BY <1>1, <1>2, <1>3
    <2> QED BY <2>1, <2>2, <2>3
  <1>6. /\ r.touch \in Nat /\ r.touch <= len /\ r.lim \in Int /\ r.left = left
        /\ ~r.stop => r.next \in Nat /\ off + 2 <= r.next
    BY <1>1, <1>2, <1>3, <1>4, <1>5 DEF iter
  <1> QED BY <1>1, <1>6, PlainStays

-----------------------------------------------------------------------------
(* The records of im.rs *)

LEMMA PdStays ==
    ASSUME WalkInv, walking, continues, walker = "pd", NEW u, Field(u), NEW r, r = parse_pd_real_data(u)
    PROVE  Stays(r)
  <1>1. Shape(off, lim, left, steps) /\ len \in Nat /\ steps \in Nat /\ u.n \in Nat
    BY DEF WalkInv, Field
  <1>2. /\ off \in Nat /\ lim \in Nat /\ left \in Triples /\ ~opened(left)
        /\ lim = 0 => 3 * steps <= off /\ 3 * steps <= len + 3
        /\ lim # 0 => 3 * steps + 3 <= lim /\ 3 * steps + 3 <= off /\ 3 * steps <= len
    BY <1>1 DEF Shape
  <1>3. lim = 0 => off + 6 <= len
    <2>1. ~open
      BY <1>2 DEF open, opened, Triples
    <2> QED BY <2>1 DEF continues
  <1>4. PICK end \in Nat : end = off + 6 + body_length(u.n) /\ off + 6 <= end
    BY <1>1, <1>2, Arithmetic
  <1>5. least(lim, len) \in Nat /\ least(lim, len) <= lim /\ least(lim, len) <= len
    BY <1>1, <1>2 DEF least
  <1>6. \E e : \/ lim # 0 /\ off + 6 <= least(lim, len) /\ r = iter(off + 6, end, e, FALSE)
               \/ lim # 0 /\ r = [iter(least(lim, len), lim, {}, FALSE) EXCEPT !.lim = 0]
               \/ lim = 0 /\ off + 16 <= len /\ r = [iter(off + 16, off + 16, e, FALSE) EXCEPT !.lim = end]
               \/ lim = 0 /\ r = iter(off + 6, end, {}, FALSE)
    <2>1. lim # 0 => off + 6 <= least(lim, len) \/ off + 6 > least(lim, len)
      BY <1>2, <1>5
    <2>2. PICK e : e = decoded(u, TRUE)
      OBVIOUS
    <2>3. r = CASE lim # 0 /\ off + 6 <= least(lim, len) -> iter(off + 6, end, e, FALSE)
                [] lim # 0 /\ off + 6 > least(lim, len) ->
                     [iter(least(lim, len), lim, {}, FALSE) EXCEPT !.lim = 0]
                [] lim = 0 /\ u.ty = "multi" /\ off + 16 <= len ->
                     [iter(off + 16, off + 16, e, FALSE) EXCEPT !.lim = end]
                [] OTHER -> iter(off + 6, end, {}, FALSE)
      BY <1>4, <2>2 DEF parse_pd_real_data
    <2>a. off + 6 <= least(lim, len) <=> ~(off + 6 > least(lim, len))
      BY <1>2, <1>5
    <2>4. lim # 0 /\ off + 6 <= least(lim, len) => r = iter(off + 6, end, e, FALSE)
      BY <2>a, <2>3
    <2>5. lim # 0 /\ off + 6 > least(lim, len) =>
            r = [iter(least(lim, len), lim, {}, FALSE) EXCEPT !.lim = 0]
      BY <2>a, <2>3
    <2>6. lim = 0 => \/ off + 16 <= len /\ r = [iter(off + 16, off + 16, e, FALSE) EXCEPT !.lim = end]
                     \/ r = iter(off + 6, end, {}, FALSE)
      BY <2>3
    <2> QED BY <2>1, <2>4, <2>5, <2>6
  <1>7. r.left = left /\ r.stop = FALSE
    BY <1>6 DEF iter
  <1>8. \/ lim # 0 /\ off + 6 <= least(lim, len) /\ r.touch = off + 6 /\ r.next = end /\ r.lim = lim
        \/ lim # 0 /\ r.touch = least(lim, len) /\ r.next = lim /\ r.lim = 0
        \/ lim = 0 /\ off + 16 <= len /\ r.touch = off + 16 /\ r.next = off + 16 /\ r.lim = end
        \/ lim = 0 /\ r.touch = off + 6 /\ r.next = end /\ r.lim = 0
    BY <1>6 DEF iter
  <1>9. r.touch \in Nat /\ r.touch <= len /\ r.next \in Nat /\ r.lim \in Nat
    BY <1>1, <1>2, <1>3, <1>4, <1>5, <1>8
  <1>10. /\ r.lim = 0 => 3 * (steps + 1) <= r.next /\ 3 * (steps + 1) <= len + 3
         /\ r.lim # 0 => /\ 3 * (steps + 1) + 3 <= r.lim /\ 3 * (steps + 1) + 3 <= r.next
                         /\ 3 * (steps + 1) <= len
    BY <1>1, <1>2, <1>3, <1>4, <1>5, <1>8
  <1>11. 2 * (steps + 1) <= len + 8
    BY <1>1, <1>10
  <1> QED BY <1>1, <1>2, <1>7, <1>9, <1>10, <1>11 DEF Stays, Shape, Plain, Nested

LEMMA InterfaceStays ==
    ASSUME WalkInv, walking, continues, walker = "interface", NEW u, Field(u), NEW r,
           r = parse_pd_interface_data_real(u)
    PROVE  Stays(r)
  <1>1. off \in Nat /\ len \in Nat /\ steps = 0 /\ u.n \in Nat
    BY DEF WalkInv, Shape, Field
  <1>2. PICK chassis \in Nat : chassis = off + 1 + u.n /\ off + 1 <= chassis
    BY <1>1
  <1>3. PICK mac \in Nat : mac = align4(chassis) + 6 /\ chassis <= mac
    BY Arithmetic
  <1>4. PICK ip \in Nat : ip = align4(mac) + 12 /\ mac <= ip
    BY Arithmetic
  <1>5. \/ r = iter(0, off, {}, TRUE)
        \/ off + 1 <= len /\ r = iter(off + 1, off, {}, TRUE)
        \/ chassis <= len /\ r = iter(chassis, off, {}, TRUE)
        \/ mac <= len /\ r = iter(mac, off, {}, TRUE)
        \/ ip <= len /\ r = iter(ip, ip, decoded(u, TRUE), TRUE)
    <2>1. r = CASE off + 1 > len                   -> iter(0, off, {}, TRUE)
                [] off + 1 <= len /\ chassis > len -> iter(off + 1, off, {}, TRUE)
                [] chassis <= len /\ mac > len     -> iter(chassis, off, {}, TRUE)
                [] mac <= len /\ ip > len          -> iter(mac, off, {}, TRUE)
                [] ip <= len                       -> iter(ip, ip, decoded(u, TRUE), TRUE)
      BY <1>2, <1>3, <1>4 DEF parse_pd_interface_data_real
    <2>2. \/ off + 1 > len \/ (off + 1 <= len /\ chassis > len) \/ (chassis <= len /\ mac > len)
          \/ (mac <= len /\ ip > len) \/ ip <= len
      BY <1>1
    <2>3. /\ off + 1 > len => ~(off + 1 <= len) /\ ~(chassis <= len) /\ ~(mac <= len) /\ ~(ip <= len)
          /\ chassis > len => ~(chassis <= len) /\ ~(mac <= len) /\ ~(ip <= len)
          /\ mac > len => ~(mac <= len) /\ ~(ip <= len)
          /\ ip > len => ~(ip <= len)
      BY <1>1, <1>2, <1>3, <1>4
    <2> QED BY <2>1, <2>2, <2>3
  <1>6. r.stop /\ \/ r.touch = 0 \/ (off + 1 <= len /\ r.touch = off + 1)
                  \/ (chassis <= len /\ r.touch = chassis) \/ (mac <= len /\ r.touch = mac)
                  \/ (ip <= len /\ r.touch = ip)
    <2>1. ASSUME NEW t, NEW next, NEW e, r = iter(t, next, e, TRUE) PROVE r.touch = t /\ r.stop
      <3>1. r.touch = t
        BY <2>1 DEF iter
      <3>2. r.stop = TRUE
        BY <2>1 DEF iter
      <3> QED BY <3>1, <3>2
    <2> QED BY <1>5, <2>1
  <1>7. r.touch \in Nat /\ r.touch <= len
    BY <1>1, <1>6
  <1> QED BY <1>1, <1>6, <1>7 DEF Stays

LEMMA PortStays ==
    ASSUME WalkInv, walking, continues, walker = "port", NEW u, Field(u), NEW r,
           r = parse_pd_port_data_real(u)
    PROVE  Stays(r)
  <1> DEFINE fits(at, n) == IF at + n <= len THEN at + n ELSE at
  <1>1. Shape(off, lim, left, steps) /\ len \in Nat /\ steps \in Nat /\ u.n \in Nat /\ u.m \in Nat
    BY DEF WalkInv, Field
  <1>2. /\ off \in Nat /\ lim \in Nat /\ left \in Triples /\ left[1] \in {0, 1}
        /\ left[1] = 0 => steps = 0
        /\ left[1] = 1 /\ lim > 0 => 2 * steps <= off + 1 /\ 2 * steps <= len + 2
        /\ left[1] = 1 /\ lim = 0 => 2 * steps <= len + 4
    BY <1>1 DEF Shape
  <1>3. \A at, n \in Nat : fits(at, n) \in Nat /\ at <= fits(at, n) /\ (at <= len => fits(at, n) <= len)
    BY <1>1
  <1>4. PICK port \in Nat : port = fits(off, 4) /\ off <= port
    BY <1>2, <1>3
  <1>5. PICK id \in Nat : id = fits(port + 1, u.n) /\ port + 1 <= id /\ (port + 1 <= len => id <= len)
    BY <1>1, <1>3
  <1>6. PICK count \in Nat : count = fits(id, 1) /\ id <= count /\ (id <= len => count <= len)
    BY <1>3
  <1>7. PICK name_ \in Nat : name_ = fits(off + 1, u.n) /\ off + 1 <= name_ /\ (off + 1 <= len => name_ <= len)
    BY <1>1, <1>2, <1>3
  <1>8. PICK chassis \in Nat : /\ chassis = fits(name_ + 1, u.m) /\ name_ + 1 <= chassis
                               /\ name_ + 1 <= len => chassis <= len
    BY <1>1, <1>3
  <1>9. PICK mac \in Nat : mac = fits(align4(chassis), 6) /\ chassis <= mac
    BY <1>3, Arithmetic
  <1>10. PICK state \in Nat : state = fits(fits(align4(fits(off, 2)), 8), 2)
    <2>1. fits(off, 2) \in Nat
      BY <1>2, <1>3
    <2>2. align4(fits(off, 2)) \in Nat
      BY <2>1, Arithmetic
    <2>3. fits(align4(fits(off, 2)), 8) \in Nat
      BY <1>3, <2>2
    <2>4. fits(fits(align4(fits(off, 2)), 8), 2) \in Nat
      BY <1>3, <2>3
    <2> QED BY <2>4
  <1>11. PICK media \in Nat : media = fits(align4(state), 4)
    BY <1>3, Arithmetic
  <1>12. \E e :
           \/ left[1] = 0 /\ r = iter(least(port, len), off, {}, TRUE)
           \/ /\ left[1] = 0 /\ port + 1 <= len
              /\ r = [iter(count, align4(count), e, FALSE)
                        EXCEPT !.left = <<1, 0, 0>>, !.lim = IF count > id THEN u.m ELSE 0]
           \/ left[1] = 1 /\ lim > 0 /\ r = [iter(0, off, {}, FALSE) EXCEPT !.lim = 0]
           \/ /\ left[1] = 1 /\ lim > 0 /\ off + 1 <= len
              /\ r = [iter(name_, name_, {}, FALSE) EXCEPT !.lim = 0]
           \/ /\ left[1] = 1 /\ lim > 0 /\ off + 1 <= len /\ name_ + 1 <= len
              /\ r = [iter(IF mac <= len THEN mac ELSE chassis, align4(mac), e, FALSE) EXCEPT !.lim = lim - 1]
           \/ left[1] = 1 /\ lim = 0 /\ r = iter(least(media, len), media, e, TRUE)
    <2>1. PICK e : e = decoded(u, TRUE)
      OBVIOUS
    <2>2. r = CASE left[1] = 0 /\ port + 1 > len -> iter(least(port, len), off, {}, TRUE)
                [] left[1] = 0 /\ port + 1 <= len ->
                     [iter(count, align4(count), e, FALSE)
                        EXCEPT !.left = <<1, 0, 0>>, !.lim = IF count > id THEN u.m ELSE 0]
                [] left[1] = 1 /\ lim > 0 /\ off + 1 > len ->
                     [iter(0, off, {}, FALSE) EXCEPT !.lim = 0]
                [] left[1] = 1 /\ lim > 0 /\ off + 1 <= len /\ name_ + 1 > len ->
                     [iter(name_, name_, {}, FALSE) EXCEPT !.lim = 0]
                [] left[1] = 1 /\ lim > 0 /\ off + 1 <= len /\ name_ + 1 <= len ->
                     [iter(IF mac <= len THEN mac ELSE chassis, align4(mac), e, FALSE)
                        EXCEPT !.lim = lim - 1]
                [] left[1] = 1 /\ lim = 0 -> iter(least(media, len), media, e, TRUE)
      BY <1>4, <1>5, <1>6, <1>7, <1>8, <1>9, <1>10, <1>11, <2>1 DEF parse_pd_port_data_real
    <2> HIDE DEF fits
    <2>3. CASE left[1] = 0
      <3>1. (port + 1 > len /\ ~(port + 1 <= len)) \/ (port + 1 <= len /\ ~(port + 1 > len))
        BY <1>1
      <3> QED BY <2>2, <2>3, <3>1
    <2>4. CASE left[1] = 1 /\ lim = 0
      <3>1. ~(lim > 0)
        BY <2>4
      <3> QED BY <2>2, <2>4, <3>1
    <2>5. CASE left[1] = 1 /\ lim > 0
      <3>1. lim # 0
        BY <1>2, <2>5
      <3>2. \/ off + 1 > len /\ ~(off + 1 <= len)
            \/ off + 1 <= len /\ ~(off + 1 > len) /\ name_ + 1 > len /\ ~(name_ + 1 <= len)
            \/ off + 1 <= len /\ ~(off + 1 > len) /\ ~(name_ + 1 > len) /\ name_ + 1 <= len
        BY <1>1, <1>2
      <3> QED BY <2>2, <2>5, <3>1, <3>2
    <2>6. left[1] = 0 \/ (left[1] = 1 /\ lim = 0) \/ (left[1] = 1 /\ lim > 0)
      BY <1>2
    <2> QED BY <2>3, <2>4, <2>5, <2>6
  <1> HIDE DEF fits
  <1>13. least(port, len) \in Nat /\ least(port, len) <= len /\ least(media, len) \in Nat /\ least(media, len) <= len
    BY <1>1 DEF least
  <1>14. align4(count) \in Nat /\ count <= align4(count) /\ align4(mac) \in Nat /\ mac <= align4(mac)
    BY Arithmetic
  <1>15. \/ left[1] = 0 /\ r.touch = least(port, len) /\ r.stop
         \/ /\ left[1] = 0 /\ port + 1 <= len /\ r.touch = count /\ r.next = align4(count)
            /\ r.left = <<1, 0, 0>> /\ r.lim \in Nat
         \/ left[1] = 1 /\ lim > 0 /\ r.touch = 0 /\ r.next = off /\ r.lim = 0 /\ r.left = left
         \/ /\ left[1] = 1 /\ lim > 0 /\ off + 1 <= len
            /\ r.touch = name_ /\ r.next = name_ /\ r.lim = 0 /\ r.left = left
         \/ /\ left[1] = 1 /\ lim > 0 /\ off + 1 <= len /\ name_ + 1 <= len
            /\ r.touch = (IF mac <= len THEN mac ELSE chassis) /\ r.next = align4(mac)
            /\ r.lim = lim - 1 /\ r.left = left
         \/ left[1] = 1 /\ lim = 0 /\ r.touch = least(media, len) /\ r.stop
    <2>1. PICK e :
           \/ left[1] = 0 /\ r = iter(least(port, len), off, {}, TRUE)
           \/ /\ left[1] = 0 /\ port + 1 <= len
              /\ r = [iter(count, align4(count), e, FALSE)
                        EXCEPT !.left = <<1, 0, 0>>, !.lim = IF count > id THEN u.m ELSE 0]
           \/ left[1] = 1 /\ lim > 0 /\ r = [iter(0, off, {}, FALSE) EXCEPT !.lim = 0]
           \/ /\ left[1] = 1 /\ lim > 0 /\ off + 1 <= len
              /\ r = [iter(name_, name_, {}, FALSE) EXCEPT !.lim = 0]
           \/ /\ left[1] = 1 /\ lim > 0 /\ off + 1 <= len /\ name_ + 1 <= len
              /\ r = [iter(IF mac <= len THEN mac ELSE chassis, align4(mac), e, FALSE) EXCEPT !.lim = lim - 1]
           \/ left[1] = 1 /\ lim = 0 /\ r = iter(least(media, len), media, e, TRUE)
      BY <1>12
    <2>2. CASE left[1] = 0 /\ r = iter(least(port, len), off, {}, TRUE)
      <3>1. r.touch = least(port, len)
        BY <2>2 DEF iter
      <3>2. r.stop = TRUE
        BY <2>2 DEF iter
      <3> QED BY <2>2, <3>1, <3>2
    <2>3. CASE /\ left[1] = 0 /\ port + 1 <= len
               /\ r = [iter(count, align4(count), e, FALSE)
                         EXCEPT !.left = <<1, 0, 0>>, !.lim = IF count > id THEN u.m ELSE 0]
      <3>1. /\ r.touch = count /\ r.next = align4(count) /\ r.left = <<1, 0, 0>>
            /\ r.lim = IF count > id THEN u.m ELSE 0
        BY <2>3 DEF iter
      <3>2. r.lim \in Nat
        BY <1>1, <3>1
      <3> QED BY <2>3, <3>1, <3>2
    <2>4. CASE left[1] = 1 /\ lim > 0 /\ r = [iter(0, off, {}, FALSE) EXCEPT !.lim = 0]
      <3>1. r.touch = 0 /\ r.next = off /\ r.lim = 0 /\ r.left = left
        BY <2>4 DEF iter
      <3> QED BY <2>4, <3>1
    <2>5. CASE /\ left[1] = 1 /\ lim > 0 /\ off + 1 <= len
               /\ r = [iter(name_, name_, {}, FALSE) EXCEPT !.lim = 0]
      <3>1. r.touch = name_ /\ r.next = name_ /\ r.lim = 0 /\ r.left = left
        BY <2>5 DEF iter
      <3> QED BY <2>5, <3>1
    <2>6. CASE /\ left[1] = 1 /\ lim > 0 /\ off + 1 <= len /\ name_ + 1 <= len
               /\ r = [iter(IF mac <= len THEN mac ELSE chassis, align4(mac), e, FALSE) EXCEPT !.lim = lim - 1]
      <3>1. r.touch = (IF mac <= len THEN mac ELSE chassis) /\ r.next = align4(mac) /\ r.lim = lim - 1 /\ r.left = left
        BY <2>6 DEF iter
      <3> QED BY <2>6, <3>1
    <2>7. CASE left[1] = 1 /\ lim = 0 /\ r = iter(least(media, len), media, e, TRUE)
      <3>1. r.touch = least(media, len)
        BY <2>7 DEF iter
      <3>2. r.stop = TRUE
        BY <2>7 DEF iter
      <3> QED BY <2>7, <3>1, <3>2
    <2> QED BY <2>1, <2>2, <2>3, <2>4, <2>5, <2>6, <2>7
  <1>16. <<1, 0, 0>> \in Triples
    BY DEF Triples
  <1>17. r.touch \in Nat /\ r.touch <= len
    BY <1>1, <1>5, <1>6, <1>7, <1>8, <1>13, <1>15
  <1>18. 2 * (steps + 1) <= len + 8
    BY <1>1, <1>2
  <1>19. ~r.stop => /\ r.next \in Nat /\ r.lim \in Nat /\ r.left \in Triples /\ r.left[1] = 1
                    /\ r.lim > 0 => 2 * (steps + 1) <= r.next + 1 /\ 2 * (steps + 1) <= len + 2
                    /\ r.lim = 0 => 2 * (steps + 1) <= len + 4
    <2>1. CASE left[1] = 0
      BY <1>1, <1>2, <1>4, <1>5, <1>6, <1>14, <1>15, <1>16, <2>1
    <2>2. CASE left[1] = 1
      BY <1>1, <1>2, <1>7, <1>8, <1>9, <1>14, <1>15, <2>2
    <2> QED BY <1>2, <2>1, <2>2
  <1> QED BY <1>1, <1>17, <1>18, <1>19 DEF Stays, Shape, Plain, Nested

LEMMA NestedStays ==
    ASSUME WalkInv, walking, continues, walker \in Nested, NEW u, Field(u), NEW r,
           r = parse_real_identification_data(u) \/ r = parse_inm0_filter(u)
    PROVE  Stays(r)
  <1>1. Shape(off, lim, left, steps) /\ len \in Nat /\ steps \in Nat
    BY DEF WalkInv
  <1>2. /\ off \in Nat /\ left \in Triples /\ off <= len /\ 2 * steps <= off + 6 - 2 * depth(left)
        /\ lim \in Int
    BY <1>1 DEF Shape
  <1>3. opened(left)
    <2>1. open
      BY DEF continues, Nested
    <2> QED BY <2>1 DEF open, opened
  <1>4. PICK s, z : z = <<6, 8, 6>> /\ s = nested(u, z, len)
    OBVIOUS
  <1>5. /\ s.lim = lim /\ s.left \in Triples
        /\ \/ /\ s.next \in Nat /\ off + 6 <= s.next /\ s.next <= len /\ s.touch = s.next
              /\ depth(s.left) <= depth(left) + 1
           \/ s.next = off /\ s.touch = off /\ depth(s.left) + 1 <= depth(left)
    <2>1. len \in Int /\ \A k \in 1..3 : z[k] \in Nat /\ 6 <= z[k]
      BY <1>1, <1>4
    <2> QED BY <1>2, <1>3, <1>4, <2>1, NestedLevel
  <1>6. r.touch = s.touch /\ r.next = s.next /\ r.lim = s.lim /\ r.left = s.left
    <2>1. r = s \/ r = [s EXCEPT !.stop = (s.next = off)]
      BY <1>4 DEF parse_real_identification_data, parse_inm0_filter
    <2>2. {"touch", "next", "lim", "left"} \subseteq DOMAIN s
      BY <1>4 DEF nested, iter
    <2> QED BY <2>1, <2>2
  <1>7. depth(left) \in 1..3 /\ depth(s.left) \in 0..3
    BY <1>2, <1>3, <1>5 DEF depth, opened
  <1>8. r.touch \in Nat /\ r.touch <= len /\ r.next \in Nat /\ r.next <= len
    BY <1>1, <1>2, <1>5, <1>6
  <1>9. 2 * (steps + 1) <= r.next + 6 - 2 * depth(r.left)
    BY <1>1, <1>2, <1>5, <1>6, <1>7
  <1>10. 2 * (steps + 1) <= len + 8
    BY <1>1, <1>6, <1>7, <1>8, <1>9
  <1> QED BY <1>1, <1>2, <1>5, <1>6, <1>8, <1>9, <1>10 DEF Stays, Shape, Plain, Nested

LEMMA DiffStays ==
    ASSUME WalkInv, walking, continues, walker = "diff", NEW u, Field(u), NEW r,
           r = parse_module_diff_block(u)
    PROVE  Stays(r)
  <1>1. Shape(off, lim, left, steps) /\ len \in Nat /\ steps \in Nat /\ u.n \in Nat /\ u.m \in Nat
    BY DEF WalkInv, Field
  <1>2. /\ off \in Nat /\ left \in Triples /\ lim \in Nat
        /\ opened(left) => lim # 0
        /\ lim # 0 => off <= len /\ off <= lim /\ 2 * steps <= off + 6 - 2 * depth(left)
        /\ lim = 0 => 2 * steps <= off + 8
    BY <1>1 DEF Shape
  <1>3. open <=> opened(left)
    BY DEF open, opened
  <1> SUFFICES /\ r.touch \in Nat /\ r.touch <= len /\ r.next \in Nat /\ r.lim \in Nat /\ r.left \in Triples
               /\ 2 * (steps + 1) <= len + 8
               /\ opened(r.left) => r.lim # 0
               /\ r.lim # 0 => /\ r.next <= len /\ r.next <= r.lim
                               /\ 2 * (steps + 1) <= r.next + 6 - 2 * depth(r.left)
               /\ r.lim = 0 => 2 * (steps + 1) <= r.next + 8
    BY <1>1 DEF Stays, Shape, Plain, Nested
  <1>4. CASE opened(left)
    <2>1. PICK z : z = <<6, 10, 8>> /\ r = nested(u, z, least(lim, len))
      BY <1>3, <1>4 DEF parse_module_diff_block, open
    <2>2. least(lim, len) \in Int /\ least(lim, len) <= lim /\ least(lim, len) <= len
      BY <1>1, <1>2 DEF least
    <2>3. /\ r.lim = lim /\ r.left \in Triples
          /\ \/ /\ r.next \in Nat /\ off + 6 <= r.next /\ r.next <= least(lim, len) /\ r.touch = r.next
                /\ depth(r.left) <= depth(left) + 1
             \/ r.next = off /\ r.touch = off /\ depth(r.left) + 1 <= depth(left)
      <3>1. \A k \in 1..3 : z[k] \in Nat /\ 6 <= z[k]
        BY <2>1
      <3> QED BY <1>2, <1>4, <2>1, <2>2, <3>1, NestedLevel
    <2>4. depth(left) \in 1..3 /\ depth(r.left) \in 0..3
      BY <1>2, <1>4, <2>3 DEF depth, opened
    <2>5. 2 * (steps + 1) <= r.next + 6 - 2 * depth(r.left) /\ r.next <= len /\ r.next <= lim
      BY <1>1, <1>2, <1>4, <2>2, <2>3, <2>4
    <2>6. 2 * (steps + 1) <= len + 8
      BY <1>1, <2>3, <2>4, <2>5, <1>2
    <2> QED BY <1>1, <1>2, <1>4, <2>3, <2>5, <2>6
  <1>5. CASE ~opened(left) /\ lim # 0
    <2>1. r = [iter(0, lim, {}, FALSE) EXCEPT !.lim = 0]
      BY <1>3, <1>5 DEF parse_module_diff_block, open
    <2>2. r.touch = 0 /\ r.next = lim /\ r.lim = 0 /\ r.left = left
      BY <2>1 DEF iter
    <2>3. depth(left) = 0
      BY <1>2, <1>5 DEF depth, opened
    <2> QED BY <1>1, <1>2, <1>5, <2>2, <2>3
  <1>6. CASE ~opened(left) /\ lim = 0
    <2>1. off + 6 <= len
      BY <1>3, <1>6 DEF continues
    <2>2. PICK end \in Nat : end = off + 4 + u.n
      BY <1>1, <1>2
    <2>3. least(end, len) \in Nat /\ least(end, len) <= end /\ least(end, len) <= len
      BY <1>1 DEF least
    <2>4. \/ /\ off + 8 <= least(end, len)
             /\ r = [iter(off + 8, off + 8, {}, FALSE) EXCEPT !.lim = end, !.left = <<u.m, 0, 0>>]
          \/ r = iter(off + 6, end, {}, FALSE)
      BY <1>3, <1>6, <2>2 DEF parse_module_diff_block, open
    <2>5. CASE /\ off + 8 <= least(end, len)
               /\ r = [iter(off + 8, off + 8, {}, FALSE) EXCEPT !.lim = end, !.left = <<u.m, 0, 0>>]
      <3>1. r.touch = off + 8 /\ r.next = off + 8 /\ r.lim = end /\ r.left = <<u.m, 0, 0>>
        BY <2>5 DEF iter
      <3>2. r.left \in Triples /\ depth(r.left) \in {0, 1}
        BY <1>1, <3>1 DEF Triples, depth
      <3>3. PICK d \in {0, 1} : d = depth(r.left)
        BY <3>2
      <3>4. 2 * (steps + 1) <= off + 8 + 6 - 2 * d /\ 2 * (steps + 1) <= len + 8
        BY <1>1, <1>2, <1>6, <2>1
      <3>5. off + 8 <= len /\ off + 8 <= end /\ end # 0
        BY <1>1, <1>2, <2>2, <2>3, <2>5
      <3> QED BY <1>1, <1>2, <2>2, <3>1, <3>2, <3>3, <3>4, <3>5
    <2>6. CASE r = iter(off + 6, end, {}, FALSE)
      <3>1. r.touch = off + 6 /\ r.next = end /\ r.lim = 0 /\ r.left = left
        BY <1>6, <2>6 DEF iter
      <3> QED BY <1>1, <1>2, <1>6, <2>1, <2>2, <3>1
    <2> QED BY <2>4, <2>5, <2>6
  <1> QED BY <1>4, <1>5, <1>6

-----------------------------------------------------------------------------
(* The walk *)

LEMMA BodyStays ==
    ASSUME WalkInv, walking, continues, NEW u, Field(u), NEW v, Field(v) PROVE Stays(body(u, v))
  <1>1. walker \in Plain \cup Nested \cup {"pd", "interface", "port", "diff"}
    BY DEF WalkInv, Walkers, Sent, Plain, Nested
  <1>2. CASE walker \in Plain
    BY <1>2, SetStays, GetStays, IdentifyStays, CrStays, AlarmCrStays, SimpleStays, TowerStays,
       VlanStays, MultipleStays, DiagnosisStays, AlarmStays, LookupStays DEF body, Plain
  <1>3. CASE walker \in Nested
    BY <1>3, NestedStays DEF body, Nested
  <1>4. CASE walker \in {"pd", "interface", "port", "diff"}
    BY <1>4, PdStays, InterfaceStays, PortStays, DiffStays DEF body
  <1> QED BY <1>1, <1>2, <1>3, <1>4

LEMMA ArrivesInv == AnyInit => WalkInv
  <1> SUFFICES ASSUME NEW w \in Walkers, NEW us \in Seq(Unit), NEW declared \in Nat,
                      NEW honestly \in BOOLEAN, NEW bytes \in Nat,
                      Arrives(w, us, declared, honestly, bytes)
               PROVE  WalkInv
    BY DEF AnyInit
  <1>1. /\ walker = w /\ units = us /\ len = bytes /\ (walking <=> len >= minimal(w)) /\ off = base(w)
        /\ steps = 0 /\ touched = IF walking THEN minimal(w) ELSE 0
    BY DEF Arrives
  <1>2. minimal(w) \in Nat /\ base(w) \in Nat /\ (w \in Nested => base(w) = minimal(w))
    BY DEF minimal, base, Nested
  <1>3. touched \in Nat /\ touched <= len
    BY <1>1, <1>2
  <1>4. lim \in Nat /\ (w \in {"multiple", "alarm"} => lim <= len)
    BY <1>1 DEF Arrives, least, parse_alarm_notification
  <1>5. w \in {"pd", "interface", "port", "diff"} => lim = 0
    BY DEF Arrives
  <1>6. left \in Triples /\ (w \notin Nested => left = <<0, 0, 0>>)
    BY DEF Arrives, Triples, Nested
  <1>7. w \notin Nested => left[1] = 0 /\ ~opened(left) /\ depth(left) = 0
    BY <1>6 DEF opened, depth
  <1>8. w \in Nested => depth(left) \in {0, 1}
    BY DEF Arrives, depth, Nested
  <1>9. walking => Shape(off, lim, left, steps)
    BY <1>1, <1>2, <1>4, <1>5, <1>6, <1>7, <1>8 DEF Shape, Nested
  <1> QED BY <1>1, <1>3, <1>9 DEF WalkInv

LEMMA WalkInvariant == AnyWalk => []WalkInv
  <1>1. WalkInv /\ [WalkNext]_walkVars => WalkInv'
    <2> SUFFICES ASSUME WalkInv, [WalkNext]_walkVars PROVE WalkInv'
      OBVIOUS
    <2>1. CASE Iterate
      <3>1. PICK u \in At(off) : \E v \in IF walker = "diagnosis" THEN At(off + 8) ELSE {u} :
              LET r == body(u, v) IN
              /\ touched' = most(touched, r.touch) /\ off' = r.next /\ lim' = r.lim /\ left' = r.left
              /\ walking' = ~r.stop
        BY <2>1 DEF Iterate
      <3>2. PICK v \in IF walker = "diagnosis" THEN At(off + 8) ELSE {u} :
              LET r == body(u, v) IN
              /\ touched' = most(touched, r.touch) /\ off' = r.next /\ lim' = r.lim /\ left' = r.left
              /\ walking' = ~r.stop
        BY <3>1
      <3>3. PICK r : r = body(u, v)
        OBVIOUS
      <3>4. Field(u) /\ Field(v)
        BY ReadsFields
      <3>5. Stays(r)
        BY <2>1, <3>3, <3>4, BodyStays DEF Iterate
      <3>6. UNCHANGED <<walker, units, len>> /\ steps' = steps + 1
        BY <2>1 DEF Iterate
      <3>7. touched' \in Nat /\ touched' <= len
        BY <3>2, <3>3, <3>5 DEF Stays, most, WalkInv
      <3>8. walking' => Shape(off, lim, left, steps)'
        BY <3>2, <3>3, <3>5, <3>6 DEF Stays, Shape
      <3> QED BY <3>5, <3>6, <3>7, <3>8 DEF WalkInv, Stays
    <2>2. CASE Finish
      BY <2>2 DEF Finish, WalkInv
    <2>3. CASE UNCHANGED walkVars
      BY <2>3 DEF walkVars, WalkInv, Shape
    <2> QED BY <2>1, <2>2, <2>3 DEF WalkNext
  <1> QED BY <1>1, ArrivesInv, PTL DEF AnyWalk

(* No loop of dcp.rs, transport.rs, im.rs, alarms.rs, diagnosis.rs or epm.rs slices  *)
(* or indexes past the bytes that arrived, whatever the lengths and counts in the    *)
(* PDU and wherever it was cut off.                                                  *)
THEOREM WalkersStayInBounds == AnyWalk => []InBounds
  <1>1. WalkInv => InBounds
    BY DEF WalkInv, InBounds
  <1> QED BY <1>1, WalkInvariant, PTL

(* Each of these loops ends after at most one iteration for two bytes that arrived,  *)
(* and four more: no declared length or count makes it spin or go back.              *)
THEOREM WalkersTerminate == AnyWalk => []WorkBounded
  <1>1. WalkInv => WorkBounded
    BY DEF WalkInv, WorkBounded
  <1> QED BY <1>1, WalkInvariant, PTL

-----------------------------------------------------------------------------
(* Honest PDUs *)

(* The walkers that take a PDU unit by unit, and those of records in records. *)
Chained == {"set", "get", "identify", "cr", "alarm_cr", "multiple", "simple", "alarm", "tower",
            "lookup", "vlan"}
Trees   == {"diagnosis", "interface", "port", "pd", "slots", "filter", "diff"}

(* What the walker w is to make of unit j, and what the loop of one that goes unit by *)
(* unit keeps beside its offset when it is at unit i.                                 *)
Wanted(w, us, j) ==
    CASE w \in {"get", "identify"} -> us[j].ty = "want" /\ (j < Len(us) \/ us[j].size > 6)
      [] w \in {"set", "cr", "alarm_cr", "multiple"} -> us[j].ty = "want"
      [] w = "simple" -> us[j].ty # "zero"
      [] w = "vlan" -> us[j].ty = "type"
      [] w = "diagnosis" -> us[j].ty # "location"
      [] w \in {"slots", "filter", "diff"} -> us[j].ty = "sub"
      [] OTHER -> us[j].ty # "other"
Keeps(w, us, i, l) ==
    /\ w \in {"set", "get", "identify"} => l = total(us) - place(us, i)
    /\ w \in {"multiple", "alarm"} => l = total(us)
    /\ w \in {"tower", "lookup"} => l = Len(us) - i + 1

(* An honest PDU that arrived whole. *)
Intact(w, us, n) ==
    /\ w \in Chained \cup Trees /\ us \in Seq(Unit) /\ Encoded(w, us)
    /\ n \in Nat /\ n >= total(us) /\ (n > total(us) => w \in Padded)
Whole(w, us, n) == w \in Chained /\ Intact(w, us, n)

(* The walk is at unit i, and has decoded what it had to of the units before. *)
Reached(i) ==
    /\ i \in 1 .. Len(units) + 1 /\ off = place(units, i) /\ Keeps(walker, units, i, lim)
    /\ walker = "lookup" => off % 4 = 0
    /\ out = {j \in 1 .. i - 1 : Wanted(walker, units, j)}

DecodeInv ==
    /\ Whole(walker, units, len)
    /\ walking => \E i : Reached(i)
    /\ ~walking => out = {j \in DOMAIN units : Wanted(walker, units, j)}

(* Unit i of an honest PDU: what it occupies, and where the others are. *)
Spans(us, i) ==
    /\ us[i].at \in Nat /\ us[i].size \in Nat /\ us[i].n \in Nat /\ us[i].m \in Nat /\ us[i].id = i
    /\ total(us) \in Nat /\ Len(us) \in Nat /\ i \in 1..Len(us)
    /\ us[i].at = place(us, i) /\ us[i].at + us[i].size = place(us, i + 1)
    /\ us[i].at + us[i].size <= total(us)
    /\ i = Len(us) => total(us) = us[i].at + us[i].size

LEMMA IntactSpans ==
    ASSUME NEW w, NEW us, NEW n, Intact(w, us, n), NEW i \in DOMAIN us
    PROVE  Spans(us, i)
  <1>1. us \in Seq(Unit) /\ Len(us) \in Nat /\ DOMAIN us = 1..Len(us)
    BY DEF Intact
  <1>2. \A j \in DOMAIN us : us[j] \in Unit /\ us[j].id = j
    BY <1>1 DEF Intact, Encoded
  <1>3. \A j \in DOMAIN us : us[j].at \in Nat /\ us[j].size \in Nat /\ us[j].n \in Nat /\ us[j].m \in Nat
    BY <1>2 DEF Unit
  <1>4. PICK z : z = Len(us)
    OBVIOUS
  <1>5. z \in DOMAIN us /\ total(us) = us[z].at + us[z].size /\ i <= z
    BY <1>1, <1>4 DEF total
  <1>6. i < z => us[i].at + us[i].size <= us[z].at
    BY <1>5 DEF Intact, Encoded
  <1>7. us[i].at = place(us, i)
    BY <1>4, <1>5 DEF place
  <1>8. us[i].at + us[i].size = place(us, i + 1)
    <2>1. CASE i = z
      <3>1. ~(i + 1 <= Len(us))
        BY <1>1, <1>4, <2>1
      <3> QED BY <1>5, <2>1, <3>1 DEF place
    <2>2. CASE i < z
      <3>1. i + 1 \in DOMAIN us /\ i + 1 <= Len(us) /\ i < i + 1
        BY <1>1, <1>4, <2>2
      <3>2. us[i + 1].at = us[i].at + us[i].size
        BY <3>1 DEF Intact, Encoded
      <3> QED BY <3>1, <3>2 DEF place
    <2> QED BY <1>1, <1>5, <2>1, <2>2
  <1>9. us[i].at + us[i].size <= total(us)
    <2>1. us[i].at \in Nat /\ us[i].size \in Nat /\ us[z].at \in Nat /\ us[z].size \in Nat
      BY <1>3, <1>5
    <2>2. CASE i < z
      BY <1>5, <1>6, <2>1, <2>2
    <2>3. CASE i = z
      BY <1>5, <2>1, <2>3
    <2> QED BY <1>1, <1>5, <2>2, <2>3
  <1> QED BY <1>1, <1>2, <1>3, <1>4, <1>5, <1>7, <1>8, <1>9 DEF Spans

LEMMA UnitSpans ==
    ASSUME NEW w, NEW us, NEW n, Whole(w, us, n), NEW i \in DOMAIN us
    PROVE  Spans(us, i)
  BY IntactSpans DEF Whole

(* What is honest about a unit, one walker at a time. *)
Once(us, i) == \A j \in DOMAIN us : us[i].ty = "want" /\ us[j].ty = "want" => j = i

LEMMA Formed ==
    ASSUME NEW w, NEW us, NEW i, formed(w, us, i), NEW u, u = us[i]
    PROVE  /\ w \in {"set", "get", "identify"} => u.size = 4 + pad2(u.n)
           /\ w = "set" => u.n > 0
           /\ w = "identify" /\ u.ty = "want" => u.m <= body_length(u.n)
           /\ w \in {"cr", "alarm_cr"} => u.size = 4 + u.n
           /\ w \in {"cr", "alarm_cr"} /\ u.ty = "want" => u.n >= 8
           /\ w \in {"cr", "alarm_cr"} /\ u.ty # "want" => u.n >= 2
           /\ w \in {"set", "get", "cr", "alarm_cr"} => Once(us, i)
           /\ w = "multiple" => u.size = align4(4 + u.n) /\ u.n >= 52 /\ u.ty = "want"
           /\ w = "simple" => u.size = 6 /\ (u.ty = "zero" => i = Len(us))
           /\ w = "alarm" => u.size >= 2 + item_size(u.ty) /\ u.ty # "other"
           /\ w = "alarm" /\ takes_rest(u.ty) => i = Len(us)
           /\ w = "alarm" /\ ~takes_rest(u.ty) => u.size = 2 + item_size(u.ty)
           /\ w = "tower" => u.size = 4 + u.n + u.m /\ u.ty # "other"
           /\ w = "lookup" => u.size = align4(24 + u.n) + 4 + align4(u.m) /\ u.ty # "other"
           /\ w = "vlan" /\ i = Len(us) => u.ty = "type" /\ u.size = 2
           /\ w = "vlan" /\ i # Len(us) => u.ty = "tag" /\ u.size = 4
  <1>1. CASE w = "set"
    BY <1>1 DEF formed, Once
  <1>2. CASE w = "get"
    BY <1>2 DEF formed, Once
  <1>3. CASE w = "identify"
    BY <1>3 DEF formed
  <1>4. CASE w \in {"cr", "alarm_cr"}
    BY <1>4 DEF formed, Once
  <1>5. CASE w = "multiple"
    BY <1>5 DEF formed
  <1>6. CASE w = "simple"
    BY <1>6 DEF formed
  <1>7. CASE w = "alarm"
    BY <1>7 DEF formed
  <1>8. CASE w = "tower"
    BY <1>8 DEF formed
  <1>9. CASE w = "lookup"
    BY <1>9 DEF formed
  <1>10. CASE w = "vlan"
    BY <1>10 DEF formed
  <1> QED BY <1>1, <1>2, <1>3, <1>4, <1>5, <1>6, <1>7, <1>8, <1>9, <1>10

(* Each unit has a size, so each begins at a place of its own. *)
LEMMA UnitSize ==
    ASSUME NEW w, NEW us, NEW n, Whole(w, us, n), NEW i \in DOMAIN us
    PROVE  us[i].size >= 2 /\ formed(w, us, i)
  <1>1. Spans(us, i) /\ formed(w, us, i) /\ w \in Chained
    BY UnitSpans DEF Whole, Intact, Encoded
  <1>2. PICK u : u = us[i]
    OBVIOUS
  <1>3. u.size \in Nat /\ u.n \in Nat /\ u.m \in Nat
    BY <1>1, <1>2 DEF Spans
  <1>4. pad2(u.n) \in Nat /\ align4(4 + u.n) >= 4 /\ align4(24 + u.n) \in Nat /\ align4(u.m) \in Nat
    BY <1>3 DEF pad2, align4
  <1>5. item_size(u.ty) \in Nat
    BY DEF item_size
  <1>6. \/ u.size = 4 + pad2(u.n) \/ u.size = 4 + u.n \/ u.size = align4(4 + u.n) \/ u.size = 6
        \/ u.size >= 2 + item_size(u.ty) \/ u.size = 4 + u.n + u.m
        \/ u.size = align4(24 + u.n) + 4 + align4(u.m) \/ u.size = 2 \/ u.size = 4
    <2>1. i = Len(us) \/ i # Len(us)
      OBVIOUS
    <2> QED BY <1>1, <1>2, <2>1, Formed DEF Chained
  <1>7. u.size >= 2
    BY <1>3, <1>4, <1>5, <1>6
  <1> QED BY <1>1, <1>2, <1>7

LEMMA UnitAt ==
    ASSUME Intact(walker, units, len), NEW i \in DOMAIN units, NEW o, o = units[i].at,
           \A j \in DOMAIN units : units[j].size >= 2
    PROVE  At(o) = {units[i]}
  <1>1. Len(units) \in Nat /\ DOMAIN units = 1..Len(units)
    BY DEF Intact
  <1>2. ASSUME NEW j \in DOMAIN units, units[j].at = o PROVE j = i
    <2>1. units[i].at \in Nat /\ units[j].at \in Nat /\ units[i].size >= 2 /\ units[j].size >= 2
          /\ units[i].size \in Nat /\ units[j].size \in Nat
      BY IntactSpans DEF Spans
    <2>2. ~(i < j)
      <3>1. i < j => units[i].at + units[i].size <= units[j].at
        BY DEF Intact, Encoded
      <3> QED BY <1>2, <2>1, <3>1
    <2>3. ~(j < i)
      <3>1. j < i => units[j].at + units[j].size <= units[i].at
        BY DEF Intact, Encoded
      <3> QED BY <1>2, <2>1, <3>1
    <2> QED BY <1>1, <2>2, <2>3
  <1>3. Range(units) = {units[j] : j \in DOMAIN units}
    BY DEF Range
  <1>4. units[i] \in Range(units) /\ \A u \in Range(units) : u.at = o => u = units[i]
    BY <1>2, <1>3
  <1> QED BY <1>4 DEF At

LEMMA ReadsUnit ==
    ASSUME Whole(walker, units, len), NEW i \in DOMAIN units, off = units[i].at
    PROVE  At(off) = {units[i]}
  BY UnitAt, UnitSize DEF Whole

-----------------------------------------------------------------------------
(* One iteration at unit i takes what it is to take and goes on to the next. *)
Takes(i, r) ==
    /\ r.stop \in BOOLEAN
    /\ Wanted(walker, units, i) => r.emits = {i}
    /\ ~Wanted(walker, units, i) => r.emits = {}
    /\ r.stop => \A j \in DOMAIN units : j > i => ~Wanted(walker, units, j)
    /\ ~r.stop => /\ r.next = place(units, i + 1) /\ Keeps(walker, units, i + 1, r.lim)
                  /\ walker = "lookup" => r.next % 4 = 0

(* The numbers at hand there *)
Here(i, u) ==
    /\ Whole(walker, units, len) /\ i \in DOMAIN units /\ u = units[i]
    /\ off = u.at /\ off = place(units, i) /\ Keeps(walker, units, i, lim) /\ formed(walker, units, i)
    /\ off \in Nat /\ u.size \in Nat /\ u.n \in Nat /\ u.m \in Nat /\ u.id = i /\ u.size >= 2
    /\ len \in Nat /\ total(units) \in Nat /\ len >= total(units)
    /\ Len(units) \in Nat /\ i \in 1..Len(units)
    /\ off + u.size = place(units, i + 1) /\ off + u.size <= total(units)
    /\ i = Len(units) => total(units) = off + u.size

LEMMA HereIs ==
    ASSUME Whole(walker, units, len), NEW i \in DOMAIN units, off = place(units, i),
           Keeps(walker, units, i, lim), NEW u, u = units[i]
    PROVE  Here(i, u)
  <1>1. Spans(units, i) /\ u.size >= 2 /\ formed(walker, units, i)
    BY UnitSpans, UnitSize
  <1>2. len \in Nat /\ len >= total(units)
    BY DEF Whole, Intact
  <1> QED BY <1>1, <1>2 DEF Spans, Here

(* Only one unit is wanted. *)
LEMMA OnlyOne ==
    ASSUME NEW i, Once(units, i), units[i].ty = "want",
           walker \in {"set", "get", "cr", "alarm_cr"}
    PROVE  \A j \in DOMAIN units : j # i => ~Wanted(walker, units, j)
  <1>1. \A j \in DOMAIN units : j # i => units[j].ty # "want"
    BY DEF Once
  <1> QED BY <1>1 DEF Wanted

LEMMA SetTakes ==
    ASSUME NEW i, NEW u, Here(i, u), walker = "set", continues, NEW r, r = parse_set_response(u)
    PROVE  Takes(i, r)
  <1>1. /\ off \in Nat /\ u.size \in Nat /\ u.n \in Nat /\ u.m \in Nat /\ u.id = i /\ u = units[i]
        /\ len \in Nat /\ total(units) \in Nat /\ len >= total(units) /\ Len(units) \in Nat
        /\ i \in 1..Len(units) /\ off + u.size = place(units, i + 1) /\ off + u.size <= total(units)
        /\ i = Len(units) => total(units) = off + u.size
    BY DEF Here
  <1>2. u.size = 4 + pad2(u.n) /\ Once(units, i) /\ lim = total(units) - off
    <2>1. formed(walker, units, i) /\ Keeps(walker, units, i, lim) /\ off = place(units, i)
      BY DEF Here
    <2> QED BY <1>1, <2>1, Formed DEF Keeps
  <1>3. pad2(u.n) \in Nat
    BY <1>1, Arithmetic
  <1>4. r.next = off + u.size /\ r.lim = total(units) - (off + u.size)
    <2>1. r.next = least(off + u.size, len) /\ r.lim = lim - u.size
      BY <1>2 DEF parse_set_response, iter
    <2>3. PICK z \in Nat, T \in Nat : z = u.size /\ T = total(units)
      BY <1>1
    <2>4. off + z <= T /\ T <= len /\ off \in Nat /\ len \in Nat
      BY <1>1, <2>3
    <2>5. least(off + z, len) = off + z
      BY <2>4 DEF least
    <2>6. (T - off) - z = T - (off + z)
      BY <2>4
    <2> QED BY <1>2, <2>1, <2>3, <2>5, <2>6
  <1>5. (r.stop <=> u.ty = "want") /\ r.stop \in BOOLEAN
    BY DEF parse_set_response, iter
  <1>6. (u.ty = "want" => r.emits = {i}) /\ (u.ty # "want" => r.emits = {})
    BY <1>1 DEF parse_set_response, iter, decoded
  <1>7. Wanted(walker, units, i) <=> u.ty = "want"
    BY <1>1 DEF Wanted
  <1>8. r.stop => \A j \in DOMAIN units : j > i => ~Wanted(walker, units, j)
    <2>1. ASSUME r.stop PROVE \A j \in DOMAIN units : j # i => ~Wanted(walker, units, j)
      BY <1>1, <1>2, <1>5, <2>1, OnlyOne
    <2> QED BY <1>1, <2>1
  <1>9. Keeps(walker, units, i + 1, r.lim)
    BY <1>1, <1>4 DEF Keeps
  <1> QED BY <1>1, <1>4, <1>5, <1>6, <1>7, <1>8, <1>9 DEF Takes

LEMMA GetTakes ==
    ASSUME NEW i, NEW u, Here(i, u), walker = "get", continues, NEW r, r = parse_get_response(u)
    PROVE  Takes(i, r)
  <1>1. /\ off \in Nat /\ u.size \in Nat /\ u.n \in Nat /\ u.m \in Nat /\ u.id = i /\ u = units[i]
        /\ len \in Nat /\ total(units) \in Nat /\ len >= total(units) /\ Len(units) \in Nat
        /\ i \in 1..Len(units) /\ off + u.size = place(units, i + 1) /\ off + u.size <= total(units)
        /\ i = Len(units) => total(units) = off + u.size
    BY DEF Here
  <1>2. u.size = 4 + pad2(u.n) /\ Once(units, i) /\ lim = total(units) - off
    <2>1. formed(walker, units, i) /\ Keeps(walker, units, i, lim) /\ off = place(units, i)
      BY DEF Here
    <2> QED BY <1>1, <2>1, Formed DEF Keeps
  <1>3. pad2(u.n) \in Nat
    BY <1>1, Arithmetic
  <1>4. r.next = off + u.size /\ r.lim = total(units) - (off + u.size)
    <2>1. r.next = least(off + u.size, len) /\ r.lim = lim - u.size
      BY <1>2 DEF parse_get_response, iter
    <2>3. PICK z \in Nat, T \in Nat : z = u.size /\ T = total(units)
      BY <1>1
    <2>4. off + z <= T /\ T <= len /\ off \in Nat /\ len \in Nat
      BY <1>1, <2>3
    <2>5. least(off + z, len) = off + z
      BY <2>4 DEF least
    <2>6. (T - off) - z = T - (off + z)
      BY <2>4
    <2> QED BY <1>2, <2>1, <2>3, <2>5, <2>6
  <1>5. (r.stop <=> u.ty = "want") /\ r.stop \in BOOLEAN
    BY DEF parse_get_response, iter
  <1>6. (u.ty = "want" => r.emits = {i}) /\ (u.ty # "want" => r.emits = {})
    BY <1>1 DEF parse_get_response, iter, decoded
  <1>7. Wanted(walker, units, i) <=> u.ty = "want"
    <2>1. i < Len(units) \/ u.size > 6
      <3>1. lim > 6
        BY DEF continues
      <3> QED BY <1>1, <1>2, <3>1
    <2> QED BY <1>1, <2>1 DEF Wanted
  <1>8. r.stop => \A j \in DOMAIN units : j > i => ~Wanted(walker, units, j)
    <2>1. ASSUME r.stop PROVE \A j \in DOMAIN units : j # i => ~Wanted(walker, units, j)
      BY <1>1, <1>2, <1>5, <2>1, OnlyOne
    <2> QED BY <1>1, <2>1
  <1>9. Keeps(walker, units, i + 1, r.lim)
    BY <1>1, <1>4 DEF Keeps
  <1> QED BY <1>1, <1>4, <1>5, <1>6, <1>7, <1>8, <1>9 DEF Takes

LEMMA IdentifyTakes ==
    ASSUME NEW i, NEW u, Here(i, u), walker = "identify", continues, NEW r, r = parse_identify_response(u)
    PROVE  Takes(i, r)
  <1>1. /\ off \in Nat /\ u.size \in Nat /\ u.n \in Nat /\ u.m \in Nat /\ u.id = i /\ u = units[i]
        /\ len \in Nat /\ total(units) \in Nat /\ len >= total(units) /\ Len(units) \in Nat
        /\ i \in 1..Len(units) /\ off + u.size = place(units, i + 1) /\ off + u.size <= total(units)
        /\ i = Len(units) => total(units) = off + u.size
    BY DEF Here
  <1>2. u.size = 4 + pad2(u.n) /\ (u.ty = "want" => u.m <= body_length(u.n)) /\ lim = total(units) - off
    <2>1. formed(walker, units, i) /\ Keeps(walker, units, i, lim) /\ off = place(units, i)
      BY DEF Here
    <2> QED BY <1>1, <2>1, Formed DEF Keeps
  <1>3. pad2(u.n) \in Nat /\ u.n <= pad2(u.n) /\ body_length(u.n) \in Nat
    BY <1>1, Arithmetic
  <1>4. r.next = off + u.size /\ r.lim = total(units) - (off + u.size) /\ r.stop = FALSE
    <2>1. r.next = least(off + u.size, len) /\ r.lim = lim - u.size
      BY <1>2 DEF parse_identify_response, iter
    <2>2. r.stop = FALSE
      BY DEF parse_identify_response, iter
    <2>3. PICK z \in Nat, T \in Nat : z = u.size /\ T = total(units)
      BY <1>1
    <2>4. off + z <= T /\ T <= len /\ off \in Nat /\ len \in Nat
      BY <1>1, <2>3
    <2>5. least(off + z, len) = off + z
      BY <2>4 DEF least
    <2>6. (T - off) - z = T - (off + z)
      BY <2>4
    <2> QED BY <1>2, <2>1, <2>2, <2>3, <2>5, <2>6
  <1>5. lim > 6 /\ off + 6 <= len
    BY DEF continues
  <1>6. u.ty = "want" => least(off + 6 + body_length(u.n), len) >= off + 6 + u.m
    <2>1. PICK n \in Nat, p \in Nat, z \in Nat, T \in Nat, m \in Nat, b \in Nat :
            /\ n = u.n /\ p = pad2(u.n) /\ z = u.size /\ T = total(units) /\ m = u.m
            /\ b = body_length(u.n) /\ b = body_length(n)
      BY <1>1, <1>3
    <2>2. n <= p /\ z = 4 + p /\ off + z <= T /\ T <= len /\ off \in Nat /\ len \in Nat /\ off + 6 <= len
      BY <1>1, <1>2, <1>3, <1>5, <2>1
    <2>3. n >= 2 => b = n - 2
      BY <2>1 DEF body_length, most
    <2>4. n < 2 => b = 0
      BY <2>1 DEF body_length, most
    <2>5. off + 6 + b <= len
      BY <2>2, <2>3, <2>4
    <2>6. ASSUME m <= b PROVE least(off + 6 + b, len) >= off + 6 + m
      BY <2>2, <2>5, <2>6 DEF least
    <2> QED BY <1>2, <2>1, <2>6
  <1>7. (u.ty = "want" => r.emits = {i}) /\ (u.ty # "want" => r.emits = {})
    BY <1>1, <1>6 DEF parse_identify_response, iter, decoded
  <1>8. Wanted(walker, units, i) <=> u.ty = "want"
    <2>1. i < Len(units) \/ u.size > 6
      BY <1>1, <1>2, <1>5
    <2> QED BY <1>1, <2>1 DEF Wanted
  <1>9. Keeps(walker, units, i + 1, r.lim)
    BY <1>1, <1>4 DEF Keeps
  <1> QED BY <1>1, <1>4, <1>7, <1>8, <1>9 DEF Takes

LEMMA CrTakes ==
    ASSUME NEW i, NEW u, Here(i, u), walker = "cr", continues, NEW r, r = parse_cr_block_res(u)
    PROVE  Takes(i, r)
  <1>1. /\ off \in Nat /\ u.size \in Nat /\ u.n \in Nat /\ u.m \in Nat /\ u.id = i /\ u = units[i]
        /\ len \in Nat /\ total(units) \in Nat /\ len >= total(units) /\ Len(units) \in Nat
        /\ i \in 1..Len(units) /\ off + u.size = place(units, i + 1) /\ off + u.size <= total(units)
        /\ i = Len(units) => total(units) = off + u.size
    BY DEF Here
  <1>2. u.size = 4 + u.n /\ (u.ty = "want" => u.n >= 8) /\ Once(units, i)
    <2>1. formed(walker, units, i)
      BY DEF Here
    <2> QED BY <1>1, <2>1, Formed
  <1>3. u.ty = "want" => off + 12 <= len
    BY <1>1, <1>2
  <1>4. r.next = off + u.size /\ (r.stop <=> u.ty = "want") /\ r.stop \in BOOLEAN
    <2>1. r.next = off + 4 + u.n
      BY DEF parse_cr_block_res, iter
    <2>2. (r.stop <=> u.ty = "want" /\ off + 12 <= len) /\ r.stop \in BOOLEAN
      BY DEF parse_cr_block_res, iter
    <2>3. PICK n \in Nat, z \in Nat : n = u.n /\ z = u.size /\ z = 4 + n
      BY <1>1, <1>2
    <2>4. off \in Nat
      BY <1>1
    <2>5. off + 4 + n = off + z
      BY <2>3, <2>4
    <2> QED BY <1>3, <2>1, <2>2, <2>3, <2>5
  <1>5. (u.ty = "want" => r.emits = {i}) /\ (u.ty # "want" => r.emits = {})
    BY <1>1, <1>3 DEF parse_cr_block_res, iter, decoded
  <1>6. Wanted(walker, units, i) <=> u.ty = "want"
    BY <1>1 DEF Wanted
  <1>7. r.stop => \A j \in DOMAIN units : j > i => ~Wanted(walker, units, j)
    <2>1. ASSUME r.stop PROVE \A j \in DOMAIN units : j # i => ~Wanted(walker, units, j)
      BY <1>1, <1>2, <1>4, <2>1, OnlyOne
    <2> QED BY <1>1, <2>1
  <1>8. Keeps(walker, units, i + 1, r.lim)
    BY DEF Keeps
  <1> QED BY <1>1, <1>4, <1>5, <1>6, <1>7, <1>8 DEF Takes

LEMMA AlarmCrTakes ==
    ASSUME NEW i, NEW u, Here(i, u), walker = "alarm_cr", continues, NEW r, r = parse_alarm_cr_res(u)
    PROVE  Takes(i, r)
  <1>1. /\ off \in Nat /\ u.size \in Nat /\ u.n \in Nat /\ u.m \in Nat /\ u.id = i /\ u = units[i]
        /\ len \in Nat /\ total(units) \in Nat /\ len >= total(units) /\ Len(units) \in Nat
        /\ i \in 1..Len(units) /\ off + u.size = place(units, i + 1) /\ off + u.size <= total(units)
        /\ i = Len(units) => total(units) = off + u.size
    BY DEF Here
  <1>2. u.size = 4 + u.n /\ (u.ty = "want" => u.n >= 8) /\ Once(units, i)
    <2>1. formed(walker, units, i)
      BY DEF Here
    <2> QED BY <1>1, <2>1, Formed
  <1>3. u.ty = "want" => off + 12 <= len
    BY <1>1, <1>2
  <1>4. r.next = off + u.size /\ (r.stop <=> u.ty = "want") /\ r.stop \in BOOLEAN
    <2>1. r.next = off + 4 + u.n
      BY DEF parse_alarm_cr_res, iter
    <2>2. (r.stop <=> u.ty = "want" /\ off + 12 <= len) /\ r.stop \in BOOLEAN
      BY DEF parse_alarm_cr_res, iter
    <2>3. PICK n \in Nat, z \in Nat : n = u.n /\ z = u.size /\ z = 4 + n
      BY <1>1, <1>2
    <2>4. off \in Nat
      BY <1>1
    <2>5. off + 4 + n = off + z
      BY <2>3, <2>4
    <2> QED BY <1>3, <2>1, <2>2, <2>3, <2>5
  <1>5. (u.ty = "want" => r.emits = {i}) /\ (u.ty # "want" => r.emits = {})
    BY <1>1, <1>3 DEF parse_alarm_cr_res, iter, decoded
  <1>6. Wanted(walker, units, i) <=> u.ty = "want"
    BY <1>1 DEF Wanted
  <1>7. r.stop => \A j \in DOMAIN units : j > i => ~Wanted(walker, units, j)
    <2>1. ASSUME r.stop PROVE \A j \in DOMAIN units : j # i => ~Wanted(walker, units, j)
      BY <1>1, <1>2, <1>4, <2>1, OnlyOne
    <2> QED BY <1>1, <2>1
  <1>8. Keeps(walker, units, i + 1, r.lim)
    BY DEF Keeps
  <1> QED BY <1>1, <1>4, <1>5, <1>6, <1>7, <1>8 DEF Takes

LEMMA MultipleTakes ==
    ASSUME NEW i, NEW u, Here(i, u), walker = "multiple", continues, NEW r, r = parse_write_multiple_response(u)
    PROVE  Takes(i, r)
  <1>1. /\ off \in Nat /\ u.size \in Nat /\ u.n \in Nat /\ u.m \in Nat /\ u.id = i /\ u = units[i]
        /\ len \in Nat /\ total(units) \in Nat /\ len >= total(units) /\ Len(units) \in Nat
        /\ i \in 1..Len(units) /\ off + u.size = place(units, i + 1) /\ off + u.size <= total(units)
        /\ i = Len(units) => total(units) = off + u.size
    BY DEF Here
  <1>2. u.size = align4(4 + u.n) /\ u.ty = "want" /\ lim = total(units)
    <2>1. formed(walker, units, i) /\ Keeps(walker, units, i, lim)
      BY DEF Here
    <2> QED BY <1>1, <2>1, Formed DEF Keeps
  <1>3. r.next = off + u.size /\ r.lim = lim /\ r.stop = FALSE /\ r.emits = {i}
    BY <1>1, <1>2 DEF parse_write_multiple_response, iter, decoded
  <1>4. Wanted(walker, units, i)
    BY <1>1, <1>2 DEF Wanted
  <1>5. Keeps(walker, units, i + 1, r.lim)
    BY <1>2, <1>3 DEF Keeps
  <1> QED BY <1>1, <1>3, <1>4, <1>5 DEF Takes

LEMMA SimpleTakes ==
    ASSUME NEW i, NEW u, Here(i, u), walker = "simple", continues, NEW r, r = parse_diagnosis_simple(u)
    PROVE  Takes(i, r)
  <1>1. /\ off \in Nat /\ u.size \in Nat /\ u.n \in Nat /\ u.m \in Nat /\ u.id = i /\ u = units[i]
        /\ len \in Nat /\ total(units) \in Nat /\ len >= total(units) /\ Len(units) \in Nat
        /\ i \in 1..Len(units) /\ off + u.size = place(units, i + 1) /\ off + u.size <= total(units)
        /\ i = Len(units) => total(units) = off + u.size
    BY DEF Here
  <1>2. u.size = 6 /\ (u.ty = "zero" => i = Len(units))
    <2>1. formed(walker, units, i)
      BY DEF Here
    <2> QED BY <1>1, <2>1, Formed
  <1>3. r.next = off + u.size /\ (r.stop <=> u.ty = "zero") /\ r.stop \in BOOLEAN
    BY <1>1, <1>2 DEF parse_diagnosis_simple, iter
  <1>4. (u.ty # "zero" => r.emits = {i}) /\ (u.ty = "zero" => r.emits = {})
    BY <1>1 DEF parse_diagnosis_simple, iter, decoded
  <1>5. Wanted(walker, units, i) <=> u.ty # "zero"
    BY <1>1 DEF Wanted
  <1>6. r.stop => \A j \in DOMAIN units : ~(j > i)
    BY <1>1, <1>2, <1>3 DEF Here, Whole, Intact
  <1>7. Keeps(walker, units, i + 1, r.lim)
    BY DEF Keeps
  <1> QED BY <1>1, <1>3, <1>4, <1>5, <1>6, <1>7 DEF Takes

LEMMA AlarmTakes ==
    ASSUME NEW i, NEW u, Here(i, u), walker = "alarm", continues, NEW r, r = parse_alarm_item(u)
    PROVE  Takes(i, r)
  <1>1. /\ off \in Nat /\ u.size \in Nat /\ u.n \in Nat /\ u.m \in Nat /\ u.id = i /\ u = units[i]
        /\ len \in Nat /\ total(units) \in Nat /\ len >= total(units) /\ Len(units) \in Nat
        /\ i \in 1..Len(units) /\ off + u.size = place(units, i + 1) /\ off + u.size <= total(units)
        /\ i = Len(units) => total(units) = off + u.size
    BY DEF Here
  <1>2. /\ u.size >= 2 + item_size(u.ty) /\ u.ty # "other" /\ lim = total(units)
        /\ takes_rest(u.ty) => i = Len(units)
        /\ ~takes_rest(u.ty) => u.size = 2 + item_size(u.ty)
    <2>1. formed(walker, units, i) /\ Keeps(walker, units, i, lim)
      BY DEF Here
    <2> QED BY <1>1, <2>1, Formed DEF Keeps
  <1>3. item_size(u.ty) \in Nat
    BY DEF item_size
  <1>4. off + 2 + item_size(u.ty) <= lim /\ ~(off + 2 > lim)
    BY <1>1, <1>2, <1>3
  <1>5. PICK to : to = IF takes_rest(u.ty) THEN lim ELSE off + 2 + item_size(u.ty)
    OBVIOUS
  <1>6. to = off + u.size
    <2>1. PICK z \in Nat, T \in Nat, s \in Nat : z = u.size /\ T = total(units) /\ s = item_size(u.ty)
      BY <1>1, <1>3
    <2>2. CASE takes_rest(u.ty)
      BY <1>1, <1>2, <1>5, <2>2
    <2>3. CASE ~takes_rest(u.ty)
      <3>1. to = off + 2 + s /\ z = 2 + s /\ off \in Nat
        BY <1>1, <1>2, <1>5, <2>1, <2>3
      <3>2. to = off + z
        BY <3>1
      <3> QED BY <2>1, <3>2
    <2> QED BY <2>2, <2>3
  <1>7. r = iter(to, to, decoded(u, TRUE), FALSE)
    BY <1>1, <1>2, <1>3, <1>4, <1>5 DEF parse_alarm_item
  <1>8. r.next = off + u.size /\ r.lim = lim /\ r.stop = FALSE /\ r.emits = {i}
    BY <1>1, <1>6, <1>7 DEF iter, decoded
  <1>9. Wanted(walker, units, i)
    BY <1>1, <1>2 DEF Wanted
  <1>10. Keeps(walker, units, i + 1, r.lim)
    BY <1>2, <1>8 DEF Keeps
  <1> QED BY <1>1, <1>8, <1>9, <1>10 DEF Takes

LEMMA TowerTakes ==
    ASSUME NEW i, NEW u, Here(i, u), walker = "tower", continues, NEW r, r = parse_epm_tower(u)
    PROVE  Takes(i, r)
  <1>1. /\ off \in Nat /\ u.size \in Nat /\ u.n \in Nat /\ u.m \in Nat /\ u.id = i /\ u = units[i]
        /\ len \in Nat /\ total(units) \in Nat /\ len >= total(units) /\ Len(units) \in Nat
        /\ i \in 1..Len(units) /\ off + u.size = place(units, i + 1) /\ off + u.size <= total(units)
        /\ i = Len(units) => total(units) = off + u.size
    BY DEF Here
  <1>2. u.size = 4 + u.n + u.m /\ u.ty # "other" /\ lim = Len(units) - i + 1
    <2>1. formed(walker, units, i) /\ Keeps(walker, units, i, lim)
      BY DEF Here
    <2> QED BY <1>1, <2>1, Formed DEF Keeps
  <1>3. PICK rhs, end : rhs = off + 2 + u.n /\ end = rhs + 2 + u.m
    OBVIOUS
  <1>4. end = off + u.size /\ end <= len /\ ~(rhs > len) /\ ~(rhs + 2 > len)
    <2>1. PICK n \in Nat, m \in Nat, z \in Nat, T \in Nat : n = u.n /\ m = u.m /\ z = u.size /\ T = total(units)
      BY <1>1
    <2>2. /\ rhs = off + 2 + n /\ end = rhs + 2 + m /\ z = 4 + n + m /\ off \in Nat /\ len \in Nat
          /\ off + z <= T /\ T <= len
      BY <1>1, <1>2, <1>3, <2>1
    <2>3. end = off + z /\ end <= len /\ ~(rhs > len) /\ ~(rhs + 2 > len)
      BY <2>2
    <2> QED BY <2>1, <2>3
  <1>5. r = [iter(end, end, decoded(u, TRUE), FALSE) EXCEPT !.lim = lim - 1]
    BY <1>1, <1>3, <1>4 DEF parse_epm_tower
  <1>6. r.next = off + u.size /\ r.lim = lim - 1 /\ r.stop = FALSE /\ r.emits = {i}
    BY <1>1, <1>4, <1>5 DEF iter, decoded
  <1>7. Wanted(walker, units, i)
    BY <1>1, <1>2 DEF Wanted
  <1>8. Keeps(walker, units, i + 1, r.lim)
    BY <1>1, <1>2, <1>6 DEF Keeps
  <1> QED BY <1>1, <1>6, <1>7, <1>8 DEF Takes

LEMMA Aligned ==
    ASSUME NEW o \in Nat, o % 4 = 0, NEW x \in Nat
    PROVE  align4(o + x) = o + align4(x) /\ align4(x) % 4 = 0 /\ (o + align4(x)) % 4 = 0 /\ (o + 4) % 4 = 0
  BY DEF align4

(* An entry of the endpoint map that begins aligned ends aligned. *)
MapEntry(o, n, m, z, bytes, ann, tower, end) ==
    /\ ~(ann > bytes) /\ ~(tower + 4 > bytes) /\ end <= bytes
    /\ align4(end) = o + z /\ align4(end) % 4 = 0

LEMMA EntrySpans ==
    ASSUME NEW o \in Nat, o % 4 = 0, NEW n \in Nat, NEW m \in Nat, NEW z \in Nat, NEW T \in Nat,
           NEW bytes \in Nat, z = align4(24 + n) + 4 + align4(m), o + z <= T, T <= bytes,
           NEW ann, ann = o + 24, NEW tower, tower = align4(ann + n), NEW end, end = tower + 4 + m
    PROVE  MapEntry(o, n, m, z, bytes, ann, tower, end)
  <1>1. PICK x \in Nat : x = 24 + n /\ ann + n = o + x
    OBVIOUS
  <1>2. PICK a \in Nat, b \in Nat : a = align4(x) /\ b = align4(m) /\ x <= a /\ m <= b
    BY Arithmetic
  <1>3. tower = o + a /\ tower % 4 = 0
    <2>1. align4(o + x) = o + align4(x) /\ (o + align4(x)) % 4 = 0
      BY Aligned
    <2> QED BY <1>1, <1>2, <2>1
  <1>4. PICK p \in Nat : p = tower + 4 /\ p % 4 = 0
    <2>1. tower \in Nat
      BY <1>3
    <2>2. (tower + 4) % 4 = 0
      BY <1>3, <2>1, Aligned
    <2> QED BY <2>1, <2>2
  <1>5. end = p + m
    BY <1>4
  <1>6. align4(end) = p + b /\ align4(end) % 4 = 0
    <2>1. align4(p + m) = p + align4(m) /\ (p + align4(m)) % 4 = 0
      BY <1>4, Aligned
    <2> QED BY <1>2, <1>5, <2>1
  <1>7. z = a + 4 + b
    BY <1>1, <1>2
  <1>8. p + b = o + z /\ p = o + a + 4
    BY <1>3, <1>4, <1>7
  <1>9. ~(ann > bytes) /\ ~(p > bytes) /\ p + m <= bytes
    BY <1>1, <1>2, <1>7, <1>8
  <1> QED BY <1>4, <1>5, <1>6, <1>8, <1>9 DEF MapEntry

LEMMA LookupTakes ==
    ASSUME NEW i, NEW u, Here(i, u), walker = "lookup", continues, off % 4 = 0, NEW r, r = parse_epm_response(u)
    PROVE  Takes(i, r)
  <1>1. /\ off \in Nat /\ u.size \in Nat /\ u.n \in Nat /\ u.m \in Nat /\ u.id = i /\ u = units[i]
        /\ len \in Nat /\ total(units) \in Nat /\ len >= total(units) /\ Len(units) \in Nat
        /\ i \in 1..Len(units) /\ off + u.size = place(units, i + 1) /\ off + u.size <= total(units)
        /\ i = Len(units) => total(units) = off + u.size
    BY DEF Here
  <1>2. u.size = align4(24 + u.n) + 4 + align4(u.m) /\ u.ty # "other" /\ lim = Len(units) - i + 1
    <2>1. formed(walker, units, i) /\ Keeps(walker, units, i, lim)
      BY DEF Here
    <2> QED BY <1>1, <2>1, Formed DEF Keeps
  <1>3. PICK n \in Nat, m \in Nat, z \in Nat, T \in Nat : n = u.n /\ m = u.m /\ z = u.size /\ T = total(units)
    BY <1>1
  <1>4. PICK ann, tower, end : ann = off + 24 /\ tower = align4(ann + n) /\ end = tower + 4 + m
    OBVIOUS
  <1>5. z = align4(24 + n) + 4 + align4(m) /\ off + z <= T /\ T <= len /\ off \in Nat /\ len \in Nat
    BY <1>1, <1>2, <1>3
  <1>6. MapEntry(off, n, m, z, len, ann, tower, end)
    BY <1>4, <1>5, EntrySpans
  <1>7. ~(ann > len) /\ ~(tower + 4 > len) /\ end <= len /\ align4(end) = off + u.size /\ align4(end) % 4 = 0
    BY <1>3, <1>6 DEF MapEntry
  <1>8. r = [iter(end, align4(end), decoded(u, TRUE), FALSE) EXCEPT !.lim = lim - 1]
    BY <1>3, <1>4, <1>7 DEF parse_epm_response
  <1>9. r.next = off + u.size /\ r.next % 4 = 0 /\ r.lim = lim - 1 /\ r.stop = FALSE /\ r.emits = {i}
    BY <1>1, <1>7, <1>8 DEF iter, decoded
  <1>10. Wanted(walker, units, i)
    BY <1>1, <1>2 DEF Wanted
  <1>11. Keeps(walker, units, i + 1, r.lim)
    BY <1>1, <1>2, <1>9 DEF Keeps
  <1> QED BY <1>1, <1>9, <1>10, <1>11 DEF Takes

LEMMA VlanTakes ==
    ASSUME NEW i, NEW u, Here(i, u), walker = "vlan", continues, NEW r, r = skip_vlan_tags(u)
    PROVE  Takes(i, r)
  <1>1. /\ off \in Nat /\ u.size \in Nat /\ u.n \in Nat /\ u.m \in Nat /\ u.id = i /\ u = units[i]
        /\ len \in Nat /\ total(units) \in Nat /\ len >= total(units) /\ Len(units) \in Nat
        /\ i \in 1..Len(units) /\ off + u.size = place(units, i + 1) /\ off + u.size <= total(units)
        /\ i = Len(units) => total(units) = off + u.size
    BY DEF Here
  <1>2. /\ i = Len(units) => u.ty = "type"
        /\ i # Len(units) => u.ty = "tag" /\ u.size = 4
    <2>1. formed(walker, units, i)
      BY DEF Here
    <2> QED BY <1>1, <2>1, Formed
  <1>3. CASE i = Len(units)
    <2>1. r.stop = TRUE /\ r.emits = {i}
      BY <1>1, <1>2, <1>3 DEF skip_vlan_tags, iter, decoded
    <2>2. Wanted(walker, units, i)
      BY <1>1, <1>2, <1>3 DEF Wanted
    <2>3. \A j \in DOMAIN units : ~(j > i)
      BY <1>1, <1>3 DEF Here, Whole, Intact
    <2> QED BY <2>1, <2>2, <2>3 DEF Takes
  <1>4. CASE i # Len(units)
    <2>1. off + 4 <= len
      BY <1>1, <1>2, <1>4
    <2>2. r.stop = FALSE /\ r.next = off + u.size /\ r.emits = {}
      BY <1>1, <1>2, <1>4, <2>1 DEF skip_vlan_tags, iter, decoded
    <2>3. ~Wanted(walker, units, i)
      BY <1>1, <1>2, <1>4 DEF Wanted
    <2>4. Keeps(walker, units, i + 1, r.lim)
      BY DEF Keeps
    <2> QED BY <1>1, <2>2, <2>3, <2>4 DEF Takes
  <1> QED BY <1>3, <1>4

-----------------------------------------------------------------------------
(* The loop goes on at every unit, and not behind the last one.  A DCP loop leaves a *)
(* last block that carries nothing.                                                  *)
LEMMA WholeLength ==
    ASSUME NEW w, NEW us, NEW n, Whole(w, us, n)
    PROVE  /\ Len(us) \in Nat /\ Len(us) >= 1 /\ DOMAIN us = 1..Len(us) /\ total(us) \in Nat
           /\ n \in Nat /\ n >= total(us) /\ (w \notin Padded => n = total(us)) /\ w \in Chained
  <1>1. us \in Seq(Unit) /\ us # <<>>
    BY DEF Whole, Intact, Encoded
  <1>2. Len(us) \in Nat /\ Len(us) >= 1 /\ DOMAIN us = 1..Len(us)
    BY <1>1
  <1>3. 1 \in DOMAIN us
    BY <1>2
  <1>4. total(us) \in Nat
    BY <1>3, UnitSpans DEF Spans
  <1>5. n \in Nat /\ n >= total(us) /\ (n > total(us) => w \in Padded) /\ w \in Chained
    BY DEF Whole, Intact
  <1> QED BY <1>2, <1>4, <1>5

LEMMA StopsAtEnd ==
    ASSUME Whole(walker, units, len), off = place(units, Len(units) + 1),
           Keeps(walker, units, Len(units) + 1, lim)
    PROVE  ~continues
  <1>1. /\ Len(units) \in Nat /\ total(units) \in Nat /\ len \in Nat /\ walker \in Chained
        /\ walker \notin Padded => len = total(units)
    BY WholeLength
  <1>2. off = total(units)
    BY <1>1 DEF place
  <1>3. PICK T \in Nat, z \in Nat : T = total(units) /\ z = Len(units)
    BY <1>1
  <1>4. /\ walker \in {"set", "get", "identify"} => lim = T - T
        /\ walker \in {"multiple", "alarm"} => lim = T
        /\ walker \in {"tower", "lookup"} => lim = z - (z + 1) + 1
    BY <1>2, <1>3 DEF Keeps
  <1>5. CASE walker \in {"set", "get", "identify"}
    <2>1. ~(lim > 4) /\ ~(lim > 6)
      BY <1>4, <1>5
    <2> QED BY <1>5, <2>1 DEF continues
  <1>6. CASE walker = "multiple"
    <2>1. ~(off + 56 <= lim)
      BY <1>2, <1>3, <1>4, <1>6
    <2> QED BY <1>6, <2>1 DEF continues
  <1>7. CASE walker = "alarm"
    <2>1. ~(off < lim)
      BY <1>2, <1>3, <1>4, <1>7
    <2> QED BY <1>7, <2>1 DEF continues
  <1>8. CASE walker \in {"tower", "lookup"}
    <2>1. ~(lim > 0)
      BY <1>4, <1>8
    <2> QED BY <1>8, <2>1 DEF continues
  <1>9. CASE walker \in {"cr", "alarm_cr", "simple", "vlan"}
    <2>1. len = T /\ off = T
      BY <1>1, <1>2, <1>3, <1>9 DEF Padded
    <2>2. ~(off + 6 <= len) /\ ~(off + 2 <= len)
      BY <2>1
    <2> QED BY <1>9, <2>2 DEF continues
  <1> QED BY <1>1, <1>5, <1>6, <1>7, <1>8, <1>9 DEF Chained

LEMMA GoesOn ==
    ASSUME NEW i, NEW u, Here(i, u), ~continues
    PROVE  \A j \in DOMAIN units : j >= i => ~Wanted(walker, units, j)
  <1>1. Whole(walker, units, len) /\ u = units[i] /\ i \in DOMAIN units
    BY DEF Here
  <1>2. PICK T \in Nat, k \in Nat, z \in Nat, n \in Nat, m \in Nat :
          T = total(units) /\ k = Len(units) /\ z = u.size /\ n = u.n /\ m = u.m
    BY DEF Here
  <1>3. /\ off \in Nat /\ len \in Nat /\ T <= len /\ off + z <= T /\ z >= 2
        /\ i \in 1..k /\ (i = k => T = off + z) /\ DOMAIN units = 1..k /\ walker \in Chained
    <2>1. DOMAIN units = 1..k /\ walker \in Chained
      BY <1>1, <1>2, WholeLength
    <2> QED BY <1>2, <2>1 DEF Here
  <1>4. /\ walker \in {"set", "get", "identify"} => lim = T - off
        /\ walker \in {"multiple", "alarm"} => lim = T
        /\ walker \in {"tower", "lookup"} => lim = k - i + 1
    BY <1>2 DEF Here, Keeps
  <1>5. formed(walker, units, i)
    BY DEF Here
  <1>6. CASE walker = "set"
    <2>1. z = 4 + pad2(n) /\ n > 0
      BY <1>1, <1>2, <1>5, <1>6, Formed
    <2>2. pad2(n) \in Nat /\ n <= pad2(n)
      BY Arithmetic
    <2>3. T - off > 4 /\ off + 4 <= len
      BY <1>3, <2>1, <2>2
    <2> QED BY <1>4, <1>6, <2>3 DEF continues
  <1>7. CASE walker \in {"get", "identify"}
    <2>1. z = 4 + pad2(n)
      BY <1>1, <1>2, <1>5, <1>7, Formed
    <2>2. pad2(n) \in Nat
      BY Arithmetic
    <2>3. ~(lim > 6 /\ off + 6 <= len)
      BY <1>7 DEF continues
    <2>4. T - off <= 6
      BY <1>3, <1>4, <1>7, <2>3
    <2>5. i = k
      <3>1. SUFFICES ASSUME i # k PROVE FALSE
        OBVIOUS
      <3>2. i + 1 \in DOMAIN units /\ i \in Nat
        BY <1>3, <3>1
      <3>3. Spans(units, i + 1) /\ formed(walker, units, i + 1)
        BY <1>1, <3>2, UnitSpans, UnitSize
      <3>4. PICK y \in Nat, a \in Nat, q \in Nat :
              y = units[i + 1].size /\ a = units[i + 1].at /\ q = units[i + 1].n
        BY <3>3 DEF Spans
      <3>5. a = off + z /\ a + y <= T
        BY <1>2, <3>3, <3>4 DEF Spans, Here
      <3>6. y = 4 + pad2(q)
        BY <1>7, <3>3, <3>4, Formed
      <3>7. pad2(q) \in Nat
        BY Arithmetic
      <3>8. PICK p \in Nat, b \in Nat : p = pad2(n) /\ b = pad2(q)
        BY <2>2, <3>7
      <3>9. z = 4 + p /\ y = 4 + b /\ off + z + y <= T /\ T - off <= 6 /\ off \in Nat
        BY <1>3, <2>1, <2>4, <3>5, <3>6, <3>8
      <3> QED BY <3>9
    <2>6. ~(z > 6)
      BY <1>3, <2>4, <2>5
    <2>7. ~Wanted(walker, units, i)
      BY <1>1, <1>2, <1>7, <2>5, <2>6 DEF Wanted
    <2>8. \A j \in DOMAIN units : j >= i => j = i
      BY <1>3, <2>5
    <2> QED BY <2>7, <2>8
  <1>8. CASE walker \in {"cr", "alarm_cr"}
    <2>1. z = 4 + n /\ n >= 2
      <3>1. n >= 8 \/ n >= 2
        BY <1>1, <1>2, <1>5, <1>8, Formed
      <3>2. z = 4 + n
        BY <1>1, <1>2, <1>5, <1>8, Formed
      <3> QED BY <3>1, <3>2
    <2>2. off + 6 <= len
      BY <1>3, <2>1
    <2> QED BY <1>8, <2>2 DEF continues
  <1>9. CASE walker = "simple"
    <2>1. z = 6
      BY <1>1, <1>2, <1>5, <1>9, Formed
    <2>2. off + 6 <= len
      BY <1>3, <2>1
    <2> QED BY <1>9, <2>2 DEF continues
  <1>10. CASE walker = "multiple"
    <2>1. z = align4(4 + n) /\ n >= 52
      BY <1>1, <1>2, <1>5, <1>10, Formed
    <2>2. 4 + n \in Nat /\ align4(4 + n) \in Nat /\ 4 + n <= align4(4 + n)
      BY Arithmetic
    <2>3. off + 56 <= T
      BY <1>3, <2>1, <2>2
    <2> QED BY <1>4, <1>10, <2>3 DEF continues
  <1>11. CASE walker = "alarm"
    <2>1. off < T
      BY <1>3
    <2> QED BY <1>4, <1>11, <2>1 DEF continues
  <1>12. CASE walker = "tower"
    <2>1. z = 4 + n + m
      BY <1>1, <1>2, <1>5, <1>12, Formed
    <2>2. off + 4 <= len
      BY <1>3, <2>1
    <2>3. lim > 0
      BY <1>3, <1>4, <1>12
    <2> QED BY <1>12, <2>2, <2>3 DEF continues
  <1>13. CASE walker = "lookup"
    <2>1. z = align4(24 + n) + 4 + align4(m)
      BY <1>1, <1>2, <1>5, <1>13, Formed
    <2>2. PICK x \in Nat : x = 24 + n
      OBVIOUS
    <2>3. align4(x) \in Nat /\ x <= align4(x) /\ align4(m) \in Nat
      BY Arithmetic
    <2>4. off + 16 <= len
      BY <1>3, <2>1, <2>2, <2>3
    <2>5. lim > 0
      BY <1>3, <1>4, <1>13
    <2> QED BY <1>13, <2>4, <2>5 DEF continues
  <1>14. CASE walker = "vlan"
    <2>1. off + 2 <= len
      BY <1>3
    <2> QED BY <1>14, <2>1 DEF continues
  <1> QED BY <1>3, <1>6, <1>7, <1>8, <1>9, <1>10, <1>11, <1>12, <1>13, <1>14 DEF Chained

-----------------------------------------------------------------------------
LEMMA DecodeInitial == ASSUME HonestInit, walker \in Chained PROVE DecodeInv
  <1>2. PICK w \in Chained, us \in Seq(Unit), extra \in Nat :
          /\ Encoded(w, us) /\ (extra > 0 => w \in Padded)
          /\ Arrives(w, us, truth(w, us), TRUE, total(us) + extra)
    BY DEF HonestInit, Arrives
  <1>3. /\ walker = w /\ units = us /\ len = total(us) + extra /\ off = base(w) /\ out = {}
        /\ walking = (len >= minimal(w))
    BY <1>2 DEF Arrives
  <1>4. total(us) \in Nat /\ Spans(us, 1) /\ us[1].size >= 2 /\ us[1].at = base(w) /\ Len(us) \in Nat
        /\ Len(us) >= 1 /\ 1 \in DOMAIN us
    <2>1. us # <<>> /\ Len(us) \in Nat /\ Len(us) >= 1 /\ DOMAIN us = 1..Len(us) /\ 1 \in DOMAIN us
      BY <1>2 DEF Encoded
    <2>2. Whole(w, us, total(us)) \/ total(us) \notin Nat
      BY <1>2 DEF Whole, Intact
    <2>3. total(us) \in Nat
      <3>1. us[Len(us)] \in Unit
        BY <2>1
      <3> QED BY <3>1 DEF total, Unit
    <2>4. Whole(w, us, total(us))
      BY <2>2, <2>3
    <2> QED BY <1>2, <2>1, <2>3, <2>4, UnitSpans, UnitSize DEF Encoded
  <1>5. Whole(walker, units, len)
    BY <1>2, <1>3, <1>4 DEF Whole, Intact
  <1>6. PICK T \in Nat, z \in Nat, k \in Nat : T = total(us) /\ z = us[1].size /\ k = Len(us)
    BY <1>4 DEF Spans
  <1>7. base(w) + z <= T /\ z >= 2 /\ base(w) \in Nat
    BY <1>4, <1>6 DEF Spans
  <1>8. minimal(w) <= base(w) + 2 /\ minimal(w) \in Nat
    <2>1. CASE w \in {"tower", "lookup", "vlan"}
      BY <2>1 DEF minimal, base
    <2>2. CASE w \notin {"tower", "lookup", "vlan"}
      <3>1. minimal(w) = base(w)
        BY <2>2 DEF minimal
      <3> QED BY <1>7, <3>1
    <2> QED BY <2>1, <2>2
  <1>9. walking = TRUE
    <2>1. len = T + extra
      BY <1>3, <1>6
    <2>2. len >= minimal(w)
      BY <1>7, <1>8, <2>1
    <2> QED BY <1>3, <2>2
  <1>10. off = place(units, 1)
    BY <1>3, <1>4 DEF Spans
  <1>11. Keeps(walker, units, 1, lim)
    <2>1. lim = CASE w \in {"set", "get", "identify", "tower", "lookup"} -> truth(w, us)
                  [] w = "multiple" -> least(64 + truth(w, us), len)
                  [] w = "alarm" -> parse_alarm_notification(truth(w, us))
                  [] OTHER -> 0
      BY <1>2 DEF Arrives
    <2>2. CASE w \in {"set", "get", "identify"}
      <3>1. lim = total(us) - base(w)
        BY <2>1, <2>2 DEF truth
      <3> QED BY <1>3, <1>10, <2>2, <3>1 DEF Keeps
    <2>3. CASE w \in {"tower", "lookup"}
      <3>1. lim = k /\ k = k - 1 + 1
        BY <1>6, <2>1, <2>3 DEF truth
      <3> QED BY <1>3, <1>6, <2>3, <3>1 DEF Keeps
    <2>4. CASE w = "multiple"
      <3>1. lim = least(64 + (T - base(w)), len) /\ base(w) = 64
        BY <1>6, <2>1, <2>4 DEF truth, base
      <3>2. len = T + extra
        BY <1>3, <1>6
      <3>3. lim = T
        BY <3>1, <3>2 DEF least
      <3> QED BY <1>3, <1>6, <2>4, <3>3 DEF Keeps
    <2>5. CASE w = "alarm"
      <3>1. lim = parse_alarm_notification(T) /\ base(w) = 26
        BY <1>6, <2>1, <2>5 DEF truth, base
      <3>2. len = T + extra
        BY <1>3, <1>6
      <3>3. lim = T
        BY <1>7, <3>1, <3>2 DEF parse_alarm_notification
      <3> QED BY <1>3, <1>6, <2>5, <3>3 DEF Keeps
    <2>6. CASE w \notin {"set", "get", "identify", "tower", "lookup", "multiple", "alarm"}
      BY <1>3, <2>6 DEF Keeps
    <2> QED BY <2>2, <2>3, <2>4, <2>5, <2>6
  <1>12. walker = "lookup" => off % 4 = 0
    <2>1. walker = "lookup" => off = 20
      BY <1>3 DEF base
    <2>2. 20 % 4 = 0
      OBVIOUS
    <2> QED BY <2>1, <2>2
  <1>13. out = {j \in 1 .. 1 - 1 : Wanted(walker, units, j)}
    <2>1. 1 .. 1 - 1 = {}
      OBVIOUS
    <2> QED BY <1>3, <2>1
  <1>14. Reached(1)
    BY <1>3, <1>4, <1>10, <1>11, <1>12, <1>13 DEF Reached
  <1> QED BY <1>5, <1>9, <1>14 DEF DecodeInv

(* The loop's body at a unit *)
LEMMA BodyTakes ==
    ASSUME NEW i, NEW u, Here(i, u), continues, walker = "lookup" => off % 4 = 0, NEW v
    PROVE  Takes(i, body(u, v))
  <1>1. walker \in Chained
    BY DEF Here, Whole, Intact
  <1>2. CASE walker = "set"
    BY <1>2, SetTakes DEF body
  <1>3. CASE walker = "get"
    BY <1>3, GetTakes DEF body
  <1>4. CASE walker = "identify"
    BY <1>4, IdentifyTakes DEF body
  <1>5. CASE walker = "cr"
    BY <1>5, CrTakes DEF body
  <1>6. CASE walker = "alarm_cr"
    BY <1>6, AlarmCrTakes DEF body
  <1>7. CASE walker = "multiple"
    BY <1>7, MultipleTakes DEF body
  <1>8. CASE walker = "simple"
    BY <1>8, SimpleTakes DEF body
  <1>9. CASE walker = "alarm"
    BY <1>9, AlarmTakes DEF body
  <1>10. CASE walker = "tower"
    BY <1>10, TowerTakes DEF body
  <1>11. CASE walker = "lookup"
    BY <1>11, LookupTakes DEF body
  <1>12. CASE walker = "vlan"
    BY <1>12, VlanTakes DEF body
  <1> QED BY <1>1, <1>2, <1>3, <1>4, <1>5, <1>6, <1>7, <1>8, <1>9, <1>10, <1>11, <1>12 DEF Chained

(* What was decoded after one more unit *)
LEMMA DecodesOneMore ==
    ASSUME NEW w, NEW us, NEW i \in Nat, i >= 1, NEW o, o = {j \in 1 .. i - 1 : Wanted(w, us, j)},
           NEW e, Wanted(w, us, i) => e = {i}, ~Wanted(w, us, i) => e = {}
    PROVE  o \cup e = {j \in 1 .. i : Wanted(w, us, j)}
  <1>1. \A j : j \in 1 .. i <=> (j \in 1 .. i - 1 \/ j = i)
    OBVIOUS
  <1>2. CASE Wanted(w, us, i)
    BY <1>1, <1>2
  <1>3. CASE ~Wanted(w, us, i)
    BY <1>1, <1>3
  <1> QED BY <1>2, <1>3

LEMMA NoMore ==
    ASSUME NEW w, NEW us, NEW i \in Nat, NEW k \in Nat, i <= k,
           \A j \in 1 .. k : j > i => ~Wanted(w, us, j)
    PROVE  {j \in 1 .. i : Wanted(w, us, j)} = {j \in 1 .. k : Wanted(w, us, j)}
  <1>1. \A j \in 1 .. k : j \in 1 .. i \/ j > i
    OBVIOUS
  <1>2. \A j \in 1 .. i : j \in 1 .. k
    OBVIOUS
  <1> QED BY <1>1, <1>2

LEMMA DecodeStep == DecodeInv /\ [WalkNext]_walkVars => DecodeInv'
  <1>1. SUFFICES ASSUME DecodeInv, [WalkNext]_walkVars PROVE DecodeInv'
    OBVIOUS
  <1>2. /\ Whole(walker, units, len) /\ Len(units) \in Nat /\ Len(units) >= 1
        /\ DOMAIN units = 1..Len(units)
    BY <1>1, WholeLength DEF DecodeInv
  <1>3. CASE UNCHANGED walkVars
    BY <1>1, <1>3 DEF DecodeInv, walkVars, Reached
  <1>4. CASE Iterate
    <2>1. walking /\ continues /\ UNCHANGED <<walker, units, honest, len>>
      BY <1>4 DEF Iterate
    <2>2. PICK i : Reached(i)
      BY <1>1, <2>1 DEF DecodeInv
    <2>3. i \in DOMAIN units
      <3>1. i # Len(units) + 1
        BY <1>2, <2>1, <2>2, StopsAtEnd DEF Reached
      <3> QED BY <1>2, <2>2, <3>1 DEF Reached
    <2>4. PICK u : u = units[i]
      OBVIOUS
    <2>5. Here(i, u)
      BY <1>2, <2>2, <2>3, <2>4, HereIs DEF Reached
    <2>6. At(off) = {u}
      BY <1>2, <2>3, <2>4, <2>5, ReadsUnit DEF Here
    <2>7. PICK v, r : /\ r = body(u, v) /\ off' = r.next /\ lim' = r.lim
                      /\ out' = out \cup r.emits /\ walking' = ~r.stop
      BY <1>4, <2>6 DEF Iterate
    <2>8. Takes(i, r)
      BY <2>1, <2>2, <2>5, <2>7, BodyTakes DEF Reached
    <2>9. PICK k \in Nat : k = Len(units) /\ i \in 1..k /\ i \in Nat
      <3>1. i \in 1..Len(units)
        BY <1>2, <2>3
      <3>2. i \in Nat
        BY <1>2, <3>1
      <3> QED BY <1>2, <3>1, <3>2
    <2>10. out' = {j \in 1 .. i : Wanted(walker, units, j)}
      <3>1. out = {j \in 1 .. i - 1 : Wanted(walker, units, j)}
        BY <2>2 DEF Reached
      <3>2. (Wanted(walker, units, i) => r.emits = {i}) /\ (~Wanted(walker, units, i) => r.emits = {})
        BY <2>8 DEF Takes
      <3>3. out \cup r.emits = {j \in 1 .. i : Wanted(walker, units, j)}
        BY <2>9, <3>1, <3>2, DecodesOneMore
      <3> QED BY <2>7, <3>3
    <2>11. CASE r.stop
      <3>1. walking' = FALSE
        BY <2>7, <2>11
      <3>2. \A j \in DOMAIN units : j > i => ~Wanted(walker, units, j)
        BY <2>8, <2>11 DEF Takes
      <3>3. {j \in 1 .. i : Wanted(walker, units, j)} = {j \in 1 .. k : Wanted(walker, units, j)}
        BY <1>2, <2>9, <3>2, NoMore
      <3>4. out' = {j \in DOMAIN units : Wanted(walker, units, j)}
        BY <1>2, <2>9, <2>10, <3>3
      <3> QED BY <1>2, <2>1, <3>1, <3>4 DEF DecodeInv
    <2>12. CASE ~r.stop
      <3>1. walking' = TRUE
        BY <2>7, <2>8, <2>12 DEF Takes
      <3>2. /\ off' = place(units, i + 1) /\ Keeps(walker, units, i + 1, lim')
            /\ walker = "lookup" => off' % 4 = 0
        BY <2>7, <2>8, <2>12 DEF Takes
      <3>3. i + 1 \in 1 .. Len(units) + 1 /\ (i + 1) - 1 = i
        BY <2>9
      <3>4. PICK x : x = i + 1
        OBVIOUS
      <3>5. x - 1 = i
        BY <3>3, <3>4
      <3>6. Reached(x)'
        BY <2>1, <2>10, <3>2, <3>3, <3>4, <3>5 DEF Reached
      <3> QED BY <1>2, <2>1, <3>1, <3>6 DEF DecodeInv
    <2> QED BY <2>11, <2>12
  <1>5. CASE Finish
    <2>1. walking /\ ~continues /\ walking' = FALSE /\ UNCHANGED <<walker, units, len, out>>
      BY <1>5 DEF Finish
    <2>2. PICK i : Reached(i)
      BY <1>1, <2>1 DEF DecodeInv
    <2>3. PICK k \in Nat : k = Len(units) /\ i \in 1 .. k + 1
      BY <1>2, <2>2 DEF Reached
    <2>4. out = {j \in 1 .. i - 1 : Wanted(walker, units, j)} /\ i - 1 \in Nat /\ i - 1 <= k
      BY <2>2, <2>3 DEF Reached
    <2>5. \A j \in 1 .. k : j > i - 1 => ~Wanted(walker, units, j)
      <3>1. CASE i = k + 1
        BY <2>3, <3>1
      <3>2. CASE i # k + 1
        <4>1. i \in DOMAIN units
          BY <1>2, <2>3, <3>2
        <4>2. PICK u : u = units[i]
          OBVIOUS
        <4>3. Here(i, u)
          BY <1>2, <2>2, <4>1, <4>2, HereIs DEF Reached
        <4>4. \A j \in DOMAIN units : j >= i => ~Wanted(walker, units, j)
          BY <2>1, <4>3, GoesOn
        <4>5. \A j \in 1 .. k : j > i - 1 => j >= i /\ j \in DOMAIN units
          BY <1>2, <2>3
        <4> QED BY <4>4, <4>5
      <3> QED BY <3>1, <3>2
    <2>6. out = {j \in 1 .. k : Wanted(walker, units, j)}
      <3>1. PICK x \in Nat : x = i - 1
        BY <2>4
      <3>2. out = {j \in 1 .. x : Wanted(walker, units, j)} /\ x <= k
        BY <2>4, <3>1
      <3>3. \A j \in 1 .. k : j > x => ~Wanted(walker, units, j)
        BY <2>5, <3>1
      <3> QED BY <3>2, <3>3, NoMore
    <2>7. out' = {j \in DOMAIN units : Wanted(walker, units, j)}
      BY <1>2, <2>1, <2>3, <2>6
    <2> QED BY <1>2, <2>1, <2>7 DEF DecodeInv
  <1> QED BY <1>1, <1>3, <1>4, <1>5 DEF WalkNext

-----------------------------------------------------------------------------
(* Records of records: the walkers of diagnosis, of the real data and of the slot lists *)

(* Records in records: blocks that hold other units, and those of no interest, at *)
(* the top of a PDU.                                                              *)
outer(w) == IF w = "pd" THEN {"multi", "other"} ELSE {"diff", "other"}

(* l is where the block ends that unit i is in, 0 outside of all. *)
Ends(w, us, i, l, j) ==
    /\ j \in i .. Len(us) + 1 /\ l = place(us, j)
    /\ \A h \in i .. j - 1 : us[h].ty \notin outer(w)
    /\ j <= Len(us) => us[j].ty \in outer(w)
Within(w, us, i, l) ==
    /\ l = 0 /\ i <= Len(us) => us[i].ty \in outer(w)
    /\ l # 0 => \E j : Ends(w, us, i, l, j)

(* k is what of a tree is still to come. *)
Counted(us, i, k) == k \in Triples /\ \A level \in 1..3 : k[level] = Cardinality(entries(us, i, level))

(* What the loop keeps when it is at unit i. *)
Holds(w, us, i, l, k) ==
    /\ w \in {"interface", "port"} => i <= Len(us)
    /\ w = "port" => /\ place(us, i) % 4 = 0
                     /\ i = 1 => k[1] = 0
                     /\ i > 1 => k[1] = 1 /\ l = Len(us) - i
    /\ w \in {"slots", "filter", "diff"} => Counted(us, i, k)
    /\ w = "pd" => k \in Triples /\ ~opened(k)
    /\ w \in {"pd", "diff"} => Within(w, us, i, l)

TreeReached(i) ==
    /\ i \in 1 .. Len(units) + 1 /\ off = place(units, i) /\ Holds(walker, units, i, lim, left)
    /\ out = {j \in 1 .. i - 1 : Wanted(walker, units, j)}

TreeInv ==
    /\ Intact(walker, units, len) /\ walker \in Trees
    /\ walking => \E i : TreeReached(i)
    /\ ~walking => out = {j \in DOMAIN units : Wanted(walker, units, j)}

(* What is honest about a unit, one walker at a time. *)
LEMMA TreeFormed ==
    ASSUME NEW w, NEW us, NEW i, formed(w, us, i), NEW u, u = us[i]
    PROVE  /\ w = "diagnosis" /\ u.ty = "location" => u.size = 8 /\ i # Len(us) /\ us[i + 1].ty # "location"
           /\ w = "diagnosis" /\ u.ty # "location" => u.size = entry_size(u.ty)
           /\ w = "interface" => /\ i = 1 /\ i = Len(us) /\ u.ty # "other"
                                 /\ u.size = align4(align4(7 + u.n) + 6) + 6
           /\ w = "port" /\ i = 1 => u.ty = "port" /\ u.size = align4(6 + u.n) /\ u.m = Len(us) - 2
           /\ w = "port" /\ i > 1 /\ i # Len(us) =>
                u.ty = "peer" /\ u.size = align4(align4(2 + u.n + u.m) + 6)
           /\ w = "port" /\ i > 1 /\ i = Len(us) => u.ty = "tail" /\ u.size = 20
           /\ w = "pd" /\ u.ty = "multi" =>
                u.size = 16 /\ u.n >= 2 /\ closes(us, i, u.at + 4 + u.n, {"multi", "other"})
           /\ w = "pd" /\ u.ty # "multi" => u.size = 4 + u.n /\ u.n >= 2
           /\ w = "pd" /\ u.ty \notin {"multi", "other"} => i > 1 /\ us[i - 1].ty # "other"
           /\ w \in {"slots", "filter"} => grown(us, i, <<6, 8, 6>>, {})
           /\ w = "diff" /\ u.ty = "other" => u.size = 4 + u.n /\ u.n >= 2
           /\ w = "diff" /\ u.ty = "diff" =>
                /\ u.size = 8 /\ u.m = Cardinality(entries(us, i + 1, 1))
                /\ closes(us, i, u.at + 4 + u.n, {"diff", "other"})
           /\ w = "diff" /\ u.ty \notin {"diff", "other"} => grown(us, i, <<6, 10, 8>>, {"diff"})
  <1>1. CASE w = "diagnosis"
    BY <1>1 DEF formed
  <1>2. CASE w = "interface"
    BY <1>2 DEF formed
  <1>3. CASE w = "port"
    BY <1>3 DEF formed
  <1>4. CASE w = "pd"
    BY <1>4 DEF formed
  <1>5. CASE w \in {"slots", "filter"}
    BY <1>5 DEF formed
  <1>6. CASE w = "diff"
    BY <1>6 DEF formed
  <1> QED BY <1>1, <1>2, <1>3, <1>4, <1>5, <1>6

LEMMA Grown ==
    ASSUME NEW us, NEW i, NEW sizes, NEW roots, grown(us, i, sizes, roots), NEW u, u = us[i]
    PROVE  /\ u.ty \in {"api", "slot", "sub"}
           /\ u.ty = "api" => u.size = sizes[1] /\ u.n = Cardinality(entries(us, i + 1, 2))
           /\ u.ty = "api" /\ roots # {} => i > 1 /\ us[i - 1].ty \in roots \cup {"api", "slot", "sub"}
           /\ u.ty = "slot" => /\ u.size = sizes[2] /\ u.n = Cardinality(entries(us, i + 1, 3))
                               /\ i > 1 /\ us[i - 1].ty \in {"api", "slot", "sub"}
           /\ u.ty = "sub" => u.size = sizes[3] /\ i > 1 /\ us[i - 1].ty \in {"slot", "sub"}
  <1>1. CASE u.ty = "api"
    BY <1>1 DEF grown
  <1>2. CASE u.ty = "slot"
    BY <1>2 DEF grown
  <1>3. CASE u.ty = "sub"
    BY <1>3 DEF grown
  <1> QED BY <1>1, <1>2, <1>3 DEF grown

LEMMA TreeSize ==
    ASSUME NEW w \in Trees, NEW us, NEW n, Intact(w, us, n), NEW i \in DOMAIN us
    PROVE  us[i].size >= 2 /\ formed(w, us, i)
  <1>1. Spans(us, i) /\ formed(w, us, i)
    BY IntactSpans DEF Intact, Encoded
  <1>2. PICK u : u = us[i]
    OBVIOUS
  <1>3. PICK z \in Nat, x \in Nat, m \in Nat : z = u.size /\ x = u.n /\ m = u.m
    BY <1>1, <1>2 DEF Spans
  <1>4. i \in 1..Len(us) /\ Len(us) \in Nat
    BY <1>1 DEF Spans
  <1>5. CASE w = "diagnosis"
    <2>1. z = 8 \/ z = entry_size(u.ty)
      BY <1>1, <1>2, <1>3, <1>5, TreeFormed
    <2>2. entry_size(u.ty) \in {8, 14, 18}
      BY DEF entry_size
    <2> QED BY <1>2, <1>3, <1>1, <2>1, <2>2
  <1>6. CASE w = "interface"
    <2>1. z = align4(align4(7 + x) + 6) + 6
      BY <1>1, <1>2, <1>3, <1>6, TreeFormed
    <2>2. PICK a \in Nat : a = align4(7 + x)
      BY Arithmetic
    <2>3. align4(a + 6) \in Nat
      BY Arithmetic
    <2> QED BY <1>2, <1>3, <1>1, <2>1, <2>2, <2>3
  <1>7. CASE w = "port"
    <2>1. \/ z = align4(6 + x) \/ z = align4(align4(2 + x + m) + 6) \/ z = 20
      <3>1. i = 1 \/ (i > 1 /\ i # Len(us)) \/ (i > 1 /\ i = Len(us))
        BY <1>4
      <3> QED BY <1>1, <1>2, <1>3, <1>7, <3>1, TreeFormed
    <2>2. PICK a \in Nat : a = align4(2 + x + m)
      BY Arithmetic
    <2>3. align4(a + 6) >= a + 6 /\ align4(6 + x) >= 6 + x
      <3>1. a + 6 \in Nat /\ 6 + x \in Nat
        OBVIOUS
      <3> QED BY <3>1, Arithmetic
    <2> QED BY <1>2, <1>3, <1>1, <2>1, <2>2, <2>3
  <1>8. CASE w = "pd"
    <2>1. z = 16 \/ z = 4 + x
      BY <1>1, <1>2, <1>3, <1>8, TreeFormed
    <2> QED BY <1>2, <1>3, <1>1, <2>1
  <1>9. CASE w \in {"slots", "filter"}
    <2>1. grown(us, i, <<6, 8, 6>>, {})
      BY <1>1, <1>2, <1>9, TreeFormed
    <2>2. PICK sizes : sizes = <<6, 8, 6>>
      OBVIOUS
    <2>3. z \in {sizes[1], sizes[2], sizes[3]}
      BY <1>2, <1>3, <2>1, <2>2, Grown
    <2> QED BY <1>2, <1>3, <1>1, <2>2, <2>3
  <1>10. CASE w = "diff"
    <2>1. CASE u.ty \in {"diff", "other"}
      <3>1. z = 4 + x \/ z = 8
        BY <1>1, <1>2, <1>3, <1>10, <2>1, TreeFormed
      <3> QED BY <1>2, <1>3, <1>1, <3>1
    <2>2. CASE u.ty \notin {"diff", "other"}
      <3>1. grown(us, i, <<6, 10, 8>>, {"diff"})
        BY <1>1, <1>2, <1>10, <2>2, TreeFormed
      <3>2. PICK sizes : sizes = <<6, 10, 8>>
        OBVIOUS
      <3>3. z \in {sizes[1], sizes[2], sizes[3]}
        BY <1>2, <1>3, <3>1, <3>2, Grown
      <3> QED BY <1>2, <1>3, <1>1, <3>2, <3>3
    <2> QED BY <2>1, <2>2
  <1> QED BY <1>5, <1>6, <1>7, <1>8, <1>9, <1>10 DEF Trees

LEMMA TreeLength ==
    ASSUME NEW w \in Trees, NEW us, NEW n, Intact(w, us, n)
    PROVE  /\ Len(us) \in Nat /\ Len(us) >= 1 /\ DOMAIN us = 1..Len(us) /\ total(us) \in Nat
           /\ n = total(us)
  <1>1. us \in Seq(Unit) /\ us # <<>> /\ n \in Nat /\ n >= total(us) /\ (n > total(us) => w \in Padded)
    BY DEF Intact, Encoded
  <1>2. Len(us) \in Nat /\ Len(us) >= 1 /\ DOMAIN us = 1..Len(us)
    BY <1>1
  <1>3. 1 \in DOMAIN us
    BY <1>2
  <1>4. total(us) \in Nat
    BY <1>3, IntactSpans DEF Spans
  <1>5. w \notin Padded
    BY DEF Trees, Padded
  <1> QED BY <1>1, <1>2, <1>4, <1>5

LEMMA PlaceGrows ==
    ASSUME NEW w \in Trees, NEW us, NEW n, Intact(w, us, n), NEW i \in DOMAIN us,
           NEW j \in i + 1 .. Len(us) + 1
    PROVE  place(us, i) + us[i].size <= place(us, j) /\ place(us, j) <= total(us) /\ place(us, j) \in Nat
  <1>1. Spans(us, i)
    BY IntactSpans
  <1>2. i \in 1..Len(us) /\ Len(us) \in Nat /\ DOMAIN us = 1..Len(us)
    BY TreeLength
  <1>3. CASE j = Len(us) + 1
    <2>1. ~(j <= Len(us))
      BY <1>2, <1>3
    <2> QED BY <1>1, <2>1 DEF place, Spans
  <1>4. CASE j # Len(us) + 1
    <2>1. j \in DOMAIN us /\ i < j /\ j <= Len(us)
      BY <1>2, <1>4
    <2>2. Spans(us, j)
      BY <2>1, IntactSpans
    <2>3. us[i].at + us[i].size <= us[j].at
      BY <2>1 DEF Intact, Encoded
    <2>4. place(us, j) = us[j].at /\ place(us, i) = us[i].at
      BY <1>1, <2>2 DEF Spans
    <2>5. us[j].at \in Nat /\ us[j].size \in Nat /\ us[j].at + us[j].size <= total(us) /\ total(us) \in Nat
      BY <2>2 DEF Spans
    <2>6. us[j].at <= total(us)
      BY <2>5
    <2> QED BY <2>3, <2>4, <2>5, <2>6
  <1> QED BY <1>3, <1>4

-----------------------------------------------------------------------------
(* One iteration at unit i takes the units up to k, of each what it is to take, and *)
(* goes on to the next.                                                             *)
TakesTo(i, k, r) ==
    /\ r.stop \in BOOLEAN /\ k \in i .. Len(units)
    /\ r.emits = {j \in i .. k : Wanted(walker, units, j)}
    /\ r.stop => \A j \in DOMAIN units : j > k => ~Wanted(walker, units, j)
    /\ ~r.stop => r.next = place(units, k + 1) /\ Holds(walker, units, k + 1, r.lim, r.left)

There(i, u) ==
    /\ Intact(walker, units, len) /\ walker \in Trees /\ i \in DOMAIN units /\ u = units[i]
    /\ off = u.at /\ off = place(units, i) /\ Holds(walker, units, i, lim, left)
    /\ formed(walker, units, i)
    /\ off \in Nat /\ u.size \in Nat /\ u.n \in Nat /\ u.m \in Nat /\ u.id = i /\ u.size >= 2
    /\ len \in Nat /\ len = total(units) /\ Len(units) \in Nat /\ i \in 1..Len(units)
    /\ DOMAIN units = 1..Len(units)
    /\ off + u.size = place(units, i + 1) /\ off + u.size <= len
    /\ i = Len(units) => len = off + u.size

LEMMA ThereIs ==
    ASSUME Intact(walker, units, len), walker \in Trees, NEW i \in DOMAIN units, off = place(units, i),
           Holds(walker, units, i, lim, left), NEW u, u = units[i]
    PROVE  There(i, u)
  <1>1. Spans(units, i) /\ u.size >= 2 /\ formed(walker, units, i)
    BY IntactSpans, TreeSize
  <1>2. len = total(units) /\ DOMAIN units = 1..Len(units)
    BY TreeLength
  <1> QED BY <1>1, <1>2 DEF Spans, There

(* What was taken is one unit, which is wanted or not. *)
LEMMA TakesOne ==
    ASSUME NEW i \in Nat, NEW e, Wanted(walker, units, i) => e = {i}, ~Wanted(walker, units, i) => e = {}
    PROVE  e = {j \in i .. i : Wanted(walker, units, j)}
  <1>1. \A j : j \in i .. i <=> j = i
    OBVIOUS
  <1>2. CASE Wanted(walker, units, i)
    BY <1>1, <1>2
  <1>3. CASE ~Wanted(walker, units, i)
    BY <1>1, <1>3
  <1> QED BY <1>2, <1>3

(* An iteration that goes on, and one that is the last. *)
LEMMA Iterated ==
    ASSUME NEW r, NEW t, NEW next, NEW e, r = iter(t, next, e, FALSE)
    PROVE  r.next = next /\ r.emits = e /\ r.lim = lim /\ r.left = left /\ r.stop = FALSE
  BY DEF iter

LEMMA Ended ==
    ASSUME NEW r, NEW t, NEW next, NEW e, r = iter(t, next, e, TRUE)
    PROVE  r.emits = e /\ r.stop = TRUE
  <1>1. r.emits = e
    BY DEF iter
  <1>2. r.stop = TRUE
    BY DEF iter
  <1> QED BY <1>1, <1>2

LEMMA TakesAndGoesOn ==
    ASSUME NEW i, NEW k \in i .. Len(units), NEW r, r.stop \in BOOLEAN, ~r.stop,
           r.next = place(units, k + 1),
           r.emits = {j \in i .. k : Wanted(walker, units, j)},
           Holds(walker, units, k + 1, r.lim, r.left)
    PROVE  TakesTo(i, k, r)
  BY DEF TakesTo

LEMMA TakesAndEnds ==
    ASSUME NEW i, NEW k \in i .. Len(units), NEW r, r.stop = TRUE,
           r.emits = {j \in i .. k : Wanted(walker, units, j)},
           \A j \in DOMAIN units : j > k => ~Wanted(walker, units, j)
    PROVE  TakesTo(i, k, r)
  <1>1. r.stop \in BOOLEAN /\ r.stop
    OBVIOUS
  <1> QED BY <1>1 DEF TakesTo

LEMMA InterfaceTakes ==
    ASSUME NEW i, NEW u, There(i, u), walker = "interface", NEW r, r = parse_pd_interface_data_real(u)
    PROVE  TakesTo(i, i, r)
  <1>1. /\ off \in Nat /\ u.size \in Nat /\ u.n \in Nat /\ u.id = i /\ u = units[i] /\ len \in Nat
        /\ Len(units) \in Nat /\ i \in 1..Len(units) /\ off = u.at /\ DOMAIN units = 1..Len(units)
        /\ i = Len(units) => len = off + u.size
    BY DEF There
  <1>2. i = 1 /\ i = Len(units) /\ u.ty # "other" /\ u.size = align4(align4(7 + u.n) + 6) + 6
    BY <1>1, TreeFormed DEF There
  <1>3. off = 6
    BY <1>1, <1>2 DEF There, Intact, Encoded, base
  <1>4. PICK n \in Nat : n = u.n
    BY <1>1
  <1>5. PICK chassis \in Nat : chassis = off + 1 + u.n /\ chassis = 7 + n
    BY <1>3, <1>4
  <1>6. PICK a \in Nat : a = align4(chassis) /\ a >= chassis
    BY Arithmetic
  <1>7. PICK mac \in Nat : mac = align4(chassis) + 6 /\ mac = a + 6
    BY <1>6
  <1>8. PICK b \in Nat : b = align4(mac) /\ b >= mac
    BY Arithmetic
  <1>9. PICK ip \in Nat : ip = align4(mac) + 12 /\ ip = b + 12
    BY <1>8
  <1>10. u.size = b + 6
    BY <1>2, <1>4, <1>5, <1>6, <1>7, <1>8
  <1>11. ip <= len /\ ~(mac > len) /\ ~(chassis > len) /\ ~(off + 1 > len)
    <2>1. len = 6 + (b + 6)
      BY <1>1, <1>2, <1>3, <1>10
    <2> QED BY <1>3, <1>5, <1>6, <1>7, <1>8, <1>9, <2>1
  <1>12. r = iter(ip, ip, decoded(u, TRUE), TRUE)
    <2>1. r = CASE off + 1 > len                   -> iter(0, off, {}, TRUE)
                [] off + 1 <= len /\ chassis > len -> iter(off + 1, off, {}, TRUE)
                [] chassis <= len /\ mac > len     -> iter(chassis, off, {}, TRUE)
                [] mac <= len /\ ip > len          -> iter(mac, off, {}, TRUE)
                [] ip <= len                       -> iter(ip, ip, decoded(u, TRUE), TRUE)
      BY <1>5, <1>7, <1>9 DEF parse_pd_interface_data_real
    <2>2. len \in Nat
      BY <1>1
    <2>3. ~(ip > len)
      BY <1>11, <2>2
    <2> QED BY <1>11, <2>1, <2>3
  <1>13. r.stop = TRUE /\ r.emits = {i}
    <2>1. decoded(u, TRUE) = {i}
      BY <1>1 DEF decoded
    <2> QED BY <1>12, <2>1, Ended
  <1>14. Wanted(walker, units, i)
    BY <1>1, <1>2 DEF Wanted
  <1>a. i \in Nat /\ i = Len(units) /\ DOMAIN units = 1 .. i
    BY <1>1, <1>2
  <1>15. r.emits = {j \in i .. i : Wanted(walker, units, j)}
    BY <1>a, <1>13, <1>14, TakesOne
  <1>16. i \in i .. Len(units) /\ \A j \in DOMAIN units : ~(j > i)
    BY <1>a
  <1> QED BY <1>13, <1>15, <1>16, TakesAndEnds

LEMMA LocationFormed ==
    ASSUME NEW us, NEW i \in 1 .. Len(us), Len(us) \in Nat, NEW w, w = "diagnosis", formed(w, us, i),
           us[i].ty = "location"
    PROVE  us[i].size = 8 /\ i # Len(us) /\ us[i + 1].ty # "location"
  <1>1. us[i].size = 8 /\ i # Len(us)
    BY DEF formed
  <1>2. us[i + 1].ty # "location"
    BY DEF formed
  <1> QED BY <1>1, <1>2

LEMMA DiagnosisTakes ==
    ASSUME NEW i, NEW u, There(i, u), walker = "diagnosis",
           NEW v, u.ty = "location" => v = units[i + 1], NEW r, r = parse_diagnosis_block(u, v)
    PROVE  \E k : TakesTo(i, k, r)
  <1>1. /\ off \in Nat /\ u.size \in Nat /\ u.n \in Nat /\ u.id = i /\ u = units[i] /\ len \in Nat
        /\ Len(units) \in Nat /\ i \in 1..Len(units) /\ off = u.at /\ DOMAIN units = 1..Len(units)
        /\ Intact(walker, units, len) /\ walker \in Trees
        /\ off + u.size = place(units, i + 1) /\ off + u.size <= len
    BY DEF There
  <1>2. formed(walker, units, i)
    BY DEF There
  <1>3. \A x : Holds(walker, units, x, r.lim, r.left)
    BY DEF Holds
  <1>4. \A ty : entry_size(ty) \in {8, 14, 18}
    BY DEF entry_size
  <1>5. CASE u.ty # "location"
    <2>1. u.size = entry_size(u.ty)
      BY <1>1, <1>2, <1>5, TreeFormed
    <2>2. PICK z \in Nat : z = entry_size(u.ty) /\ z = u.size /\ z >= 8
      BY <1>4, <2>1
    <2>3. off + z <= len /\ ~(off + 0 + 6 > len) /\ off + 0 = off /\ ~(off + z > len)
      BY <1>1, <2>2
    <2>4. r = iter(off + z, off + z, decoded(u, off + z <= len), off + z > len)
      BY <1>5, <2>2, <2>3 DEF parse_diagnosis_block
    <2>5. ~r.stop /\ r.stop \in BOOLEAN /\ r.next = off + z /\ r.emits = {i}
      <3>1. decoded(u, off + z <= len) = {i}
        BY <1>1, <2>3 DEF decoded
      <3>2. r.next = off + z /\ r.emits = decoded(u, off + z <= len)
        BY <2>4 DEF iter
      <3>3. PICK s : s = (off + z > len)
        OBVIOUS
      <3>4. ~s
        BY <1>1, <2>3, <3>3
      <3>7. s \in BOOLEAN
        BY <3>3
      <3>5. r.stop = s
        BY <2>4, <3>3 DEF iter
      <3>6. ~r.stop /\ r.stop \in BOOLEAN
        BY <3>4, <3>5, <3>7
      <3> QED BY <3>1, <3>2, <3>6
    <2>6. Wanted(walker, units, i)
      BY <1>1, <1>5 DEF Wanted
    <2>7. r.emits = {j \in i .. i : Wanted(walker, units, j)}
      BY <1>1, <2>5, <2>6, TakesOne
    <2>8. i \in i .. Len(units) /\ r.next = place(units, i + 1)
      BY <1>1, <2>2, <2>5
    <2>9. TakesTo(i, i, r)
      BY <1>3, <2>5, <2>7, <2>8, TakesAndGoesOn
    <2> QED BY <2>9
  <1>6. CASE u.ty = "location"
    <2>1. u.size = 8 /\ i # Len(units) /\ units[i + 1].ty # "location" /\ v = units[i + 1]
      <3>1. u.size = 8 /\ i # Len(units) /\ units[i + 1].ty # "location"
        BY <1>1, <1>2, <1>6, LocationFormed
      <3> QED BY <1>6, <3>1
    <2>2. PICK x \in Nat : x = i + 1 /\ x \in DOMAIN units /\ x \in 1 .. Len(units)
      BY <1>1, <2>1
    <2>3. Spans(units, x) /\ formed(walker, units, x)
      BY <1>1, <2>2, IntactSpans, TreeSize
    <2>4. v = units[x] /\ v.ty # "location" /\ v.id = x
      BY <2>1, <2>2, <2>3 DEF Spans
    <2>5. v.size = entry_size(v.ty)
      BY <2>3, <2>4, TreeFormed
    <2>6. PICK z \in Nat : z = entry_size(v.ty) /\ z = v.size /\ z >= 8
      BY <1>4, <2>5
    <2>a. off \in Nat /\ len \in Nat
      BY <1>1
    <2>b. off + 8 = place(units, x)
      BY <1>1, <2>1, <2>2
    <2>7. PICK at \in Nat : at = off + 8 /\ at = place(units, x)
      BY <2>a, <2>b
    <2>8. at + z = place(units, x + 1) /\ at + z <= len
      <3>1. at = v.at /\ at + z <= total(units)
        BY <2>3, <2>4, <2>6, <2>7 DEF Spans
      <3>2. len = total(units)
        BY <1>1, TreeLength
      <3> QED BY <2>3, <2>4, <2>6, <3>1, <3>2 DEF Spans
    <2>9. off + 8 <= len /\ ~(at + 6 > len) /\ ~(at + z > len)
      BY <2>a, <2>6, <2>7, <2>8
    <2>10. r = iter(at + z, at + z, decoded(v, at + z <= len), at + z > len)
      BY <1>6, <2>6, <2>7, <2>8, <2>9 DEF parse_diagnosis_block
    <2>11. ~r.stop /\ r.stop \in BOOLEAN /\ r.next = at + z /\ r.emits = {x}
      <3>1. decoded(v, at + z <= len) = {x}
        BY <2>4, <2>8 DEF decoded
      <3>2. r.next = at + z /\ r.emits = decoded(v, at + z <= len)
        BY <2>10 DEF iter
      <3>3. PICK s : s = (at + z > len)
        OBVIOUS
      <3>4. ~s
        BY <2>a, <2>9, <3>3
      <3>7. s \in BOOLEAN
        BY <3>3
      <3>5. r.stop = s
        BY <2>10, <3>3 DEF iter
      <3>6. ~r.stop /\ r.stop \in BOOLEAN
        BY <3>4, <3>5, <3>7
      <3> QED BY <3>1, <3>2, <3>6
    <2>12. Wanted(walker, units, x) /\ ~Wanted(walker, units, i)
      BY <1>1, <1>6, <2>4 DEF Wanted
    <2>13. \A j : j \in i .. x <=> (j = i \/ j = x)
      BY <1>1, <2>2
    <2>14. r.emits = {j \in i .. x : Wanted(walker, units, j)}
      BY <2>11, <2>12, <2>13
    <2>15. x \in i .. Len(units)
      BY <1>1, <2>2
    <2>16. TakesTo(i, x, r)
      BY <1>3, <2>8, <2>11, <2>14, <2>15, TakesAndGoesOn
    <2> QED BY <2>16
  <1> QED BY <1>5, <1>6

(* A port whose fields all fit, and a peer whose fields do. *)
LEMMA PortFits ==
    ASSUME off \in Nat, len \in Nat, NEW u, NEW n \in Nat, n = u.n, left[1] = 0, off + 6 + n <= len,
           NEW r, r = parse_pd_port_data_real(u)
    PROVE  /\ r.stop = FALSE /\ r.next = align4(off + 6 + n) /\ r.emits = decoded(u, TRUE)
           /\ r.left = <<1, 0, 0>> /\ r.lim = u.m
  <1> DEFINE fits(at, z) == IF at + z <= len THEN at + z ELSE at
  <1>1. PICK port \in Nat : port = fits(off, 4) /\ port = off + 4
    OBVIOUS
  <1>2. PICK id \in Nat : id = fits(port + 1, n) /\ id = off + 5 + n
    BY <1>1
  <1>3. PICK count \in Nat : count = fits(id, 1) /\ count = off + 6 + n
    BY <1>2
  <1>4. PICK e : e = decoded(u, TRUE)
    OBVIOUS
  <1>5. port + 1 <= len /\ ~(port + 1 > len) /\ count > id
    BY <1>1, <1>2, <1>3
  <1>6. r = [iter(count, align4(count), e, FALSE)
               EXCEPT !.left = <<1, 0, 0>>, !.lim = IF count > id THEN u.m ELSE 0]
    <2>1. left[1] # 1
      OBVIOUS
    <2> QED BY <1>1, <1>2, <1>3, <1>4, <1>5, <2>1 DEF parse_pd_port_data_real
  <1> HIDE DEF fits
  <1>7. /\ r.stop = FALSE /\ r.next = align4(count) /\ r.emits = e /\ r.left = <<1, 0, 0>>
        /\ r.lim = IF count > id THEN u.m ELSE 0
    BY <1>6 DEF iter
  <1> QED BY <1>3, <1>4, <1>5, <1>7

PeerFitting(u, a) ==
    /\ off \in Nat /\ len \in Nat /\ u.n \in Nat /\ u.m \in Nat /\ left[1] = 1 /\ lim \in Nat /\ lim > 0
    /\ a \in Nat /\ a = align4(off + 2 + u.n + u.m) /\ a + 6 <= len
PeerTaken(u, a, r) ==
    /\ r.stop = FALSE /\ r.next = align4(a + 6) /\ r.emits = decoded(u, TRUE)
    /\ r.left = left /\ r.lim = lim - 1

LEMMA PeerFits ==
    ASSUME NEW u, NEW a, PeerFitting(u, a), NEW r, r = parse_pd_port_data_real(u)
    PROVE  PeerTaken(u, a, r)
  <1> DEFINE fits(at, z) == IF at + z <= len THEN at + z ELSE at
  <1>a. /\ off \in Nat /\ len \in Nat /\ left[1] = 1 /\ lim \in Nat /\ lim > 0 /\ a \in Nat
        /\ a + 6 <= len
    BY DEF PeerFitting
  <1>b. PICK n \in Nat, m \in Nat : n = u.n /\ m = u.m
    BY DEF PeerFitting
  <1>0. PICK x \in Nat : x = off + 2 + n + m /\ a = align4(x)
    BY <1>a, <1>b DEF PeerFitting
  <1>1. a >= off + 2 + n + m
    BY <1>0, Arithmetic
  <1>2. PICK name_ \in Nat : name_ = fits(off + 1, n) /\ name_ = off + 1 + n
    BY <1>a, <1>1
  <1>3. PICK chassis \in Nat : chassis = fits(name_ + 1, m) /\ chassis = off + 2 + n + m
    BY <1>a, <1>1, <1>2
  <1>4. PICK mac \in Nat : mac = fits(align4(chassis), 6) /\ mac = a + 6
    BY <1>a, <1>0, <1>3
  <1>5. PICK e : e = decoded(u, TRUE)
    OBVIOUS
  <1>6. off + 1 <= len /\ ~(off + 1 > len) /\ name_ + 1 <= len /\ ~(name_ + 1 > len) /\ mac <= len
    BY <1>a, <1>1, <1>2, <1>3, <1>4
  <1>7. left[1] # 0 /\ lim # 0
    BY <1>a
  <1>8. r = [iter(IF mac <= len THEN mac ELSE chassis, align4(mac), e, FALSE) EXCEPT !.lim = lim - 1]
    BY <1>a, <1>b, <1>0, <1>2, <1>3, <1>4, <1>5, <1>6, <1>7 DEF parse_pd_port_data_real
  <1> HIDE DEF fits
  <1>9. r.stop = FALSE /\ r.next = align4(mac) /\ r.emits = e /\ r.left = left /\ r.lim = lim - 1
    BY <1>8 DEF iter
  <1> QED BY <1>4, <1>5, <1>9 DEF PeerTaken

LEMMA TailFits ==
    ASSUME NEW u, left[1] = 1, lim = 0, NEW r, r = parse_pd_port_data_real(u)
    PROVE  r.stop = TRUE /\ r.emits = decoded(u, TRUE)
  <1> DEFINE fits(at, z) == IF at + z <= len THEN at + z ELSE at
  <1>1. PICK media : media = fits(align4(fits(fits(align4(fits(off, 2)), 8), 2)), 4)
    OBVIOUS
  <1>2. left[1] # 0 /\ ~(lim > 0)
    OBVIOUS
  <1>3. PICK e : e = decoded(u, TRUE)
    OBVIOUS
  <1>4. r = iter(least(media, len), media, e, TRUE)
    BY <1>1, <1>2, <1>3 DEF parse_pd_port_data_real
  <1> HIDE DEF fits
  <1>5. PICK t, next : r = iter(t, next, e, TRUE)
    BY <1>4
  <1>6. r.stop = TRUE /\ r.emits = e
    BY <1>5, Ended
  <1> QED BY <1>3, <1>6

LEMMA PortTakes ==
    ASSUME NEW i, NEW u, There(i, u), walker = "port", NEW r, r = parse_pd_port_data_real(u)
    PROVE  TakesTo(i, i, r)
  <1>1. /\ off \in Nat /\ u.size \in Nat /\ u.n \in Nat /\ u.m \in Nat /\ len \in Nat
        /\ off + u.size = place(units, i + 1) /\ off + u.size <= len
    BY DEF There
  <1>2. u.id = i /\ u = units[i] /\ Len(units) \in Nat /\ i \in 1..Len(units) /\ DOMAIN units = 1..Len(units)
    BY DEF There
  <1>3. formed(walker, units, i) /\ Holds(walker, units, i, lim, left) /\ off = place(units, i)
    BY DEF There
  <1>4. off % 4 = 0 /\ (i = 1 => left[1] = 0) /\ (i > 1 => left[1] = 1 /\ lim = Len(units) - i)
    BY <1>3 DEF Holds
  <1>5. PICK n \in Nat, m \in Nat, z \in Nat, k \in Nat : n = u.n /\ m = u.m /\ z = u.size /\ k = Len(units)
    BY <1>1, <1>2
  <1>6. i \in Nat /\ i \in 1..k /\ i \in i .. Len(units)
    BY <1>2, <1>5
  <1>a. i \in i .. Len(units)
    BY <1>6
  <1>7. decoded(u, TRUE) = {i}
    BY <1>2 DEF decoded
  <1>8. i = 1 \/ (i > 1 /\ i # Len(units)) \/ (i > 1 /\ i = Len(units))
    BY <1>5, <1>6
  <1>9. /\ i = 1 => u.ty = "port" /\ z = align4(6 + n) /\ m = k - 2
        /\ i > 1 /\ i # Len(units) => u.ty = "peer" /\ z = align4(align4(2 + n + m) + 6)
        /\ i > 1 /\ i = Len(units) => u.ty = "tail"
    <2>1. u = units[i]
      BY <1>2
    <2>2. i = 1 => u.ty = "port" /\ u.size = align4(6 + u.n) /\ u.m = Len(units) - 2
      BY <1>3, <2>1, TreeFormed
    <2>3. i > 1 /\ i # Len(units) => u.ty = "peer" /\ u.size = align4(align4(2 + u.n + u.m) + 6)
      BY <1>3, <2>1, TreeFormed
    <2>4. i > 1 /\ i = Len(units) => u.ty = "tail"
      BY <1>3, <2>1, TreeFormed
    <2> QED BY <1>5, <2>2, <2>3, <2>4
  <1>10. Wanted(walker, units, i)
    BY <1>2, <1>8, <1>9 DEF Wanted
  <1>11. r.emits = decoded(u, TRUE) => r.emits = {j \in i .. i : Wanted(walker, units, j)}
    BY <1>6, <1>7, <1>10, TakesOne
  <1>12. CASE i = 1
    <2>1. left[1] = 0 /\ z = align4(6 + n) /\ m = k - 2
      BY <1>4, <1>9, <1>12
    <2>2. align4(6 + n) \in Nat /\ 6 + n <= align4(6 + n)
      <3>1. 6 + n \in Nat
        OBVIOUS
      <3> QED BY <3>1, Arithmetic
    <2>3. off + z <= len /\ off \in Nat /\ len \in Nat
      BY <1>1, <1>5
    <2>4. off + 6 + n <= len
      BY <2>1, <2>2, <2>3
    <2>5. /\ r.stop = FALSE /\ r.next = align4(off + 6 + n) /\ r.emits = decoded(u, TRUE)
          /\ r.left = <<1, 0, 0>> /\ r.lim = u.m
      BY <1>5, <2>1, <2>3, <2>4, PortFits
    <2>6. align4(off + 6 + n) = off + z /\ (off + z) % 4 = 0
      <3>1. PICK x \in Nat : x = 6 + n
        OBVIOUS
      <3>2. align4(off + x) = off + align4(x) /\ (off + align4(x)) % 4 = 0
        BY <1>4, <2>3, Aligned
      <3>3. off + 6 + n = off + x
        BY <2>3, <3>1
      <3> QED BY <2>1, <3>1, <3>2, <3>3
    <2>7. r.next = place(units, i + 1) /\ place(units, i + 1) % 4 = 0
      BY <1>1, <1>5, <2>5, <2>6
    <2>8. r.left[1] = 1 /\ r.lim = Len(units) - (i + 1) /\ i + 1 <= Len(units) /\ i + 1 # 1 /\ i + 1 > 1
      <3>1. r.left[1] = 1
        BY <2>5
      <3>3. r.lim = m
        BY <1>5, <2>5
      <3>4. m = k - 2
        BY <2>1
      <3>2. r.lim = k - 2 /\ k >= 2
        BY <3>3, <3>4
      <3> QED BY <1>5, <1>12, <3>1, <3>2
    <2>9. Holds(walker, units, i + 1, r.lim, r.left)
      BY <2>7, <2>8 DEF Holds
    <2>10. r.stop \in BOOLEAN /\ ~r.stop
      BY <2>5
    <2>11. r.emits = {j \in i .. i : Wanted(walker, units, j)}
      BY <1>11, <2>5
    <2> QED BY <1>a, <2>7, <2>9, <2>10, <2>11, TakesAndGoesOn
  <1>13. CASE i > 1 /\ i # Len(units)
    <2>1. left[1] = 1 /\ lim = k - i /\ z = align4(align4(2 + n + m) + 6)
      BY <1>4, <1>5, <1>9, <1>13
    <2>2. lim \in Nat /\ lim > 0
      <3>1. i # k /\ i \in 1..k /\ k \in Nat
        BY <1>5, <1>6, <1>13
      <3>2. k - i \in Nat /\ k - i > 0
        BY <3>1
      <3> QED BY <2>1, <3>2
    <2>3. off + z <= len /\ off \in Nat /\ len \in Nat
      BY <1>1, <1>5
    <2>4. PICK x \in Nat : x = 2 + n + m
      OBVIOUS
    <2>5. PICK b \in Nat : b = align4(x) /\ align4(off + x) = off + b /\ (off + b) % 4 = 0 /\ b % 4 = 0
      <3>1. PICK b \in Nat : b = align4(x)
        BY Arithmetic
      <3>2. align4(off + x) = off + align4(x) /\ align4(x) % 4 = 0 /\ (off + align4(x)) % 4 = 0
        BY <1>4, <2>3, Aligned
      <3> QED BY <3>1, <3>2
    <2>6. PICK a \in Nat : a = align4(off + 2 + n + m) /\ a = off + b
      <3>1. off + 2 + n + m = off + x
        BY <2>3, <2>4
      <3> QED BY <2>3, <2>5, <3>1
    <2>7. z = align4(b + 6) /\ b + 6 <= z
      <3>1. b + 6 \in Nat
        OBVIOUS
      <3> QED BY <2>1, <2>4, <2>5, <3>1, Arithmetic
    <2>8. a + 6 <= len
      BY <2>3, <2>6, <2>7
    <2>9. /\ r.stop = FALSE /\ r.next = align4(a + 6) /\ r.emits = decoded(u, TRUE)
          /\ r.left = left /\ r.lim = lim - 1
      <3>1. PeerFitting(u, a)
        <4>1. u.n \in Nat /\ u.m \in Nat /\ a = align4(off + 2 + u.n + u.m)
          BY <1>5, <2>6
        <4> QED BY <2>1, <2>2, <2>3, <2>8, <4>1 DEF PeerFitting
      <3>2. PeerTaken(u, a, r)
        BY <3>1, PeerFits
      <3> QED BY <3>2 DEF PeerTaken
    <2>10. align4(a + 6) = off + z /\ (off + z) % 4 = 0
      <3>1. PICK y \in Nat : y = b + 6
        OBVIOUS
      <3>2. align4(off + y) = off + align4(y) /\ (off + align4(y)) % 4 = 0
        BY <1>4, <2>3, Aligned
      <3>3. a + 6 = off + y
        BY <2>3, <2>6, <3>1
      <3> QED BY <2>7, <3>1, <3>2, <3>3
    <2>11. r.next = place(units, i + 1) /\ place(units, i + 1) % 4 = 0
      BY <1>1, <1>5, <2>9, <2>10
    <2>12. r.left[1] = 1 /\ r.lim = Len(units) - (i + 1) /\ i + 1 <= Len(units) /\ i + 1 # 1 /\ i + 1 > 1
      <3>1. r.left[1] = 1
        BY <2>1, <2>9
      <3>2. r.lim = k - i - 1
        BY <1>5, <2>1, <2>9
      <3> QED BY <1>5, <1>6, <1>13, <3>1, <3>2
    <2>13. Holds(walker, units, i + 1, r.lim, r.left)
      BY <2>11, <2>12 DEF Holds
    <2>14. r.stop \in BOOLEAN /\ ~r.stop
      BY <2>9
    <2>15. r.emits = {j \in i .. i : Wanted(walker, units, j)}
      BY <1>11, <2>9
    <2> QED BY <1>a, <2>11, <2>13, <2>14, <2>15, TakesAndGoesOn
  <1>14. CASE i > 1 /\ i = Len(units)
    <2>1. left[1] = 1 /\ lim = 0
      BY <1>4, <1>6, <1>14
    <2>2. r.stop = TRUE /\ r.emits = decoded(u, TRUE)
      BY <2>1, TailFits
    <2>3. \A j \in DOMAIN units : ~(j > i)
      BY <1>2, <1>14
    <2> QED BY <1>6, <1>11, <2>2, <2>3, TakesAndEnds
  <1> QED BY <1>8, <1>12, <1>13, <1>14

(* The entries of a tree from unit i on: none when a unit of a higher level or the end *)
(* comes first, ...                                                                    *)
LEMMA EntryCut ==
    ASSUME NEW us, Len(us) \in Nat, NEW i \in Nat, NEW L \in 1..3, i > Len(us) \/ us[i].ty \in above(L)
    PROVE  entries(us, i, L) = {} /\ Cardinality(entries(us, i, L)) = 0
  <1>1. entry_kind(L) \notin above(L)
    BY DEF entry_kind, above
  <1>2. ASSUME NEW j \in entries(us, i, L) PROVE FALSE
    <2>1. j \in i .. Len(us) /\ us[j].ty = entry_kind(L) /\ \A h \in i .. j - 1 : us[h].ty \notin above(L)
      BY <1>2 DEF entries
    <2>2. us[i].ty \in above(L)
      BY <2>1
    <2>3. j # i
      BY <1>1, <2>1, <2>2
    <2>4. i \in i .. j - 1
      BY <2>1, <2>3
    <2> QED BY <2>1, <2>2, <2>4
  <1>3. entries(us, i, L) = {}
    BY <1>2
  <1> QED BY <1>3, FS_EmptySet

LEMMA EntriesFinite ==
    ASSUME NEW us, Len(us) \in Nat, NEW i \in Nat, NEW L
    PROVE  IsFiniteSet(entries(us, i, L)) /\ Cardinality(entries(us, i, L)) \in Nat
  <1>1. IsFiniteSet(i .. Len(us))
    BY FS_Interval
  <1>2. entries(us, i, L) \subseteq i .. Len(us)
    BY DEF entries
  <1>3. IsFiniteSet(entries(us, i, L))
    BY <1>1, <1>2, FS_Subset
  <1> QED BY <1>3, FS_CardinalityType

(* ... those behind it when it is of a lower level, ... *)
LEMMA EntryPassed ==
    ASSUME NEW us, Len(us) \in Nat, NEW i \in 1 .. Len(us), NEW L \in 1..3, us[i].ty \notin above(L),
           us[i].ty # entry_kind(L), NEW x, x = i + 1
    PROVE  entries(us, i, L) = entries(us, x, L)
  <1>1. ASSUME NEW j \in entries(us, i, L) PROVE j \in entries(us, x, L)
    <2>1. j \in i .. Len(us) /\ us[j].ty = entry_kind(L) /\ \A h \in i .. j - 1 : us[h].ty \notin above(L)
      BY <1>1 DEF entries
    <2>2. j # i
      BY <2>1
    <2>3. j \in x .. Len(us)
      BY <2>1, <2>2
    <2>4. \A h \in x .. j - 1 : h \in i .. j - 1
      BY <2>1
    <2>5. \A h \in x .. j - 1 : us[h].ty \notin above(L)
      BY <2>1, <2>4
    <2> QED BY <2>1, <2>3, <2>5 DEF entries
  <1>2. ASSUME NEW j \in entries(us, x, L) PROVE j \in entries(us, i, L)
    <2>1. j \in x .. Len(us) /\ us[j].ty = entry_kind(L) /\ \A h \in x .. j - 1 : us[h].ty \notin above(L)
      BY <1>2 DEF entries
    <2>2. j \in i .. Len(us)
      BY <2>1
    <2>3. \A h \in i .. j - 1 : h = i \/ h \in x .. j - 1
      BY <2>1
    <2>4. \A h \in i .. j - 1 : us[h].ty \notin above(L)
      BY <2>1, <2>3
    <2> QED BY <2>1, <2>2, <2>4 DEF entries
  <1> QED BY <1>1, <1>2

(* ... and one more when it is one of them. *)
LEMMA EntryTaken ==
    ASSUME NEW us, Len(us) \in Nat, NEW i \in 1 .. Len(us), NEW L \in 1..3, us[i].ty = entry_kind(L),
           NEW x, x = i + 1
    PROVE  /\ Cardinality(entries(us, i, L)) = Cardinality(entries(us, x, L)) + 1
           /\ Cardinality(entries(us, x, L)) \in Nat
  <1>1. us[i].ty \notin above(L)
    BY DEF entry_kind, above
  <1>2. entries(us, i, L) = entries(us, x, L) \cup {i}
    <2>1. ASSUME NEW j \in entries(us, i, L), j # i PROVE j \in entries(us, x, L)
      <3>1. j \in i .. Len(us) /\ us[j].ty = entry_kind(L) /\ \A h \in i .. j - 1 : us[h].ty \notin above(L)
        BY <2>1 DEF entries
      <3>2. j \in x .. Len(us)
        BY <2>1, <3>1
      <3>3. \A h \in x .. j - 1 : h \in i .. j - 1
        BY <3>1
      <3>4. \A h \in x .. j - 1 : us[h].ty \notin above(L)
        BY <3>1, <3>3
      <3> QED BY <3>1, <3>2, <3>4 DEF entries
    <2>2. ASSUME NEW j \in entries(us, x, L) PROVE j \in entries(us, i, L)
      <3>1. j \in x .. Len(us) /\ us[j].ty = entry_kind(L) /\ \A h \in x .. j - 1 : us[h].ty \notin above(L)
        BY <2>2 DEF entries
      <3>2. j \in i .. Len(us)
        BY <3>1
      <3>3. \A h \in i .. j - 1 : h = i \/ h \in x .. j - 1
        BY <3>1
      <3>4. \A h \in i .. j - 1 : us[h].ty \notin above(L)
        BY <1>1, <3>1, <3>3
      <3> QED BY <3>1, <3>2, <3>4 DEF entries
    <2>3. i \in entries(us, i, L)
      <3>1. i \in i .. Len(us) /\ \A h \in i .. i - 1 : FALSE
        OBVIOUS
      <3> QED BY <3>1 DEF entries
    <2> QED BY <2>1, <2>2, <2>3
  <1>3. i \notin entries(us, x, L)
    <2>1. ~(i \in x .. Len(us))
      OBVIOUS
    <2> QED BY <2>1 DEF entries
  <1>4. x \in Nat
    OBVIOUS
  <1>5. PICK S : S = entries(us, x, L)
    OBVIOUS
  <1>6. IsFiniteSet(S) /\ Cardinality(S) \in Nat
    BY <1>4, <1>5, EntriesFinite
  <1>7. Cardinality(S \cup {i}) = Cardinality(S) + 1
    BY <1>3, <1>5, <1>6, FS_AddElement
  <1> QED BY <1>2, <1>5, <1>6, <1>7

(* The records of three nested levels. *)
Deep == {"slots", "filter", "diff"}
sizes_of(w) == IF w = "diff" THEN <<6, 10, 8>> ELSE <<6, 8, 6>>

(* What comes before a unit of a tree, its size and its count. *)
TreeUnit(w, us, i) ==
    /\ us[i].ty \in {"api", "slot", "sub"} \/ (w = "diff" /\ us[i].ty \in {"diff", "other"})
    /\ us[i].ty = "sub" => i > 1 /\ us[i - 1].ty \in {"slot", "sub"}
    /\ us[i].ty = "slot" => i > 1 /\ us[i - 1].ty \in {"api", "slot", "sub"}
    /\ w = "diff" /\ us[i].ty = "api" => i > 1 /\ us[i - 1].ty \in {"diff", "api", "slot", "sub"}
    /\ \A L \in 1..3 : us[i].ty = entry_kind(L) => us[i].size = sizes_of(w)[L]
    /\ \A L \in 1..2 : us[i].ty = entry_kind(L) => us[i].n = Cardinality(entries(us, i + 1, L + 1))

LEMMA TreeUnits ==
    ASSUME NEW w \in Deep, NEW us, NEW n, Intact(w, us, n), NEW i \in DOMAIN us
    PROVE  TreeUnit(w, us, i)
  <1>1. formed(w, us, i)
    BY DEF Intact, Encoded
  <1>2. PICK u, sizes : u = us[i] /\ sizes = sizes_of(w)
    OBVIOUS
  <1>a. /\ entry_kind(1) = "api" /\ entry_kind(2) = "slot" /\ entry_kind(3) = "sub"
    BY DEF entry_kind
  <1>3. ASSUME NEW roots, grown(us, i, sizes, roots), w = "diff" => roots = {"diff"} PROVE TreeUnit(w, us, i)
    <2>1. u.ty \in {"api", "slot", "sub"}
      BY <1>2, <1>3, Grown
    <2>2. u.ty = "api" => u.size = sizes[1] /\ u.n = Cardinality(entries(us, i + 1, 2))
      BY <1>2, <1>3, Grown
    <2>3. u.ty = "api" /\ roots # {} => i > 1 /\ us[i - 1].ty \in roots \cup {"api", "slot", "sub"}
      BY <1>2, <1>3, Grown
    <2>4. u.ty = "slot" => u.size = sizes[2] /\ u.n = Cardinality(entries(us, i + 1, 3))
      BY <1>2, <1>3, Grown
    <2>5. u.ty = "slot" => i > 1 /\ us[i - 1].ty \in {"api", "slot", "sub"}
      BY <1>2, <1>3, Grown
    <2>6. u.ty = "sub" => u.size = sizes[3] /\ i > 1 /\ us[i - 1].ty \in {"slot", "sub"}
      BY <1>2, <1>3, Grown
    <2>7. w = "diff" /\ u.ty = "api" => i > 1 /\ us[i - 1].ty \in {"diff", "api", "slot", "sub"}
      <3>1. {"diff"} # {} /\ \A x : x \in {"diff"} \cup {"api", "slot", "sub"} => x \in {"diff", "api", "slot", "sub"}
        OBVIOUS
      <3> QED BY <1>3, <2>3, <3>1
    <2>8. \A L \in 1..3 : u.ty = entry_kind(L) => u.size = sizes[L]
      <3>1. u.ty = entry_kind(1) => u.size = sizes[1]
        BY <1>a, <2>2
      <3>2. u.ty = entry_kind(2) => u.size = sizes[2]
        BY <1>a, <2>4
      <3>3. u.ty = entry_kind(3) => u.size = sizes[3]
        BY <1>a, <2>6
      <3>4. \A L \in 1..3 : L = 1 \/ L = 2 \/ L = 3
        OBVIOUS
      <3> QED BY <3>1, <3>2, <3>3, <3>4
    <2>9. \A L \in 1..2 : u.ty = entry_kind(L) => u.n = Cardinality(entries(us, i + 1, L + 1))
      <3>1. u.ty = entry_kind(1) => u.n = Cardinality(entries(us, i + 1, 2))
        BY <1>a, <2>2
      <3>2. u.ty = entry_kind(2) => u.n = Cardinality(entries(us, i + 1, 3))
        BY <1>a, <2>4
      <3>3. \A L \in 1..2 : (L = 1 /\ L + 1 = 2) \/ (L = 2 /\ L + 1 = 3)
        OBVIOUS
      <3> QED BY <3>1, <3>2, <3>3
    <2> QED BY <1>2, <2>1, <2>5, <2>6, <2>7, <2>8, <2>9 DEF TreeUnit
  <1>4. CASE w \in {"slots", "filter"}
    <2>1. grown(us, i, <<6, 8, 6>>, {})
      BY <1>1, <1>2, <1>4, TreeFormed
    <2>2. sizes = <<6, 8, 6>> /\ w # "diff"
      BY <1>2, <1>4 DEF sizes_of
    <2>3. PICK roots : roots = {}
      OBVIOUS
    <2> QED BY <1>3, <2>1, <2>2, <2>3
  <1>5. CASE w = "diff" /\ us[i].ty \notin {"diff", "other"}
    <2>1. grown(us, i, <<6, 10, 8>>, {"diff"})
      BY <1>1, <1>2, <1>5, TreeFormed
    <2>2. sizes = <<6, 10, 8>>
      BY <1>2, <1>5 DEF sizes_of
    <2>3. PICK roots : roots = {"diff"}
      OBVIOUS
    <2> QED BY <1>3, <2>1, <2>2, <2>3
  <1>6. CASE w = "diff" /\ us[i].ty \in {"diff", "other"}
    <2>1. us[i].ty \notin {"api", "slot", "sub"} /\ \A L \in 1..3 : us[i].ty # entry_kind(L)
      BY <1>6 DEF entry_kind
    <2>2. \A L \in 1..2 : L \in 1..3
      OBVIOUS
    <2> QED BY <1>6, <2>1, <2>2 DEF TreeUnit
  <1> QED BY <1>4, <1>5, <1>6 DEF Deep

(* Behind the first unit of a level comes none of the levels further down. *)
LEMMA NoneYet ==
    ASSUME NEW w \in Deep, NEW us, NEW n, Intact(w, us, n), NEW i \in DOMAIN us, NEW x, x = i + 1,
           NEW L \in 1..3,
           \/ us[i].ty = "api" /\ L = 3
           \/ us[i].ty = "diff" /\ L > 1
           \/ us[i].ty = "other" /\ w = "diff"
    PROVE  Cardinality(entries(us, x, L)) = 0
  <1>1. Len(us) \in Nat /\ DOMAIN us = 1..Len(us)
    BY TreeLength DEF Deep, Trees
  <1>2. x \in Nat /\ i \in Nat /\ x - 1 = i
    BY <1>1
  <1>3. CASE x > Len(us)
    BY <1>1, <1>2, <1>3, EntryCut
  <1>4. CASE ~(x > Len(us))
    <2>1. x \in DOMAIN us
      BY <1>1, <1>2, <1>4
    <2>2. TreeUnit(w, us, x)
      BY <2>1, TreeUnits
    <2>3. us[x - 1] = us[i]
      BY <1>2
    <2>4. us[x].ty \in above(L)
      <3>1. /\ us[x].ty \in {"api", "slot", "sub"} \/ (w = "diff" /\ us[x].ty \in {"diff", "other"})
            /\ us[x].ty = "sub" => us[i].ty \in {"slot", "sub"}
            /\ us[x].ty = "slot" => us[i].ty \in {"api", "slot", "sub"}
            /\ w = "diff" /\ us[x].ty = "api" => us[i].ty \in {"diff", "api", "slot", "sub"}
        BY <2>2, <2>3 DEF TreeUnit
      <3>2. CASE us[i].ty = "api" /\ L = 3
        BY <3>1, <3>2 DEF above
      <3>3. CASE us[i].ty = "diff" /\ L > 1
        <4>1. us[x].ty \in {"api", "diff", "other"}
          BY <3>1, <3>3
        <4>2. L = 2 \/ L = 3
          BY <3>3
        <4> QED BY <4>1, <4>2 DEF above
      <3>4. CASE us[i].ty = "other" /\ w = "diff"
        <4>1. us[x].ty \in {"diff", "other"}
          BY <3>1, <3>4
        <4>2. L = 1 \/ L = 2 \/ L = 3
          OBVIOUS
        <4> QED BY <4>1, <4>2 DEF above
      <3> QED BY <3>2, <3>3, <3>4
    <2> QED BY <1>1, <1>2, <2>4, EntryCut
  <1> QED BY <1>3, <1>4

(* The deepest level that expects an entry is the one of the unit the loop is at. *)
LEMMA LevelIs ==
    ASSUME NEW us, Len(us) \in Nat, NEW i \in 1 .. Len(us), NEW k, Counted(us, i, k), NEW L \in 1..3,
           us[i].ty = entry_kind(L)
    PROVE  k[L] > 0 /\ \A j \in 1..3 : j > L => k[j] = 0
  <1>1. PICK x : x = i + 1
    OBVIOUS
  <1>2. PICK c \in Nat : c = Cardinality(entries(us, x, L)) /\ Cardinality(entries(us, i, L)) = c + 1
    BY <1>1, EntryTaken
  <1>3. k[L] > 0
    BY <1>2 DEF Counted
  <1>4. ASSUME NEW j \in 1..3, j > L PROVE k[j] = 0
    <2>1. us[i].ty \in above(j)
      <3>1. (L = 1 /\ j = 2) \/ (L = 1 /\ j = 3) \/ (L = 2 /\ j = 3)
        BY <1>4
      <3> QED BY <3>1 DEF above, entry_kind
    <2>2. i \in Nat
      OBVIOUS
    <2>3. Cardinality(entries(us, i, j)) = 0
      BY <2>1, <2>2, EntryCut
    <2> QED BY <2>3 DEF Counted
  <1> QED BY <1>3, <1>4

(* What of the tree is to come behind an entry of level L. *)
Descends(k, new, L, c) ==
    /\ new \in Triples /\ new[L] = k[L] - 1
    /\ L < 3 => new[L + 1] = c
    /\ \A j \in 1..3 : j # L /\ j # L + 1 => new[j] = k[j]

LEMMA CountedNext ==
    ASSUME NEW w \in Deep, NEW us, NEW n, Intact(w, us, n), NEW i \in DOMAIN us, NEW k, Counted(us, i, k),
           NEW L \in 1..3, us[i].ty = entry_kind(L), NEW new, Descends(k, new, L, us[i].n), NEW x, x = i + 1
    PROVE  Counted(us, x, new)
  <1>1. Len(us) \in Nat /\ i \in 1..Len(us)
    BY TreeLength DEF Deep, Trees
  <1>2. SUFFICES ASSUME NEW j \in 1..3 PROVE new[j] = Cardinality(entries(us, x, j))
    BY DEF Counted, Descends
  <1>3. CASE j = L
    <2>1. PICK c \in Nat : c = Cardinality(entries(us, x, L)) /\ Cardinality(entries(us, i, L)) = c + 1
      BY <1>1, EntryTaken
    <2>2. k[L] = c + 1
      BY <2>1 DEF Counted
    <2>3. new[L] = c
      BY <2>2 DEF Descends
    <2> QED BY <1>3, <2>1, <2>3
  <1>4. CASE j = L + 1
    <2>1. L \in 1..2 /\ L < 3
      BY <1>4
    <2>2. us[i].n = Cardinality(entries(us, i + 1, L + 1))
      BY <2>1, TreeUnits DEF TreeUnit
    <2>3. new[L + 1] = us[i].n
      BY <2>1 DEF Descends
    <2> QED BY <1>4, <2>2, <2>3
  <1>5. CASE j # L /\ j # L + 1
    <2>1. new[j] = k[j] /\ k[j] = Cardinality(entries(us, i, j))
      BY <1>5 DEF Descends, Counted
    <2>2. CASE j < L
      <3>1. us[i].ty \notin above(j) /\ us[i].ty # entry_kind(j)
        <4>1. (j = 1 /\ L = 2) \/ (j = 1 /\ L = 3) \/ (j = 2 /\ L = 3)
          BY <2>2
        <4> QED BY <4>1 DEF above, entry_kind
      <3>2. entries(us, i, j) = entries(us, x, j)
        BY <1>1, <3>1, EntryPassed
      <3> QED BY <2>1, <3>2
    <2>3. CASE ~(j < L)
      <3>1. L = 1 /\ j = 3
        BY <1>5, <2>3
      <3>2. us[i].ty = "api"
        BY <3>1 DEF entry_kind
      <3>3. Cardinality(entries(us, x, j)) = 0
        BY <3>1, <3>2, NoneYet
      <3>4. k[j] = 0
        BY <1>1, <3>1, LevelIs
      <3> QED BY <2>1, <3>3, <3>4
    <2> QED BY <2>2, <2>3
  <1> QED BY <1>3, <1>4, <1>5

(* One iteration at an entry of level L that fits. *)
EntryFitting(u, sizes, end, L) ==
    /\ left \in Triples /\ L \in 1..3 /\ left[L] > 0 /\ \A j \in 1..3 : j > L => left[j] = 0
    /\ off + sizes[L] <= end /\ u.n \in Nat
EntryRead(u, sizes, L, r) ==
    /\ r.lim = lim /\ r.stop = FALSE /\ r.next = off + sizes[L]
    /\ L = 3 => r.emits = {u.id}
    /\ L # 3 => r.emits = {}
    /\ Descends(left, r.left, L, u.n)

LEMMA EntryFits ==
    ASSUME NEW u, NEW sizes, NEW end, NEW L, EntryFitting(u, sizes, end, L), NEW r, r = nested(u, sizes, end)
    PROVE  EntryRead(u, sizes, L, r)
  <1> DEFINE Top(k) == left[k] > 0 /\ \A j \in k + 1 .. 3 : left[j] = 0
  <1>1. /\ left \in Triples /\ L \in 1..3 /\ left[L] > 0 /\ \A j \in 1..3 : j > L => left[j] = 0
    BY DEF EntryFitting
  <1>2. off + sizes[L] <= end /\ u.n \in Nat
    BY DEF EntryFitting
  <1>3. PICK level : level = CHOOSE k \in 1..3 : Top(k)
    OBVIOUS
  <1>4. level = L
    <2>1. left[1] \in Nat /\ left[2] \in Nat /\ left[3] \in Nat
      BY <1>1 DEF Triples
    <2>2. Top(L)
      BY <1>1
    <2>3. \A k \in 1..3 : Top(k) => k = L
      BY <1>1, <2>1
    <2> HIDE DEF Top
    <2> QED BY <1>1, <1>3, <2>2, <2>3
  <1>5. PICK next : next = [left EXCEPT ![L] = @ - 1]
    OBVIOUS
  <1>6. r = [iter(off + sizes[L], off + sizes[L], decoded(u, L = 3), FALSE)
               EXCEPT !.left = IF L < 3 THEN [next EXCEPT ![L + 1] = u.n] ELSE next]
    <2>1. r = [iter(IF off + sizes[level] <= end THEN off + sizes[level] ELSE off,
                    IF off + sizes[level] <= end THEN off + sizes[level] ELSE off,
                    decoded(u, off + sizes[level] <= end /\ level = 3), FALSE)
                 EXCEPT !.left = IF off + sizes[level] <= end /\ level < 3
                                 THEN [[left EXCEPT ![level] = IF off + sizes[level] <= end THEN @ - 1 ELSE 0]
                                         EXCEPT ![level + 1] = u.n]
                                 ELSE [left EXCEPT ![level] = IF off + sizes[level] <= end THEN @ - 1 ELSE 0]]
      BY <1>3 DEF nested
    <2> QED BY <1>2, <1>4, <1>5, <2>1
  <1>7. /\ r.lim = lim /\ r.stop = FALSE /\ r.next = off + sizes[L] /\ r.emits = decoded(u, L = 3)
        /\ r.left = IF L < 3 THEN [next EXCEPT ![L + 1] = u.n] ELSE next
    BY <1>6 DEF iter
  <1>8. (L = 3 => r.emits = {u.id}) /\ (L # 3 => r.emits = {})
    BY <1>7 DEF decoded
  <1>9. next \in Triples /\ next[L] = left[L] - 1 /\ \A j \in 1..3 : j # L => next[j] = left[j]
    BY <1>1, <1>5 DEF Triples
  <1>10. Descends(left, r.left, L, u.n)
    <2>1. CASE L < 3
      <3>1. r.left = [next EXCEPT ![L + 1] = u.n] /\ L + 1 \in 1..3
        BY <1>1, <1>7, <2>1
      <3>2. r.left \in Triples /\ r.left[L + 1] = u.n /\ \A j \in 1..3 : j # L + 1 => r.left[j] = next[j]
        BY <1>2, <1>9, <3>1 DEF Triples
      <3>3. L # L + 1
        BY <1>1
      <3> QED BY <1>1, <1>9, <3>2, <3>3 DEF Descends
    <2>2. CASE ~(L < 3)
      BY <1>7, <1>9, <2>2 DEF Descends
    <2> QED BY <2>1, <2>2
  <1> QED BY <1>7, <1>8, <1>10 DEF EntryRead

(* Inside a block: the unit belongs to it and ends before it does. *)
LEMMA StaysWithin ==
    ASSUME NEW w \in Trees, NEW us, NEW n, Intact(w, us, n), NEW i \in DOMAIN us, NEW l, NEW j,
           Ends(w, us, i, l, j), j # i, NEW x, x = i + 1
    PROVE  /\ Ends(w, us, x, l, j) /\ us[i].ty \notin outer(w)
           /\ place(us, i) + us[i].size <= l /\ l <= total(us) /\ l \in Nat
  <1>1. Len(us) \in Nat /\ i \in 1..Len(us)
    BY TreeLength
  <1>2. /\ j \in i .. Len(us) + 1 /\ l = place(us, j) /\ (j <= Len(us) => us[j].ty \in outer(w))
        /\ \A h \in i .. j - 1 : us[h].ty \notin outer(w)
    BY DEF Ends
  <1>3. j \in x .. Len(us) + 1 /\ i \in i .. j - 1 /\ \A h \in x .. j - 1 : h \in i .. j - 1
    BY <1>1, <1>2
  <1>4. Ends(w, us, x, l, j)
    BY <1>2, <1>3 DEF Ends
  <1>5. j \in i + 1 .. Len(us) + 1
    BY <1>3
  <1>6. place(us, i) + us[i].size <= place(us, j) /\ place(us, j) <= total(us) /\ place(us, j) \in Nat
    BY <1>5, PlaceGrows
  <1> QED BY <1>2, <1>3, <1>4, <1>6

(* The block that unit i opens, and where it ends. *)
LEMMA Enters ==
    ASSUME NEW w \in Trees, NEW us, NEW n, Intact(w, us, n), NEW i \in DOMAIN us, NEW l,
           closes(us, i, l, outer(w)), NEW x, x = i + 1
    PROVE  /\ Within(w, us, x, l)
           /\ place(us, i) + us[i].size <= l /\ l <= total(us) /\ l \in Nat /\ l > 0
  <1>1. Len(us) \in Nat /\ i \in 1..Len(us)
    BY TreeLength
  <1>2. PICK j \in i + 1 .. Len(us) + 1 :
          /\ l = place(us, j) /\ (j <= Len(us) => us[j].ty \in outer(w))
          /\ \A h \in i + 1 .. j - 1 : us[h].ty \notin outer(w)
    BY DEF closes
  <1>3. Ends(w, us, x, l, j)
    BY <1>2 DEF Ends
  <1>4. place(us, i) + us[i].size <= place(us, j) /\ place(us, j) <= total(us) /\ place(us, j) \in Nat
    BY PlaceGrows
  <1>5. Spans(us, i) /\ us[i].size >= 2
    BY IntactSpans, TreeSize
  <1>6. PICK p \in Nat, z \in Nat : p = place(us, i) /\ z = us[i].size /\ z >= 2
    BY <1>5 DEF Spans
  <1>7. PICK e \in Nat : e = l
    BY <1>2, <1>4
  <1>8. p + z <= e
    BY <1>2, <1>4, <1>6, <1>7
  <1>9. e > 0
    BY <1>6, <1>8
  <1>10. l # 0
    BY <1>7, <1>9
  <1>11. Within(w, us, x, l)
    BY <1>3, <1>10 DEF Within
  <1> QED BY <1>2, <1>4, <1>7, <1>9, <1>11

LEMMA PdTakes ==
    ASSUME NEW i, NEW u, There(i, u), walker = "pd", lim = 0 \/ lim # off, NEW r, r = parse_pd_real_data(u)
    PROVE  TakesTo(i, i, r)
  <1>1. /\ off \in Nat /\ u.size \in Nat /\ u.n \in Nat /\ len \in Nat
        /\ off + u.size = place(units, i + 1) /\ off + u.size <= len
    BY DEF There
  <1>2. u.id = i /\ u = units[i] /\ Len(units) \in Nat /\ i \in 1..Len(units) /\ i \in DOMAIN units
        /\ DOMAIN units = 1..Len(units)
    BY DEF There
  <1>3. formed(walker, units, i) /\ off = place(units, i) /\ off = units[i].at /\ len = total(units)
        /\ Intact(walker, units, len) /\ walker \in Trees
    BY DEF There
  <1>4. left \in Triples /\ ~opened(left) /\ Within(walker, units, i, lim)
    <2>1. Holds(walker, units, i, lim, left)
      BY DEF There
    <2> QED BY <2>1 DEF Holds
  <1>5. outer(walker) = {"multi", "other"}
    BY DEF outer
  <1>6. PICK n \in Nat, z \in Nat : n = u.n /\ z = u.size
    BY <1>1
  <1>7. off \in Nat /\ len \in Nat /\ off + z <= len
    BY <1>1, <1>6
  <1>8. /\ u.ty = "multi" => z = 16 /\ n >= 2 /\ closes(units, i, off + 4 + n, outer(walker))
        /\ u.ty # "multi" => z = 4 + n /\ n >= 2
    <2>1. u = units[i]
      BY <1>2
    <2>2. u.ty = "multi" =>
            u.size = 16 /\ u.n >= 2 /\ closes(units, i, u.at + 4 + u.n, {"multi", "other"})
      BY <1>3, <2>1, TreeFormed
    <2>3. u.ty # "multi" => u.size = 4 + u.n /\ u.n >= 2
      BY <1>3, <2>1, TreeFormed
    <2>4. u.at = off
      BY <1>3, <2>1
    <2> QED BY <1>5, <1>6, <2>2, <2>3, <2>4
  <1>9. n >= 2
    BY <1>8
  <1>10. PICK end \in Nat : end = off + 6 + body_length(u.n) /\ end = off + 4 + n
    <2>1. body_length(n) = n - 2
      BY <1>9 DEF body_length, most
    <2>2. off + 6 + (n - 2) = off + 4 + n /\ off + 4 + n \in Nat
      BY <1>7
    <2> QED BY <1>6, <2>1, <2>2
  <1>11. i \in i .. Len(units)
    BY <1>2
  <1>12. PICK x : x = i + 1
    OBVIOUS
  <1>13. i \in Nat
    BY <1>2
  <1>14. CASE lim # 0
    <2>1. PICK j : Ends(walker, units, i, lim, j)
      BY <1>4, <1>14 DEF Within
    <2>2. j # i
      BY <1>3, <1>14, <2>1 DEF Ends
    <2>3. /\ Ends(walker, units, x, lim, j) /\ u.ty \notin outer(walker)
          /\ place(units, i) + units[i].size <= lim /\ lim <= total(units) /\ lim \in Nat
      BY <1>2, <1>3, <1>12, <2>1, <2>2, StaysWithin
    <2>4. off + z <= lim /\ lim \in Nat /\ lim <= len
      BY <1>2, <1>3, <1>6, <2>3
    <2>5. z = 4 + n
      BY <1>5, <1>8, <2>3
    <2>6. off + 6 <= least(lim, len) /\ ~(off + 6 > least(lim, len))
      <3>1. least(lim, len) = lim
        BY <1>7, <2>4 DEF least
      <3>2. off + 6 <= lim
        BY <1>7, <1>9, <2>4, <2>5
      <3> QED BY <1>7, <2>4, <3>1, <3>2
    <2>7. r = iter(off + 6, end, decoded(u, TRUE), FALSE)
      <3>1. r = CASE lim # 0 /\ off + 6 <= least(lim, len) -> iter(off + 6, end, decoded(u, TRUE), FALSE)
                  [] lim # 0 /\ off + 6 > least(lim, len) ->
                       [iter(least(lim, len), lim, {}, FALSE) EXCEPT !.lim = 0]
                  [] lim = 0 /\ u.ty = "multi" /\ off + 16 <= len ->
                       [iter(off + 16, off + 16, decoded(u, TRUE), FALSE) EXCEPT !.lim = end]
                  [] OTHER -> iter(off + 6, end, {}, FALSE)
        BY <1>10 DEF parse_pd_real_data
      <3> QED BY <1>14, <2>6, <3>1
    <2>8. r.next = end /\ r.emits = decoded(u, TRUE) /\ r.lim = lim /\ r.left = left /\ r.stop = FALSE
      BY <2>7, Iterated
    <2>9. Wanted(walker, units, i)
      BY <1>2, <1>5, <2>3 DEF Wanted
    <2>10. decoded(u, TRUE) = {i}
      BY <1>2 DEF decoded
    <2>11. r.emits = {h \in i .. i : Wanted(walker, units, h)}
      BY <1>13, <2>8, <2>9, <2>10, TakesOne
    <2>12. r.next = place(units, i + 1)
      BY <1>1, <1>6, <1>7, <1>10, <2>5, <2>8
    <2>13. Within(walker, units, x, r.lim)
      BY <1>14, <2>3, <2>8 DEF Within
    <2>14. Holds(walker, units, i + 1, r.lim, r.left)
      BY <1>4, <1>12, <2>8, <2>13 DEF Holds
    <2>15. r.stop \in BOOLEAN /\ ~r.stop
      BY <2>8
    <2> QED BY <1>11, <2>11, <2>12, <2>14, <2>15, TakesAndGoesOn
  <1>15. CASE lim = 0 /\ u.ty = "multi"
    <2>1. z = 16 /\ closes(units, i, end, outer(walker))
      BY <1>8, <1>10, <1>15
    <2>2. Within(walker, units, x, end)
      BY <1>2, <1>3, <1>12, <2>1, Enters
    <2>3. off + 16 <= len
      BY <1>7, <2>1
    <2>4. r = [iter(off + 16, off + 16, decoded(u, TRUE), FALSE) EXCEPT !.lim = end]
      BY <1>10, <1>15, <2>3 DEF parse_pd_real_data
    <2>5. r.next = off + 16 /\ r.emits = decoded(u, TRUE) /\ r.lim = end /\ r.left = left /\ r.stop = FALSE
      BY <2>4 DEF iter
    <2>6. Wanted(walker, units, i)
      BY <1>2, <1>15 DEF Wanted
    <2>7. decoded(u, TRUE) = {i}
      BY <1>2 DEF decoded
    <2>8. r.emits = {h \in i .. i : Wanted(walker, units, h)}
      BY <1>13, <2>5, <2>6, <2>7, TakesOne
    <2>9. r.next = place(units, i + 1)
      BY <1>1, <1>6, <2>1, <2>5
    <2>10. Holds(walker, units, i + 1, r.lim, r.left)
      BY <1>4, <1>12, <2>2, <2>5 DEF Holds
    <2>11. r.stop \in BOOLEAN /\ ~r.stop
      BY <2>5
    <2> QED BY <1>11, <2>8, <2>9, <2>10, <2>11, TakesAndGoesOn
  <1>16. CASE lim = 0 /\ u.ty # "multi"
    <2>1. u.ty = "other"
      <3>1. i <= Len(units)
        BY <1>2
      <3> QED BY <1>2, <1>4, <1>5, <1>16, <3>1 DEF Within
    <2>2. z = 4 + n
      BY <1>8, <1>16
    <2>3. r = iter(off + 6, end, {}, FALSE)
      BY <1>10, <1>16 DEF parse_pd_real_data
    <2>4. r.next = end /\ r.emits = {} /\ r.lim = lim /\ r.left = left /\ r.stop = FALSE
      BY <2>3, Iterated
    <2>5. ~Wanted(walker, units, i)
      BY <1>2, <2>1 DEF Wanted
    <2>6. r.emits = {h \in i .. i : Wanted(walker, units, h)}
      BY <1>13, <2>4, <2>5, TakesOne
    <2>7. r.next = place(units, i + 1)
      BY <1>1, <1>6, <1>7, <1>10, <2>2, <2>4
    <2>8. Within(walker, units, x, 0)
      <3>1. SUFFICES ASSUME x <= Len(units) PROVE units[x].ty \in outer(walker)
        BY DEF Within
      <3>2. x \in DOMAIN units /\ x - 1 = i
        BY <1>2, <1>12, <3>1
      <3>3. formed(walker, units, x)
        BY <1>3, <3>2, TreeSize
      <3>4. PICK v : v = units[x]
        OBVIOUS
      <3>5. v.ty \notin {"multi", "other"} => units[x - 1].ty # "other"
        BY <3>3, <3>4, TreeFormed
      <3>6. units[x - 1].ty = "other"
        BY <1>2, <2>1, <3>2
      <3> QED BY <1>5, <3>4, <3>5, <3>6
    <2>9. Holds(walker, units, i + 1, r.lim, r.left)
      BY <1>4, <1>12, <1>16, <2>4, <2>8 DEF Holds
    <2>10. r.stop \in BOOLEAN /\ ~r.stop
      BY <2>4
    <2> QED BY <1>11, <2>6, <2>7, <2>9, <2>10, TakesAndGoesOn
  <1> QED BY <1>14, <1>15, <1>16

(* An entry of a tree, at whatever level, is read as what it is. *)
LEMMA EntryTakes ==
    ASSUME NEW i, NEW u, There(i, u), walker \in Deep, NEW L \in 1..3, u.ty = entry_kind(L), NEW end,
           off + u.size <= end, NEW r, r = nested(u, sizes_of(walker), end),
           walker = "diff" => Within(walker, units, i + 1, lim)
    PROVE  r.stop = FALSE /\ TakesTo(i, i, r) /\ r.next = off + u.size
  <1>1. off \in Nat /\ u.n \in Nat /\ off + u.size = place(units, i + 1)
    BY DEF There
  <1>2. u.id = i /\ u = units[i] /\ Len(units) \in Nat /\ i \in 1..Len(units) /\ i \in DOMAIN units
    BY DEF There
  <1>3. Intact(walker, units, len)
    BY DEF There
  <1>4. Counted(units, i, left)
    <2>1. Holds(walker, units, i, lim, left)
      BY DEF There
    <2> QED BY <2>1 DEF Holds, Deep
  <1>5. PICK sizes : sizes = sizes_of(walker)
    OBVIOUS
  <1>6. u.size = sizes[L]
    BY <1>2, <1>3, <1>5, TreeUnits DEF TreeUnit
  <1>7. left[L] > 0 /\ \A j \in 1..3 : j > L => left[j] = 0
    BY <1>2, <1>4, LevelIs
  <1>8. EntryFitting(u, sizes, end, L)
    <2>1. left \in Triples
      BY <1>4 DEF Counted
    <2>2. off + sizes[L] <= end
      BY <1>6
    <2> QED BY <1>1, <1>7, <2>1, <2>2 DEF EntryFitting
  <1>9. EntryRead(u, sizes, L, r)
    BY <1>5, <1>8, EntryFits
  <1>10. /\ r.lim = lim /\ r.stop = FALSE /\ r.next = off + u.size
         /\ (L = 3 => r.emits = {i}) /\ (L # 3 => r.emits = {})
    BY <1>2, <1>6, <1>9 DEF EntryRead
  <1>11. Descends(left, r.left, L, units[i].n)
    BY <1>2, <1>9 DEF EntryRead
  <1>12. PICK x : x = i + 1
    OBVIOUS
  <1>13. Counted(units, x, r.left)
    BY <1>2, <1>3, <1>4, <1>11, <1>12, CountedNext
  <1>14. Wanted(walker, units, i) <=> L = 3
    <2>1. Wanted(walker, units, i) <=> u.ty = "sub"
      BY <1>2 DEF Wanted, Deep
    <2>2. u.ty = "sub" <=> L = 3
      BY DEF entry_kind
    <2> QED BY <2>1, <2>2
  <1>15. i \in Nat
    BY <1>2
  <1>16. r.emits = {h \in i .. i : Wanted(walker, units, h)}
    BY <1>10, <1>14, <1>15, TakesOne
  <1>17. Holds(walker, units, i + 1, r.lim, r.left)
    BY <1>10, <1>12, <1>13 DEF Holds, Deep
  <1>18. i \in i .. Len(units)
    BY <1>2
  <1>19. r.stop \in BOOLEAN /\ ~r.stop
    BY <1>10
  <1>20. r.next = place(units, i + 1)
    BY <1>1, <1>10
  <1>21. TakesTo(i, i, r)
    BY <1>16, <1>17, <1>18, <1>19, <1>20, TakesAndGoesOn
  <1> QED BY <1>10, <1>21

LEMMA EntryLevel ==
    ASSUME NEW i, NEW u, There(i, u), walker \in Deep
    PROVE  \/ \E L \in 1..3 : u.ty = entry_kind(L)
           \/ walker = "diff" /\ u.ty \in {"diff", "other"}
  <1>1. u = units[i] /\ i \in DOMAIN units /\ Intact(walker, units, len)
    BY DEF There
  <1>2. u.ty \in {"api", "slot", "sub"} \/ (walker = "diff" /\ u.ty \in {"diff", "other"})
    BY <1>1, TreeUnits DEF TreeUnit
  <1>3. entry_kind(1) = "api" /\ entry_kind(2) = "slot" /\ entry_kind(3) = "sub"
    BY DEF entry_kind
  <1> QED BY <1>2, <1>3

LEMMA SlotsTakes ==
    ASSUME NEW i, NEW u, There(i, u), walker \in {"slots", "filter"}, NEW r,
           walker = "slots" => r = parse_real_identification_data(u),
           walker = "filter" => r = parse_inm0_filter(u)
    PROVE  TakesTo(i, i, r)
  <1>1. walker \in Deep /\ walker # "diff" /\ sizes_of(walker) = <<6, 8, 6>>
    BY DEF Deep, sizes_of
  <1>2. PICK L \in 1..3 : u.ty = entry_kind(L)
    BY <1>1, EntryLevel
  <1>3. PICK s : s = nested(u, sizes_of(walker), len)
    OBVIOUS
  <1>4. off + u.size <= len
    BY DEF There
  <1>5. s.stop = FALSE /\ TakesTo(i, i, s) /\ s.next = off + u.size
    BY <1>1, <1>2, <1>3, <1>4, EntryTakes
  <1>6. s = nested(u, <<6, 8, 6>>, len)
    BY <1>1, <1>3
  <1>7. CASE walker = "slots"
    BY <1>5, <1>6, <1>7 DEF parse_real_identification_data
  <1>8. CASE walker = "filter"
    <2>1. s.next # off
      <3>1. off \in Nat /\ u.size \in Nat /\ u.size >= 2
        BY DEF There
      <3> QED BY <1>5, <3>1
    <2>2. r = [s EXCEPT !.stop = (s.next = off)]
      BY <1>6, <1>8 DEF parse_inm0_filter
    <2>3. s = [touch |-> s.touch, next |-> s.next, emits |-> s.emits, stop |-> s.stop, lim |-> s.lim, left |-> s.left]
      BY <1>3 DEF nested, iter
    <2>4. r.next = s.next /\ r.emits = s.emits /\ r.lim = s.lim /\ r.left = s.left
      BY <2>2, <2>3
    <2>5. r.stop <=> s.next = off
      BY <2>2, <2>3
    <2>6. r.stop \in BOOLEAN
      BY <2>2, <2>3
    <2>7. ~r.stop
      BY <2>1, <2>5
    <2> QED BY <1>5, <2>4, <2>6, <2>7 DEF TakesTo
  <1> QED BY <1>7, <1>8

(* An open tree is at one of its entries, and only there. *)
LEMMA OpenAtEntry ==
    ASSUME NEW i \in 1 .. Len(units) + 1, Intact(walker, units, len), walker \in Deep, Counted(units, i, left)
    PROVE  open <=> i \in DOMAIN units /\ \E L \in 1..3 : units[i].ty = entry_kind(L)
  <1>1. Len(units) \in Nat /\ DOMAIN units = 1..Len(units)
    BY TreeLength DEF Deep, Trees
  <1>2. i \in Nat /\ (i \in DOMAIN units <=> ~(i > Len(units)))
    BY <1>1
  <1>3. ASSUME i \in DOMAIN units, NEW L \in 1..3, units[i].ty = entry_kind(L) PROVE open
    <2>1. left[L] > 0
      BY <1>1, <1>3, LevelIs
    <2> QED BY <2>1 DEF open
  <1>4. ASSUME NEW L \in 1..3, left[L] > 0 PROVE i \in DOMAIN units /\ \E K \in 1..3 : units[i].ty = entry_kind(K)
    <2>1. Cardinality(entries(units, i, L)) # 0
      <3>1. left[L] = Cardinality(entries(units, i, L)) /\ left[L] \in Nat
        BY DEF Counted, Triples
      <3> QED BY <1>4, <3>1
    <2>2. ~(i > Len(units)) /\ units[i].ty \notin above(L)
      BY <1>1, <1>2, <2>1, EntryCut
    <2>3. i \in DOMAIN units
      BY <1>2, <2>2
    <2>4. units[i].ty \in {"api", "slot", "sub"} \/ units[i].ty \in {"diff", "other"}
      BY <2>3, TreeUnits DEF TreeUnit
    <2>5. units[i].ty \notin {"diff", "other"}
      <3>1. L = 1 \/ L = 2 \/ L = 3
        OBVIOUS
      <3> QED BY <2>2, <3>1 DEF above
    <2>6. entry_kind(1) = "api" /\ entry_kind(2) = "slot" /\ entry_kind(3) = "sub"
      BY DEF entry_kind
    <2>7. \E K \in 1..3 : units[i].ty = entry_kind(K)
      BY <2>4, <2>5, <2>6
    <2> QED BY <2>3, <2>7
  <1> QED BY <1>3, <1>4 DEF open

LEMMA DiffTakes ==
    ASSUME NEW i, NEW u, There(i, u), walker = "diff", open \/ lim = 0, NEW r, r = parse_module_diff_block(u)
    PROVE  TakesTo(i, i, r)
  <1>1. /\ off \in Nat /\ u.size \in Nat /\ u.n \in Nat /\ len \in Nat
        /\ off + u.size = place(units, i + 1) /\ off + u.size <= len
    BY DEF There
  <1>2. u.id = i /\ u = units[i] /\ Len(units) \in Nat /\ i \in 1..Len(units) /\ i \in DOMAIN units
        /\ DOMAIN units = 1..Len(units)
    BY DEF There
  <1>3. formed(walker, units, i) /\ off = place(units, i) /\ off = units[i].at /\ len = total(units)
        /\ Intact(walker, units, len) /\ walker \in Trees /\ walker \in Deep
    BY DEF There, Deep
  <1>4. Counted(units, i, left) /\ Within(walker, units, i, lim)
    <2>1. Holds(walker, units, i, lim, left)
      BY DEF There
    <2> QED BY <2>1 DEF Holds
  <1>5. outer(walker) = {"diff", "other"}
    BY DEF outer
  <1>6. PICK n \in Nat, z \in Nat : n = u.n /\ z = u.size
    BY <1>1
  <1>7. off \in Nat /\ len \in Nat /\ off + z <= len
    BY <1>1, <1>6
  <1>8. i \in Nat /\ i \in i .. Len(units) /\ i <= Len(units) /\ i \in 1 .. Len(units) + 1
    BY <1>2
  <1>9. PICK x : x = i + 1
    OBVIOUS
  <1>10. open <=> \E L \in 1..3 : u.ty = entry_kind(L)
    BY <1>2, <1>3, <1>4, <1>8, OpenAtEntry
  <1>11. CASE open
    <2>1. PICK L \in 1..3 : u.ty = entry_kind(L)
      BY <1>10, <1>11
    <2>2. u.ty \notin outer(walker)
      BY <1>5, <2>1 DEF entry_kind
    <2>3. lim # 0
      BY <1>2, <1>4, <1>8, <2>2 DEF Within
    <2>4. PICK j : Ends(walker, units, i, lim, j)
      BY <1>4, <2>3 DEF Within
    <2>5. j # i
      BY <1>2, <1>8, <2>2, <2>4 DEF Ends
    <2>6. /\ Ends(walker, units, x, lim, j)
          /\ place(units, i) + units[i].size <= lim /\ lim <= total(units) /\ lim \in Nat
      BY <1>2, <1>3, <1>9, <2>4, <2>5, StaysWithin
    <2>7. Within(walker, units, i + 1, lim)
      BY <1>9, <2>3, <2>6 DEF Within
    <2>8. least(lim, len) = lim
      BY <1>3, <1>7, <2>6 DEF least
    <2>9. sizes_of(walker) = <<6, 10, 8>>
      BY DEF sizes_of
    <2>10. r = nested(u, sizes_of(walker), lim)
      <3>1. r = nested(u, <<6, 10, 8>>, least(lim, len))
        BY <1>11 DEF parse_module_diff_block, open
      <3> QED BY <2>8, <2>9, <3>1
    <2>11. off + u.size <= lim
      BY <1>2, <1>3, <2>6
    <2> QED BY <1>3, <2>1, <2>7, <2>10, <2>11, EntryTakes
  <1>12. CASE ~open
    <2>1. lim = 0
      BY <1>12
    <2>2. u.ty \in {"diff", "other"}
      BY <1>2, <1>4, <1>5, <1>8, <2>1 DEF Within
    <2>3. r = IF u.ty = "diff" /\ off + 8 <= least(off + 4 + u.n, len)
              THEN [iter(off + 8, off + 8, {}, FALSE) EXCEPT !.lim = off + 4 + u.n, !.left = <<u.m, 0, 0>>]
              ELSE iter(off + 6, off + 4 + u.n, {}, FALSE)
      BY <1>12, <2>1 DEF parse_module_diff_block, open
    <2>4. ~Wanted(walker, units, i)
      BY <1>2, <2>2 DEF Wanted
    <2>5. CASE u.ty = "diff"
      <3>1. z = 8 /\ u.m = Cardinality(entries(units, x, 1)) /\ closes(units, i, off + 4 + n, outer(walker))
        <4>1. u = units[i]
          BY <1>2
        <4>2. /\ u.size = 8 /\ u.m = Cardinality(entries(units, i + 1, 1))
              /\ closes(units, i, u.at + 4 + u.n, {"diff", "other"})
          BY <1>3, <2>5, <4>1, TreeFormed
        <4>3. u.at = off
          BY <1>3, <4>1
        <4> QED BY <1>5, <1>6, <1>9, <4>2, <4>3
      <3>2. PICK end \in Nat : end = off + 4 + n
        BY <1>7
      <3>3. /\ Within(walker, units, x, end)
            /\ place(units, i) + units[i].size <= end /\ end <= total(units)
        BY <1>2, <1>3, <1>9, <3>1, <3>2, Enters
      <3>4. off + 8 <= least(end, len)
        <4>1. off + 8 <= end /\ end <= len
          BY <1>2, <1>3, <1>6, <3>1, <3>3
        <4> QED BY <1>7, <4>1 DEF least
      <3>5. r = [iter(off + 8, off + 8, {}, FALSE) EXCEPT !.lim = end, !.left = <<u.m, 0, 0>>]
        BY <1>6, <2>3, <2>5, <3>2, <3>4
      <3>6. r.next = off + 8 /\ r.emits = {} /\ r.lim = end /\ r.left = <<u.m, 0, 0>> /\ r.stop = FALSE
        BY <3>5 DEF iter
      <3>7. Counted(units, x, r.left)
        <4>1. \A L \in 1..3 : L > 1 => Cardinality(entries(units, x, L)) = 0
          BY <1>2, <1>3, <1>9, <2>5, NoneYet
        <4>2. r.left[1] = u.m /\ r.left[2] = 0 /\ r.left[3] = 0 /\ u.m \in Nat
          BY <3>6 DEF There
        <4>3. r.left \in Triples
          BY <3>6, <4>2 DEF Triples
        <4>4. \A L \in 1..3 : L = 1 \/ (L > 1 /\ r.left[L] = 0)
          BY <4>2
        <4>5. \A L \in 1..3 : r.left[L] = Cardinality(entries(units, x, L))
          BY <3>1, <4>1, <4>2, <4>4
        <4> QED BY <4>3, <4>5 DEF Counted
      <3>8. Holds(walker, units, i + 1, r.lim, r.left)
        BY <1>9, <3>3, <3>6, <3>7 DEF Holds
      <3>9. r.next = place(units, i + 1)
        BY <1>1, <1>6, <3>1, <3>6
      <3>10. r.emits = {h \in i .. i : Wanted(walker, units, h)}
        BY <1>8, <2>4, <3>6, TakesOne
      <3>11. r.stop \in BOOLEAN /\ ~r.stop
        BY <3>6
      <3>12. i \in i .. Len(units)
        BY <1>8
      <3> QED BY <3>8, <3>9, <3>10, <3>11, <3>12, TakesAndGoesOn
    <2>6. CASE u.ty # "diff"
      <3>1. u.ty = "other" /\ z = 4 + n
        <4>1. u = units[i]
          BY <1>2
        <4>2. u.ty = "other"
          BY <2>2, <2>6
        <4>3. u.size = 4 + u.n
          BY <1>3, <4>1, <4>2, TreeFormed
        <4> QED BY <1>6, <4>2, <4>3
      <3>2. r = iter(off + 6, off + 4 + u.n, {}, FALSE)
        BY <2>3, <2>6
      <3>3. r.next = off + 4 + u.n /\ r.emits = {} /\ r.lim = lim /\ r.left = left /\ r.stop = FALSE
        BY <3>2, Iterated
      <3>4. \A L \in 1..3 : Cardinality(entries(units, x, L)) = 0
        BY <1>2, <1>3, <1>9, <3>1, NoneYet
      <3>5. \A L \in 1..3 : left[L] = 0
        <4>1. left \in Triples
          BY <1>4 DEF Counted
        <4>2. \A L \in 1..3 : left[L] \in Nat /\ ~(left[L] > 0)
          BY <1>12, <4>1 DEF Triples, open
        <4> QED BY <4>2
      <3>6. Counted(units, x, r.left)
        BY <1>4, <3>3, <3>4, <3>5 DEF Counted
      <3>7. Within(walker, units, x, 0)
        <4>1. SUFFICES ASSUME x <= Len(units) PROVE units[x].ty \in outer(walker)
          BY DEF Within
        <4>2. x \in DOMAIN units /\ x - 1 = i
          BY <1>2, <1>9, <4>1
        <4>3. TreeUnit(walker, units, x)
          BY <1>3, <4>2, TreeUnits
        <4>4. units[x - 1].ty = "other"
          BY <1>2, <3>1, <4>2
        <4> QED BY <1>5, <4>3, <4>4 DEF TreeUnit
      <3>8. Holds(walker, units, i + 1, r.lim, r.left)
        BY <1>9, <2>1, <3>3, <3>6, <3>7 DEF Holds
      <3>9. r.next = place(units, i + 1)
        BY <1>1, <1>6, <1>7, <3>1, <3>3
      <3>10. r.emits = {h \in i .. i : Wanted(walker, units, h)}
        BY <1>8, <2>4, <3>3, TakesOne
      <3>11. r.stop \in BOOLEAN /\ ~r.stop
        BY <3>3
      <3>12. i \in i .. Len(units)
        BY <1>8
      <3> QED BY <3>8, <3>9, <3>10, <3>11, <3>12, TakesAndGoesOn
    <2> QED BY <2>5, <2>6
  <1> QED BY <1>11, <1>12

(* The loop is at unit i, or behind the last one. *)
AtUnit(i) ==
    /\ Intact(walker, units, len) /\ walker \in Trees /\ i \in 1 .. Len(units) + 1
    /\ off = place(units, i) /\ Holds(walker, units, i, lim, left)

(* A block that has been read is left: nothing is taken, and the loop stays where it is. *)
Leaving == walker \in {"pd", "diff"} /\ lim # 0 /\ (IF walker = "pd" THEN lim = off ELSE ~open)
Leaves(i, r) ==
    r.stop = FALSE /\ r.emits = {} /\ r.next = off /\ Holds(walker, units, i, r.lim, r.left)

LEMMA AtUnitIs ==
    ASSUME NEW i, AtUnit(i)
    PROVE  /\ Len(units) \in Nat /\ Len(units) >= 1 /\ DOMAIN units = 1..Len(units) /\ len = total(units)
           /\ len \in Nat /\ i \in Nat
           /\ i \in DOMAIN units \/ i = Len(units) + 1
           /\ i \in DOMAIN units => There(i, units[i])
           /\ i = Len(units) + 1 => off = len
  <1>1. /\ Len(units) \in Nat /\ Len(units) >= 1 /\ DOMAIN units = 1..Len(units) /\ len = total(units)
        /\ total(units) \in Nat
    BY TreeLength DEF AtUnit
  <1>2. i \in Nat /\ (i \in DOMAIN units \/ i = Len(units) + 1)
    BY <1>1 DEF AtUnit
  <1>3. i \in DOMAIN units => There(i, units[i])
    BY ThereIs DEF AtUnit
  <1>4. i = Len(units) + 1 => off = len
    <2>1. ~(Len(units) + 1 <= Len(units))
      BY <1>1
    <2> QED BY <1>1, <2>1 DEF AtUnit, place
  <1> QED BY <1>1, <1>2, <1>3, <1>4

(* Where a block ends that has been read. *)
LEMMA EndsHere ==
    ASSUME NEW i, AtUnit(i), Leaving
    PROVE  lim = off /\ (i <= Len(units) => units[i].ty \in outer(walker))
  <1>1. Intact(walker, units, len) /\ walker \in Trees /\ off = place(units, i) /\ i \in 1 .. Len(units) + 1
    BY DEF AtUnit
  <1>2. Within(walker, units, i, lim) /\ lim # 0 /\ (walker = "diff" => Counted(units, i, left))
    BY DEF AtUnit, Holds, Leaving
  <1>3. PICK j : Ends(walker, units, i, lim, j)
    BY <1>2 DEF Within
  <1>4. Len(units) \in Nat /\ DOMAIN units = 1..Len(units)
    BY AtUnitIs
  <1>5. j = i
    <2>1. SUFFICES ASSUME j # i PROVE FALSE
      OBVIOUS
    <2>2. i \in DOMAIN units
      BY <1>1, <1>3, <1>4, <2>1 DEF Ends
    <2>3. PICK x : x = i + 1
      OBVIOUS
    <2>4. units[i].ty \notin outer(walker) /\ place(units, i) + units[i].size <= lim /\ lim \in Nat
      BY <1>1, <1>3, <2>1, <2>2, <2>3, StaysWithin
    <2>5. CASE walker = "pd"
      <3>1. lim = off
        BY <2>5 DEF Leaving
      <3>2. There(i, units[i])
        BY <2>2, AtUnitIs
      <3>3. PICK z \in Nat : z = units[i].size /\ z >= 2
        BY <3>2 DEF There
      <3>4. off + z <= off /\ off \in Nat
        BY <1>1, <2>4, <3>1, <3>3
      <3> QED BY <3>3, <3>4
    <2>6. CASE walker = "diff"
      <3>1. ~open /\ walker \in Deep
        BY <2>6 DEF Leaving, Deep
      <3>2. outer(walker) = {"diff", "other"}
        BY <2>6 DEF outer
      <3>3. There(i, units[i])
        BY <2>2, AtUnitIs
      <3>4. \E L \in 1..3 : units[i].ty = entry_kind(L)
        BY <2>4, <3>1, <3>2, <3>3, EntryLevel
      <3> QED BY <1>1, <1>2, <2>2, <2>6, <3>1, <3>4, OpenAtEntry
    <2> QED BY <2>5, <2>6 DEF Leaving
  <1> QED BY <1>1, <1>3, <1>5 DEF Ends

LEMMA LeavesBlock ==
    ASSUME NEW i, AtUnit(i), Leaving, NEW u, NEW v, NEW r, r = body(u, v)
    PROVE  Leaves(i, r)
  <1>1. lim = off /\ (i <= Len(units) => units[i].ty \in outer(walker))
    BY EndsHere
  <1>2. walker \in {"pd", "diff"} /\ lim # 0
    BY DEF Leaving
  <1>3. Holds(walker, units, i, lim, left)
    BY DEF AtUnit
  <1>4. Within(walker, units, i, 0)
    BY <1>1 DEF Within
  <1>5. PICK t : r = [iter(t, lim, {}, FALSE) EXCEPT !.lim = 0]
    <2>1. CASE walker = "pd"
      <3>1. r = parse_pd_real_data(u)
        BY <2>1 DEF body
      <3>2. off \in Int /\ len \in Nat
        <4>1. i \in DOMAIN units \/ i = Len(units) + 1
          BY AtUnitIs
        <4>2. i \in DOMAIN units => off \in Nat
          BY AtUnitIs DEF There
        <4>3. i = Len(units) + 1 => off = len
          BY AtUnitIs
        <4>4. len \in Nat
          BY AtUnitIs
        <4> QED BY <4>1, <4>2, <4>3, <4>4
      <3>3. off + 6 > least(lim, len) /\ ~(off + 6 <= least(lim, len))
        BY <1>1, <3>2 DEF least
      <3>4. r = [iter(least(lim, len), lim, {}, FALSE) EXCEPT !.lim = 0]
        BY <1>2, <3>1, <3>3 DEF parse_pd_real_data
      <3> QED BY <3>4
    <2>2. CASE walker = "diff"
      <3>1. r = parse_module_diff_block(u) /\ ~open
        BY <2>2 DEF body, Leaving
      <3>2. r = [iter(0, lim, {}, FALSE) EXCEPT !.lim = 0]
        BY <1>2, <3>1 DEF parse_module_diff_block, open
      <3> QED BY <3>2
    <2> QED BY <1>2, <2>1, <2>2
  <1>6. r.stop = FALSE /\ r.emits = {} /\ r.next = lim /\ r.lim = 0 /\ r.left = left
    BY <1>5 DEF iter
  <1>7. Holds(walker, units, i, r.lim, r.left)
    BY <1>2, <1>3, <1>4, <1>6 DEF Holds
  <1> QED BY <1>1, <1>6, <1>7 DEF Leaves

LEMMA OpenIs == ASSUME ~opened(left) PROVE ~open
  <1>1. \A k \in 1..3 : k = 1 \/ k = 2 \/ k = 3
    OBVIOUS
  <1> QED BY <1>1 DEF opened, open

(* Behind the last unit the loop ends, when it has left its block. *)
LEMMA TreeStopsAtEnd ==
    ASSUME AtUnit(Len(units) + 1), continues
    PROVE  Leaving
  <1>1. PICK i : i = Len(units) + 1
    OBVIOUS
  <1>2. AtUnit(i)
    BY <1>1
  <1>3. off = len /\ len \in Nat /\ Len(units) \in Nat /\ DOMAIN units = 1..Len(units)
    BY <1>1, <1>2, AtUnitIs
  <1>4. ~(off + 6 <= len) /\ i \notin DOMAIN units /\ ~(i <= Len(units)) /\ i \in 1 .. Len(units) + 1
    BY <1>1, <1>3
  <1>5. Holds(walker, units, i, lim, left) /\ walker \in Trees /\ Intact(walker, units, len)
    BY <1>2 DEF AtUnit
  <1>6. CASE walker = "diagnosis"
    BY <1>4, <1>6 DEF continues
  <1>7. CASE walker \in {"interface", "port"}
    BY <1>4, <1>5, <1>7 DEF Holds
  <1>8. CASE walker \in Deep
    <2>1. ~open
      BY <1>4, <1>5, <1>8, OpenAtEntry DEF Holds, Deep
    <2>2. CASE walker \in {"slots", "filter"}
      BY <2>1, <2>2 DEF continues
    <2>3. CASE walker = "diff"
      <3>1. lim # 0
        BY <1>4, <2>1, <2>3 DEF continues
      <3> QED BY <2>1, <2>3, <3>1 DEF Leaving
    <2> QED BY <1>8, <2>2, <2>3 DEF Deep
  <1>9. CASE walker = "pd"
    <2>1. ~open /\ Within(walker, units, i, lim)
      BY <1>5, <1>9, OpenIs DEF Holds
    <2>2. lim # 0
      BY <1>4, <1>9, <2>1 DEF continues
    <2>3. PICK j : Ends(walker, units, i, lim, j)
      BY <2>1, <2>2 DEF Within
    <2>4. j = i
      BY <1>1, <1>3, <2>3 DEF Ends
    <2>5. lim = off
      BY <1>2, <2>3, <2>4 DEF Ends, AtUnit
    <2> QED BY <1>9, <2>2, <2>5 DEF Leaving
  <1> QED BY <1>5, <1>6, <1>7, <1>8, <1>9 DEF Trees, Deep

(* It does not end before. *)
LEMMA TreeGoesOn ==
    ASSUME NEW i, AtUnit(i), i \in DOMAIN units
    PROVE  continues
  <1>1. PICK u : u = units[i] /\ There(i, u)
    BY AtUnitIs
  <1>2. off \in Nat /\ len \in Nat /\ u.size \in Nat /\ u.n \in Nat /\ off + u.size <= len /\ walker \in Trees
    BY <1>1 DEF There
  <1>3. PICK z \in Nat, n \in Nat : z = u.size /\ n = u.n /\ off + z <= len
    BY <1>2
  <1>4. z >= 6 => off + 6 <= len
    BY <1>2, <1>3
  <1>5. formed(walker, units, i)
    BY <1>1 DEF There
  <1>6. CASE walker = "diagnosis"
    <2>1. z = 8 \/ z = entry_size(u.ty)
      BY <1>1, <1>3, <1>5, <1>6, TreeFormed
    <2>2. entry_size(u.ty) \in {8, 14, 18}
      BY DEF entry_size
    <2>3. z >= 6
      BY <2>1, <2>2
    <2> QED BY <1>4, <1>6, <2>3 DEF continues
  <1>7. CASE walker \in {"interface", "port"}
    BY <1>7 DEF continues
  <1>8. CASE walker = "pd"
    <2>1. z = 16 \/ (z = 4 + n /\ n >= 2)
      BY <1>1, <1>3, <1>5, <1>8, TreeFormed
    <2>2. z >= 6
      BY <2>1
    <2> QED BY <1>4, <1>8, <2>2 DEF continues
  <1>9. CASE walker \in Deep
    <2>1. CASE \E L \in 1..3 : u.ty = entry_kind(L)
      <3>1. open
        BY <1>1, <1>9, <2>1, OpenAtEntry DEF AtUnit, Holds, Deep
      <3> QED BY <1>9, <3>1 DEF continues, Deep
    <2>2. CASE walker = "diff" /\ u.ty \in {"diff", "other"}
      <3>1. z = 8 \/ (z = 4 + n /\ n >= 2)
        BY <1>1, <1>3, <1>5, <2>2, TreeFormed
      <3>2. z >= 6
        BY <3>1
      <3> QED BY <1>4, <2>2, <3>2 DEF continues
    <2> QED BY <1>1, <1>9, <2>1, <2>2, EntryLevel
  <1> QED BY <1>2, <1>6, <1>7, <1>8, <1>9 DEF Trees, Deep

LEMMA TreeTakes ==
    ASSUME NEW i, AtUnit(i), i \in DOMAIN units, ~Leaving, NEW u, u = units[i],
           NEW v, walker = "diagnosis" /\ u.ty = "location" => v = units[i + 1], NEW r, r = body(u, v)
    PROVE  \E k : TakesTo(i, k, r)
  <1>1. There(i, u) /\ walker \in Trees
    BY AtUnitIs DEF AtUnit
  <1>2. CASE walker = "diagnosis"
    BY <1>1, <1>2, DiagnosisTakes DEF body
  <1>3. CASE walker = "interface"
    BY <1>1, <1>3, InterfaceTakes DEF body
  <1>4. CASE walker = "port"
    BY <1>1, <1>4, PortTakes DEF body
  <1>5. CASE walker = "pd"
    BY <1>1, <1>5, PdTakes DEF body, Leaving
  <1>6. CASE walker = "slots"
    BY <1>1, <1>6, SlotsTakes DEF body
  <1>7. CASE walker = "filter"
    BY <1>1, <1>7, SlotsTakes DEF body
  <1>8. CASE walker = "diff"
    BY <1>1, <1>8, DiffTakes DEF body, Leaving
  <1> QED BY <1>1, <1>2, <1>3, <1>4, <1>5, <1>6, <1>7, <1>8 DEF Trees

LEMMA TreeAdvances ==
    ASSUME NEW w, NEW us, NEW i \in Nat, i >= 1, NEW k \in Nat, i <= k,
           NEW o, o = {j \in 1 .. i - 1 : Wanted(w, us, j)}, NEW e, e = {j \in i .. k : Wanted(w, us, j)}
    PROVE  o \cup e = {j \in 1 .. k : Wanted(w, us, j)}
  <1>1. \A j : j \in 1 .. k <=> (j \in 1 .. i - 1 \/ j \in i .. k)
    OBVIOUS
  <1> QED BY <1>1

(* What an iteration reads at a unit, and behind a location. *)
LEMMA TreeReads ==
    ASSUME NEW i, AtUnit(i), i \in DOMAIN units
    PROVE  /\ At(off) = {units[i]}
           /\ walker = "diagnosis" /\ units[i].ty = "location" => At(off + 8) = {units[i + 1]}
  <1>1. Intact(walker, units, len) /\ walker \in Trees
    BY DEF AtUnit
  <1>2. \A j \in DOMAIN units : units[j].size >= 2
    BY <1>1, TreeSize
  <1>3. There(i, units[i])
    BY AtUnitIs
  <1>4. off = units[i].at /\ off \in Nat
    BY <1>3 DEF There
  <1>5. At(off) = {units[i]}
    BY <1>1, <1>2, <1>4, UnitAt
  <1>6. ASSUME walker = "diagnosis", units[i].ty = "location" PROVE At(off + 8) = {units[i + 1]}
    <2>1. Len(units) \in Nat /\ i \in 1..Len(units) /\ DOMAIN units = 1..Len(units) /\ formed(walker, units, i)
          /\ off + units[i].size = place(units, i + 1)
      BY <1>3 DEF There
    <2>2. units[i].size = 8 /\ i # Len(units)
      BY <1>6, <2>1, LocationFormed
    <2>3. PICK x \in DOMAIN units : x = i + 1
      BY <2>1, <2>2
    <2>4. Spans(units, x)
      BY <1>1, IntactSpans
    <2>5. off + 8 = place(units, x)
      BY <2>1, <2>2, <2>3
    <2>6. off + 8 = units[x].at
      BY <2>4, <2>5 DEF Spans
    <2>7. At(off + 8) = {units[x]}
      BY <1>1, <1>2, <2>6, UnitAt
    <2> QED BY <2>3, <2>7
  <1> QED BY <1>5, <1>6

LEMMA TreeStep == TreeInv /\ [WalkNext]_walkVars => TreeInv'
  <1>1. SUFFICES ASSUME TreeInv, [WalkNext]_walkVars PROVE TreeInv'
    OBVIOUS
  <1>2. Intact(walker, units, len) /\ walker \in Trees
    BY <1>1 DEF TreeInv
  <1>3. CASE UNCHANGED walkVars
    BY <1>1, <1>3 DEF TreeInv, walkVars, TreeReached
  <1>4. CASE Iterate
    <2>1. walking /\ continues /\ UNCHANGED <<walker, units, honest, len>>
      BY <1>4 DEF Iterate
    <2>2. PICK i : TreeReached(i)
      BY <1>1, <2>1 DEF TreeInv
    <2>3. AtUnit(i) /\ out = {j \in 1 .. i - 1 : Wanted(walker, units, j)}
      BY <1>2, <2>2 DEF TreeReached, AtUnit
    <2>4. /\ Len(units) \in Nat /\ DOMAIN units = 1..Len(units) /\ i \in Nat
          /\ i \in DOMAIN units \/ i = Len(units) + 1
      BY <2>3, AtUnitIs
    <2>5. CASE Leaving
      <3>1. PICK u, v, r : /\ r = body(u, v) /\ off' = r.next /\ lim' = r.lim /\ left' = r.left
                           /\ out' = out \cup r.emits /\ walking' = ~r.stop
        BY <1>4 DEF Iterate
      <3>2. Leaves(i, r)
        BY <2>3, <2>5, <3>1, LeavesBlock
      <3>3. off' = off /\ out' = out /\ Holds(walker, units, i, lim', left')
        BY <3>1, <3>2 DEF Leaves
      <3>4. walking' = TRUE
        BY <3>1, <3>2 DEF Leaves
      <3>5. TreeReached(i)'
        BY <2>1, <2>2, <3>3 DEF TreeReached
      <3> QED BY <1>2, <2>1, <3>4, <3>5 DEF TreeInv
    <2>6. CASE ~Leaving
      <3>1. i \in DOMAIN units
        BY <2>1, <2>3, <2>4, <2>6, TreeStopsAtEnd
      <3>2. PICK u : u = units[i]
        OBVIOUS
      <3>3. At(off) = {u} /\ (walker = "diagnosis" /\ u.ty = "location" => At(off + 8) = {units[i + 1]})
        BY <2>3, <3>1, <3>2, TreeReads
      <3>4. PICK v, r : /\ walker = "diagnosis" => v \in At(off + 8)
                        /\ r = body(u, v) /\ off' = r.next /\ lim' = r.lim /\ left' = r.left
                        /\ out' = out \cup r.emits /\ walking' = ~r.stop
        <4>1. PICK y \in At(off) : \E v \in IF walker = "diagnosis" THEN At(off + 8) ELSE {y} :
                LET r == body(y, v) IN /\ off' = r.next /\ lim' = r.lim /\ left' = r.left
                                       /\ out' = out \cup r.emits /\ walking' = ~r.stop
          BY <1>4 DEF Iterate
        <4>2. y = u
          BY <3>3
        <4> QED BY <4>1, <4>2
      <3>5. walker = "diagnosis" /\ u.ty = "location" => v = units[i + 1]
        BY <3>3, <3>4
      <3>6. PICK k : TakesTo(i, k, r)
        BY <2>3, <2>6, <3>1, <3>2, <3>4, <3>5, TreeTakes
      <3>7. PICK z \in Nat : z = Len(units)
        BY <2>4
      <3>8. k \in i .. z /\ k \in Nat /\ i >= 1 /\ i <= k /\ k <= z
        <4>1. k \in i .. z
          BY <3>6, <3>7 DEF TakesTo
        <4>2. i \in 1 .. z
          BY <2>4, <3>1, <3>7
        <4> QED BY <4>1, <4>2
      <3>9. out' = {j \in 1 .. k : Wanted(walker, units, j)}
        <4>1. r.emits = {j \in i .. k : Wanted(walker, units, j)}
          BY <3>6 DEF TakesTo
        <4>2. out \cup r.emits = {j \in 1 .. k : Wanted(walker, units, j)}
          BY <2>3, <2>4, <3>8, <4>1, TreeAdvances
        <4> QED BY <3>4, <4>2
      <3>10. CASE r.stop
        <4>1. walking' = FALSE
          BY <3>4, <3>10
        <4>2. \A j \in 1 .. z : j > k => ~Wanted(walker, units, j)
          BY <2>4, <3>6, <3>7, <3>10 DEF TakesTo
        <4>3. {j \in 1 .. k : Wanted(walker, units, j)} = {j \in 1 .. z : Wanted(walker, units, j)}
          BY <3>8, <4>2, NoMore
        <4>4. out' = {j \in DOMAIN units : Wanted(walker, units, j)}
          BY <2>4, <3>7, <3>9, <4>3
        <4> QED BY <1>2, <2>1, <4>1, <4>4 DEF TreeInv
      <3>11. CASE ~r.stop
        <4>1. walking' = TRUE
          BY <3>4, <3>6, <3>11 DEF TakesTo
        <4>2. PICK x : x = k + 1
          OBVIOUS
        <4>3. off' = place(units, x) /\ Holds(walker, units, x, lim', left')
          BY <3>4, <3>6, <3>11, <4>2 DEF TakesTo
        <4>4. x \in 1 .. Len(units) + 1 /\ x - 1 = k
          BY <3>7, <3>8, <4>2
        <4>5. TreeReached(x)'
          BY <2>1, <3>9, <4>3, <4>4 DEF TreeReached
        <4> QED BY <1>2, <2>1, <4>1, <4>5 DEF TreeInv
      <3> QED BY <3>10, <3>11
    <2> QED BY <2>5, <2>6
  <1>5. CASE Finish
    <2>1. walking /\ ~continues /\ walking' = FALSE /\ UNCHANGED <<walker, units, len, out>>
      BY <1>5 DEF Finish
    <2>2. PICK i : TreeReached(i)
      BY <1>1, <2>1 DEF TreeInv
    <2>3. AtUnit(i) /\ out = {j \in 1 .. i - 1 : Wanted(walker, units, j)}
      BY <1>2, <2>2 DEF TreeReached, AtUnit
    <2>4. /\ Len(units) \in Nat /\ DOMAIN units = 1..Len(units)
          /\ i \in DOMAIN units \/ i = Len(units) + 1
      BY <2>3, AtUnitIs
    <2>5. i = Len(units) + 1
      BY <2>1, <2>3, <2>4, TreeGoesOn
    <2>6. i - 1 = Len(units)
      BY <2>4, <2>5
    <2>7. out' = {j \in DOMAIN units : Wanted(walker, units, j)}
      BY <2>1, <2>3, <2>4, <2>6
    <2> QED BY <1>2, <2>1, <2>7 DEF TreeInv
  <1> QED BY <1>1, <1>3, <1>4, <1>5 DEF WalkNext

LEMMA TreeInitial == ASSUME HonestInit, walker \in Trees PROVE TreeInv
  <1>1. PICK w \in Trees, us \in Seq(Unit), extra \in Nat :
          /\ Encoded(w, us) /\ (extra > 0 => w \in Padded)
          /\ Arrives(w, us, truth(w, us), TRUE, total(us) + extra)
    BY DEF HonestInit, Arrives
  <1>2. /\ walker = w /\ units = us /\ len = total(us) + extra /\ off = base(w) /\ out = {}
        /\ walking = (len >= minimal(w))
    BY <1>1 DEF Arrives
  <1>3. w \notin {"set", "get", "identify", "tower", "lookup", "multiple", "alarm", "vlan"}
    BY DEF Trees
  <1>4. /\ lim = 0
        /\ w \in {"slots", "filter"} => left = <<Cardinality(entries(us, 1, 1)), 0, 0>>
        /\ w \notin {"slots", "filter"} => left = <<0, 0, 0>>
    <2>1. lim = 0
      BY <1>1, <1>3 DEF Arrives
    <2>2. left = IF w \in {"slots", "filter"} THEN <<truth(w, us), 0, 0>> ELSE <<0, 0, 0>>
      BY <1>1 DEF Arrives
    <2>3. w \in {"slots", "filter"} => truth(w, us) = Cardinality(entries(us, 1, 1))
      BY <1>3 DEF truth
    <2> QED BY <2>1, <2>2, <2>3
  <1>5. us # <<>> /\ Len(us) \in Nat /\ Len(us) >= 1 /\ DOMAIN us = 1..Len(us) /\ 1 \in DOMAIN us
        /\ us[1].at = base(w)
    BY <1>1 DEF Encoded
  <1>6. total(us) \in Nat
    <2>1. us[Len(us)] \in Unit
      BY <1>5
    <2> QED BY <2>1 DEF total, Unit
  <1>7. Intact(w, us, len)
    BY <1>1, <1>2, <1>6 DEF Intact
  <1>8. Spans(us, 1) /\ formed(w, us, 1) /\ us[1].size >= 2
    BY <1>5, <1>7, IntactSpans, TreeSize
  <1>9. off = place(us, 1)
    BY <1>2, <1>5, <1>8 DEF Spans
  <1>10. walking = TRUE
    <2>1. minimal(w) = base(w) /\ base(w) \in Nat
      BY <1>3 DEF minimal, base, Trees
    <2>2. PICK z \in Nat, T \in Nat : z = us[1].size /\ T = total(us) /\ base(w) + z <= T
      BY <1>5, <1>8 DEF Spans
    <2>3. len >= minimal(w)
      BY <1>2, <2>1, <2>2
    <2> QED BY <1>2, <2>3
  <1>11. Holds(w, us, 1, 0, left)
    <2>1. 1 <= Len(us)
      BY <1>5
    <2>2. PICK u : u = us[1]
      OBVIOUS
    <2>3. <<0, 0, 0>> \in Triples /\ ~opened(<<0, 0, 0>>)
      BY DEF Triples, opened
    <2>4. CASE w \in {"diagnosis", "interface"}
      BY <2>1, <2>4 DEF Holds
    <2>5. CASE w = "port"
      <3>1. place(us, 1) = 0
        BY <1>2, <1>9, <2>5 DEF base
      <3>2. left[1] = 0
        BY <1>4, <2>5
      <3>3. place(us, 1) % 4 = 0
        BY <3>1
      <3> QED BY <2>1, <2>5, <3>2, <3>3 DEF Holds
    <2>6. CASE w = "pd"
      <3>1. us[1].ty \in outer(w)
        <4>1. u.ty \notin {"multi", "other"} => 1 > 1
          BY <1>8, <2>2, <2>6, TreeFormed
        <4>2. u.ty \in {"multi", "other"}
          BY <4>1
        <4> QED BY <2>2, <2>6, <4>2 DEF outer
      <3>2. Within(w, us, 1, 0)
        BY <3>1 DEF Within
      <3> QED BY <1>4, <2>3, <2>6, <3>2 DEF Holds
    <2>7. CASE w \in Deep
      <3>1. TreeUnit(w, us, 1)
        BY <1>5, <1>7, <2>7, TreeUnits
      <3>2. us[1].ty \notin {"slot", "sub"} /\ (w = "diff" => us[1].ty \in {"diff", "other"})
        BY <3>1 DEF TreeUnit
      <3>3. CASE w \in {"slots", "filter"}
        <4>1. us[1].ty = "api"
          BY <3>1, <3>2, <3>3 DEF TreeUnit
        <4>2. us[1].ty \in above(2) /\ us[1].ty \in above(3)
          BY <4>1 DEF above
        <4>3. Cardinality(entries(us, 1, 2)) = 0 /\ Cardinality(entries(us, 1, 3)) = 0
          <5>1. 1 \in Nat /\ 2 \in 1..3 /\ 3 \in 1..3
            OBVIOUS
          <5> QED BY <1>5, <4>2, <5>1, EntryCut
        <4>4. Cardinality(entries(us, 1, 1)) \in Nat
          BY <1>5, EntriesFinite
        <4>5. left \in Triples /\ left[1] = Cardinality(entries(us, 1, 1)) /\ left[2] = 0 /\ left[3] = 0
          BY <1>4, <3>3, <4>4 DEF Triples
        <4>6. \A L \in 1..3 : L = 1 \/ L = 2 \/ L = 3
          OBVIOUS
        <4>7. Counted(us, 1, left)
          BY <4>3, <4>5, <4>6 DEF Counted
        <4> QED BY <3>3, <4>7 DEF Holds
      <3>4. CASE w = "diff"
        <4>1. us[1].ty \in outer(w)
          BY <3>2, <3>4 DEF outer
        <4>2. Within(w, us, 1, 0)
          BY <4>1 DEF Within
        <4>3. \A L \in 1..3 : us[1].ty \in above(L)
          <5>1. \A L \in 1..3 : L = 1 \/ L = 2 \/ L = 3
            OBVIOUS
          <5> QED BY <3>2, <3>4, <5>1 DEF above
        <4>4. \A L \in 1..3 : Cardinality(entries(us, 1, L)) = 0
          BY <1>5, <4>3, EntryCut
        <4>5. left \in Triples /\ \A L \in 1..3 : left[L] = 0
          BY <1>4, <2>3, <3>4
        <4>6. Counted(us, 1, left)
          BY <4>4, <4>5 DEF Counted
        <4> QED BY <3>4, <4>2, <4>6 DEF Holds
      <3> QED BY <2>7, <3>3, <3>4 DEF Deep
    <2> QED BY <2>4, <2>5, <2>6, <2>7 DEF Trees, Deep
  <1>12. 1 \in 1 .. Len(units) + 1 /\ out = {j \in 1 .. 1 - 1 : Wanted(walker, units, j)}
    <2>1. 1 \in 1 .. Len(units) + 1 /\ \A j \in 1 .. 1 - 1 : FALSE
      BY <1>2, <1>5
    <2> QED BY <1>2, <2>1
  <1>13. TreeReached(1)
    BY <1>2, <1>4, <1>9, <1>11, <1>12 DEF TreeReached
  <1> QED BY <1>2, <1>7, <1>10, <1>13 DEF TreeInv

-----------------------------------------------------------------------------
(* All walkers *)

LEMMA DecodedIsExpected == DecodeInv \/ TreeInv => AllDecoded
  <1>1. SUFFICES ASSUME DecodeInv \/ TreeInv, ~walking PROVE out = Expected
    BY DEF AllDecoded
  <1>2. out = {j \in DOMAIN units : Wanted(walker, units, j)}
    BY <1>1 DEF DecodeInv, TreeInv
  <1>a. walker \in Chained \cup Trees /\ \A j \in DOMAIN units : units[j].id = j
    BY <1>1 DEF DecodeInv, TreeInv, Whole, Intact, Encoded
  <1>3. Range(units) = {units[j] : j \in DOMAIN units}
    BY DEF Range
  <1>4. PICK E : E = {u \in Range(units) :
          CASE walker \in {"get", "identify"} -> u.ty = "want" /\ (u.id < Len(units) \/ u.size > 6)
            [] walker \in {"set", "cr", "alarm_cr", "multiple"} -> u.ty = "want"
            [] walker = "diagnosis" -> u.ty # "location"
            [] walker = "simple" -> u.ty # "zero"
            [] walker \in {"slots", "filter", "diff"} -> u.ty = "sub"
            [] walker = "vlan" -> u.ty = "type"
            [] OTHER -> u.ty # "other"}
    OBVIOUS
  <1>5. Expected = {u.id : u \in E}
    BY <1>4 DEF Expected
  <1>6. \A j \in DOMAIN units : units[j] \in E <=> Wanted(walker, units, j)
    BY <1>a, <1>3, <1>4 DEF Wanted, Chained, Trees
  <1>7. E \subseteq {units[j] : j \in DOMAIN units}
    BY <1>3, <1>4
  <1>8. ASSUME NEW x PROVE x \in out <=> x \in Expected
    BY <1>2, <1>a, <1>5, <1>6, <1>7
  <1> QED BY <1>8

(* Whatever PDU a sender encodes truthfully, of any number of units of any length,     *)
(* nested as records are and perhaps padded by Ethernet, every walker decodes exactly  *)
(* the units it is to decode: no unit is skipped, none is taken for another, and       *)
(* padding yields no phantom.  BlockWalk's Encoded says what truthful means.           *)
THEOREM HonestPdusAreDecoded == HonestWalk => []AllDecoded
  <1>1. HonestInit => DecodeInv \/ TreeInv
    <2>1. HonestInit => walker \in Chained \cup Trees
      <3>1. Walkers \subseteq Chained \cup Trees
        BY DEF Walkers, Sent, Chained, Trees
      <3> QED BY <3>1 DEF HonestInit, Arrives
    <2> QED BY <2>1, DecodeInitial, TreeInitial
  <1>2. (DecodeInv \/ TreeInv) /\ [WalkNext]_walkVars => (DecodeInv \/ TreeInv)'
    BY DecodeStep, TreeStep
  <1>3. DecodeInv \/ TreeInv => AllDecoded
    BY DecodedIsExpected
  <1> QED BY <1>1, <1>2, <1>3, PTL DEF HonestWalk

=============================================================================
