--------------------------- MODULE TakeoverProofs ---------------------------
(***************************************************************************)
(* Proofs about Takeover for every device topology, GSDML and number of    *)
(* connections: what every way out of a command leaves behind, whom the    *)
(* takeover of the IO AR can cut off, and that the Connect request and the *)
(* controller lay out the same frames.                                     *)
(***************************************************************************)
EXTENDS Takeover, WellFoundedInduction, TLAPS

Connected    == {"granted", "start", "prm", "running"}
Disconnected == {"run", "connect", "gap", "done"}

ConnOK == conn \in [id : Nat, connected : BOOLEAN]

(* What makes NothingLeft inductive: whether there is a connection at each point, *)
(* and that a connection that is gone has left nothing but orphans.               *)
LeftInv ==
  /\ ConnOK
  /\ ars \subseteq orphans \union {conn.id}
  /\ ~conn.connected => ars \subseteq orphans
  /\ pc \in Disconnected => ~conn.connected
  /\ pc \in Connected => conn.connected
  /\ cyclic # "none" => conn.connected /\ pc \in {"start", "prm", "running", "unwind"}

(* What makes TakenFromSafe inductive: between the probe and the Connect the      *)
(* gate byte is safe as it was read, unless another controller has been there.    *)
SeizeInv ==
  /\ "gate" \in seized => pc \in Connected \union {"unwind", "done", "killed"}
  /\ cmd = "command" =>
       /\ pc \in {"rebind", "gap"} => "gate" \notin output \/ since
       /\ "gate" \in seized => since

-----------------------------------------------------------------------------
(* RpcConn *)

(* A connect asked for without a connection strands no AR but as an orphan. *)
LEMMA ConnectsLeaves ==
  ASSUME NEW isIo \in BOOLEAN, NEW ok, NEW failed, LeftInv, ~conn.connected,
         Connects(isIo, ok, failed)
  PROVE  /\ ConnOK'
         /\ ars' \subseteq orphans' \union {conn'.id}
         /\ ~conn'.connected => ars' \subseteq orphans'
         /\ (conn'.connected /\ pc' = ok) \/ (~conn'.connected /\ pc' = failed)
  <1>0. conn.id + 1 \in Nat /\ ars \subseteq orphans
    BY DEF LeftInv, ConnOK
  <1>1. CASE /\ conn' = [id |-> conn.id + 1, connected |-> TRUE]
             /\ ars' = ars \union {conn.id + 1}
             /\ pc' = ok /\ orphans' = orphans
    BY <1>0, <1>1 DEF ConnOK
  <1>2. CASE /\ conn' = [id |-> conn.id + 1, connected |-> FALSE]
             /\ pc' = failed
             /\ \/ UNCHANGED <<ars, orphans>>
                \/ /\ ars' = ars \union {conn.id + 1}
                   /\ orphans' = orphans \union {conn.id + 1}
    BY <1>0, <1>2 DEF ConnOK
  <1> QED BY <1>1, <1>2 DEF Connects, Goto

(* A release ends the connection; an AR it does not reach becomes an orphan. *)
LEMMA ReleaseLeaves ==
  ASSUME LeftInv, release
  PROVE  ConnOK' /\ ~conn'.connected /\ ars' \subseteq orphans'
  BY DEF release, LeftInv, ConnOK

-----------------------------------------------------------------------------
(* What the ways out leave behind *)

LEMMA NextLeftInv == LeftInv /\ [Next]_vars => LeftInv'
  <1> SUFFICES ASSUME LeftInv, [Next]_vars PROVE LeftInv'
    OBVIOUS
  <1> USE DEF cli, device, history, Goto, Connected, Disconnected
  <1>1. CASE run \/ cmd_record \/ MatchSlots \/ PreFlight \/ Probe
    BY <1>1 DEF run, cmd_record, MatchSlots, PreFlight, paced_read, Probe, LeftInv, ConnOK
  <1>2. CASE rpc_connect
    <2>1. CASE pc' = "unwind" /\ UNCHANGED <<conn, device, history>>
      BY <1>2, <2>1 DEF rpc_connect, LeftInv, ConnOK
    <2>2. CASE Connects(FALSE, IF cmd = "record" THEN "record" ELSE "discover", "unwind")
      <3>1. ~conn.connected /\ cyclic = "none" /\ cyclic' = "none"
        BY <1>2 DEF rpc_connect, LeftInv
      <3>2. /\ ConnOK' /\ ars' \subseteq orphans' \union {conn'.id}
            /\ ~conn'.connected => ars' \subseteq orphans'
            /\ pc' \in {"record", "discover", "unwind"}
        BY <2>2, <3>1, ConnectsLeaves
      <3> QED BY <3>1, <3>2 DEF LeftInv
    <2> QED BY <1>2, <2>1, <2>2 DEF rpc_connect
  <1>3. CASE ConnectIo
    <2>1. CASE pc' = "unwind" /\ UNCHANGED <<conn, device, history>>
      BY <1>3, <2>1 DEF ConnectIo, LeftInv, ConnOK
    <2>2. CASE Connects(TRUE, "granted", "unwind")
      <3>1. ~conn.connected /\ cyclic = "none" /\ cyclic' = "none"
        BY <1>3 DEF ConnectIo, LeftInv
      <3>2. /\ ConnOK' /\ ars' \subseteq orphans' \union {conn'.id}
            /\ ~conn'.connected => ars' \subseteq orphans'
            /\ (pc' = "granted" /\ conn'.connected) \/ pc' = "unwind"
        BY <2>2, <3>1, ConnectsLeaves
      <3> QED BY <3>1, <3>2 DEF LeftInv
    <2> QED BY <1>3, <2>1, <2>2 DEF ConnectIo
  <1>4. CASE ensure_connected
    <2>1. ~conn.connected /\ cyclic = "none" /\ cyclic' = "none"
      BY <1>4 DEF ensure_connected, LeftInv
    <2>2. Connects(FALSE, "ready", "ready")
      BY <1>4 DEF ensure_connected
    <2>3. /\ ConnOK' /\ ars' \subseteq orphans' \union {conn'.id}
          /\ ~conn'.connected => ars' \subseteq orphans'
          /\ pc' = "ready"
      BY <2>1, <2>2, ConnectsLeaves
    <2> QED BY <2>1, <2>3 DEF LeftInv
  <1>5. CASE Rebind \/ DropConn \/ disconnect
    <2>1. /\ release /\ cyclic = "none" /\ cyclic' = "none"
          /\ pc' \in {"gap", "done", "ready"}
      BY <1>5 DEF Rebind, DropConn, disconnect, LeftInv
    <2> QED BY <2>1, ReleaseLeaves DEF LeftInv
  <1>6. CASE NewController \/ StartCyclic \/ Parametrise \/ Finish \/ DropCyclic \/ Kill
    BY <1>6 DEF NewController, StartCyclic, Parametrise, Finish, DropCyclic, Kill, LeftInv, ConnOK
  <1>7. CASE DevExpires \/ DevApplies \/ Other \/ UNCHANGED vars
    BY <1>7 DEF DevExpires, DevApplies, Other, vars, LeftInv, ConnOK
  <1> QED BY <1>1, <1>2, <1>3, <1>4, <1>5, <1>6, <1>7 DEF Next, Command, Facade

(* Whichever command is run and wherever a step of it fails, no AR is left in the  *)
(* device but one the network orphaned, and no thread sends outside the AR.        *)
THEOREM EveryExitCleansUp == Spec => []NothingLeft
  <1>1. Init => LeftInv
    BY DEF Init, LeftInv, ConnOK, Connected, Disconnected
  <1>2. LeftInv => NothingLeft
    BY DEF LeftInv, NothingLeft, Disconnected
  <1> QED BY <1>1, <1>2, NextLeftInv, PTL DEF Spec

-----------------------------------------------------------------------------
(* Whom the takeover cuts off *)

LEMMA NextSeizeInv == LeftInv /\ SeizeInv /\ [Next]_vars => SeizeInv'
  <1> SUFFICES ASSUME LeftInv, SeizeInv, [Next]_vars PROVE SeizeInv'
    OBVIOUS
  <1> USE DEF cli, device, history, Goto, Connected, SeizeInv
  <1>1. CASE run \/ cmd_record \/ MatchSlots
    BY <1>1 DEF run, cmd_record, MatchSlots
  <1>2. CASE PreFlight
    BY <1>2 DEF PreFlight, paced_read
  <1>3. CASE Probe
    BY <1>3 DEF Probe, output_is_safe, parse_output_control_byte
  <1>4. CASE rpc_connect \/ ensure_connected
    BY <1>4 DEF rpc_connect, ensure_connected, Connects
  <1>5. CASE ConnectIo
    BY <1>5 DEF ConnectIo, Connects
  <1>6. CASE Rebind \/ DropConn \/ disconnect
    BY <1>6 DEF Rebind, DropConn, disconnect
  <1>7. CASE NewController \/ StartCyclic \/ Parametrise \/ Finish \/ DropCyclic \/ Kill
    BY <1>7 DEF NewController, StartCyclic, Parametrise, Finish, DropCyclic, Kill
  <1>8. CASE DevExpires \/ DevApplies \/ Other \/ UNCHANGED vars
    BY <1>8 DEF DevExpires, DevApplies, Other, vars
  <1> QED BY <1>1, <1>2, <1>3, <1>4, <1>5, <1>6, <1>7, <1>8 DEF Next, Command, Facade

(* A `serve` with an allow mask that gets the IO AR of a device whose gate byte is *)
(* driven was overtaken by another controller after its probe: for that byte the   *)
(* gap between the probe and the Connect is the only window.                       *)
THEOREM TakeoverIsGated == Spec => []TakenFromSafe
  <1>1. Init => LeftInv /\ SeizeInv
    BY DEF Init, LeftInv, ConnOK, Connected, Disconnected, SeizeInv
  <1>2. SeizeInv => TakenFromSafe
    BY DEF SeizeInv, TakenFromSafe
  <1> QED BY <1>1, <1>2, NextLeftInv, NextSeizeInv, PTL DEF Spec

-----------------------------------------------------------------------------
(* The layout of the frames (IoLayout) *)

(* Induction, with a set of numbers for the property *)
LEMMA AllNumbers ==
  ASSUME NEW T, 0 \in T, \A k \in Nat : k \in T => k + 1 \in T
  PROVE  Nat \subseteq T
  <1>1. SUFFICES ASSUME Nat \ T # {} PROVE FALSE
    OBVIOUS
  <1>2. PICK R : R = OpToRel(<, Nat)
    OBVIOUS
  <1>3. IsWellFoundedOn(R, Nat)
    BY <1>2, NatLessThanWellFounded
  <1>4. \A i, j \in Nat : i < j => <<i, j>> \in R
    BY <1>2 DEF OpToRel
  <1>5. PICK x \in Nat \ T : \A y \in Nat \ T : ~(<<y, x>> \in R)
    <2>1. PICK U : U = Nat \ T /\ U \subseteq Nat /\ U # {}
      BY <1>1
    <2>2. \E x \in U : \A y \in U : ~(<<y, x>> \in R)
      BY <1>3, <2>1, WFMin
    <2> QED BY <2>1, <2>2
  <1>6. x # 0
    OBVIOUS
  <1>7. x - 1 \in Nat /\ x - 1 < x /\ (x - 1) + 1 = x
    BY <1>6
  <1>8. x - 1 \in T
    BY <1>4, <1>5, <1>7
  <1> QED BY <1>5, <1>7, <1>8

(* The first place in a list with some property *)
LEMMA FirstPlace ==
  ASSUME NEW T, T \subseteq Nat, T # {}
  PROVE  \E x \in T : \A y \in Nat : y < x => y \notin T
  <1>1. PICK R : R = OpToRel(<, Nat)
    OBVIOUS
  <1>2. IsWellFoundedOn(R, Nat)
    BY <1>1, NatLessThanWellFounded
  <1>3. \A i, j \in Nat : i < j => <<i, j>> \in R
    BY <1>1 DEF OpToRel
  <1>4. \E x \in T : \A y \in T : ~(<<y, x>> \in R)
    BY <1>2, WFMin
  <1> QED BY <1>3, <1>4

(* f is a moving offset, typed or not. *)
Moves(f, z, step) == f = [i \in 0 .. Len(step) |-> IF i = 0 THEN z ELSE f[i - 1] + step[i]]

(* f is one for the first k steps. *)
Prefix(f, z, step, k) ==
  f \in [0 .. k -> Nat] /\ f[0] = z /\ \A i \in 1 .. k : f[i] = f[i - 1] + step[i]
HasPrefix(z, step, k) == \E f : Prefix(f, z, step, k)

LEMMA MovingExists ==
  ASSUME NEW z \in Nat, NEW step \in Seq(Nat)
  PROVE  \E f : Moves(f, z, step)
  <1>1. PICK n \in Nat : n = Len(step) /\ \A i \in 1 .. n : step[i] \in Nat
    OBVIOUS
  <1>2. HasPrefix(z, step, 0)
    <2>1. Prefix([i \in 0 .. 0 |-> z], z, step, 0)
      BY DEF Prefix
    <2> QED BY <2>1 DEF HasPrefix
  <1>3. ASSUME NEW k \in Nat, HasPrefix(z, step, k), k + 1 <= n PROVE HasPrefix(z, step, k + 1)
    <2>2. PICK g : Prefix(g, z, step, k)
      BY <1>3 DEF HasPrefix
    <2>3. PICK f : f = [i \in 0 .. k + 1 |-> IF i = k + 1 THEN g[k] + step[k + 1] ELSE g[i]]
      OBVIOUS
    <2>4. step[k + 1] \in Nat /\ g[k] \in Nat /\ g[k] + step[k + 1] \in Nat
      <3>1. k + 1 \in 1 .. n /\ k \in 0 .. k
        BY <1>3
      <3> QED BY <1>1, <2>2, <3>1 DEF Prefix
    <2>5. f \in [0 .. k + 1 -> Nat]
      BY <2>2, <2>3, <2>4 DEF Prefix
    <2>6. f[k + 1] = f[k] + step[k + 1] /\ f[0] = z
      BY <2>2, <2>3 DEF Prefix
    <2>7. ASSUME NEW i \in 1 .. k PROVE f[i] = f[i - 1] + step[i]
      <3>1. f[i] = g[i] /\ f[i - 1] = g[i - 1]
        BY <2>3
      <3> QED BY <2>2, <3>1 DEF Prefix
    <2>8. \A i \in 1 .. k + 1 : i \in 1 .. k \/ i = k + 1
      OBVIOUS
    <2>9. (k + 1) - 1 = k
      OBVIOUS
    <2>10. Prefix(f, z, step, k + 1)
      BY <2>5, <2>6, <2>7, <2>8, <2>9 DEF Prefix
    <2> QED BY <2>10 DEF HasPrefix
  <1>4. HasPrefix(z, step, n)
    <2> DEFINE T == {k \in Nat : k <= n => HasPrefix(z, step, k)}
    <2>1. 0 \in T
      BY <1>2
    <2>2. ASSUME NEW k \in Nat, k \in T PROVE k + 1 \in T
      <3>1. k + 1 <= n => k <= n
        OBVIOUS
      <3> QED BY <1>3, <2>2, <3>1
    <2>3. Nat \subseteq T
      BY <2>1, <2>2, AllNumbers
    <2> QED BY <2>3
  <1>5. PICK f : Prefix(f, z, step, n)
    BY <1>4 DEF HasPrefix
  <1>6. f \in [0 .. n -> Nat] /\ \A i \in 0 .. n : f[i] = IF i = 0 THEN z ELSE f[i - 1] + step[i]
    BY <1>5 DEF Prefix
  <1>7. Moves(f, z, step)
    BY <1>1, <1>6 DEF Moves
  <1> QED BY <1>7

LEMMA MovingMoves ==
  ASSUME NEW z \in Nat, NEW step \in Seq(Nat)
  PROVE  Moves(Moving(z, step), z, step)
  <1>1. Moving(z, step) = CHOOSE f : Moves(f, z, step)
    BY DEF Moving, Moves
  <1> QED BY <1>1, MovingExists

(* An offset that only moves forward *)
Forward(f, z, step) ==
  /\ f[0] = z /\ \A i \in 0 .. Len(step) : f[i] \in Nat
  /\ \A i \in 1 .. Len(step) : f[i] = f[i - 1] + step[i]
  /\ \A i, k \in 0 .. Len(step) : i <= k => f[i] <= f[k]

LEMMA MovingForward ==
  ASSUME NEW z \in Nat, NEW step \in Seq(Nat)
  PROVE  Forward(Moving(z, step), z, step)
  <1>1. PICK f : f = Moving(z, step) /\ Moves(f, z, step)
    BY MovingMoves
  <1>2. PICK n \in Nat : n = Len(step) /\ \A i \in 1 .. n : step[i] \in Nat
    OBVIOUS
  <1>3. f[0] = z /\ \A i \in 1 .. n : f[i] = f[i - 1] + step[i]
    <2>1. f = [i \in 0 .. n |-> IF i = 0 THEN z ELSE f[i - 1] + step[i]]
      BY <1>1, <1>2 DEF Moves
    <2>2. 0 \in 0 .. n /\ \A i \in 1 .. n : i \in 0 .. n /\ i # 0
      OBVIOUS
    <2> HIDE <1>1
    <2> QED BY ONLY <2>1, <2>2
  <1>4. \A k \in Nat : k <= n => f[k] \in Nat
    <2> DEFINE T == {k \in Nat : k <= n => f[k] \in Nat}
    <2>1. 0 \in T
      BY <1>3
    <2>2. ASSUME NEW k \in Nat, k \in T PROVE k + 1 \in T
      <3>1. SUFFICES ASSUME k + 1 <= n PROVE f[k + 1] \in Nat
        OBVIOUS
      <3>2. k + 1 \in 1 .. n /\ (k + 1) - 1 = k /\ k <= n
        BY <3>1
      <3>3. f[k + 1] = f[k] + step[k + 1] /\ step[k + 1] \in Nat
        BY <1>2, <1>3, <3>2
      <3> QED BY <2>2, <3>2, <3>3
    <2>3. Nat \subseteq T
      BY <2>1, <2>2, AllNumbers
    <2> QED BY <2>3
  <1>5. \A k \in Nat : k <= n => \A i \in 0 .. k : f[i] <= f[k]
    <2> DEFINE T == {k \in Nat : k <= n => \A i \in 0 .. k : f[i] <= f[k]}
    <2>1. 0 \in T
      <3>1. f[0] <= f[0] /\ \A i \in 0 .. 0 : i = 0
        BY <1>3
      <3> QED BY <3>1
    <2>2. ASSUME NEW k \in Nat, k \in T PROVE k + 1 \in T
      <3>1. SUFFICES ASSUME k + 1 <= n, NEW i \in 0 .. k + 1 PROVE f[i] <= f[k + 1]
        OBVIOUS
      <3>2. k + 1 \in 1 .. n /\ (k + 1) - 1 = k /\ k <= n
        BY <3>1
      <3>3. f[k + 1] = f[k] + step[k + 1] /\ step[k + 1] \in Nat /\ f[k] \in Nat /\ f[k + 1] \in Nat
        BY <1>2, <1>3, <1>4, <3>2, <3>1
      <3>4. CASE i = k + 1
        BY <3>3, <3>4
      <3>5. CASE i # k + 1
        <4>1. i \in 0 .. k /\ i \in Nat /\ i <= n
          BY <3>1, <3>5
        <4>2. f[i] <= f[k] /\ f[i] \in Nat
          BY <1>4, <2>2, <3>2, <4>1
        <4> QED BY <3>3, <4>2
      <3> QED BY <3>4, <3>5
    <2>3. Nat \subseteq T
      BY <2>1, <2>2, AllNumbers
    <2> QED BY <2>3
  <1>6. \A i \in 0 .. n : i \in Nat /\ i <= n
    OBVIOUS
  <1>7. \A i, k \in 0 .. n : i <= k => i \in 0 .. k
    OBVIOUS
  <1>8. Forward(f, z, step)
    BY <1>2, <1>3, <1>4, <1>5, <1>6, <1>7 DEF Forward
  <1> QED BY <1>1, <1>8

(* The steps of the two loops over the slots, and the offsets they go through *)
DataSteps(slots, c)   == [i \in 1 .. Len(slots) |->
                            IF Length(slots[i], c) > 0 THEN Length(slots[i], c) + 1 ELSE 0]
StatusSteps(slots, c) == [i \in 1 .. Len(slots) |-> IF Length(slots[i], c) = 0 THEN 1 ELSE 0]
DataAt(slots, c)   == Moving(0, DataSteps(slots, c))
StatusAt(slots, c) == Moving(DataAt(slots, c)[Len(slots)], StatusSteps(slots, c))

Directions == {"input", "output"}

LEMMA Lengths ==
  ASSUME NEW slots \in Seq(IoSlots), NEW c \in Directions
  PROVE  /\ Len(slots) \in Nat /\ DOMAIN slots = 1 .. Len(slots)
         /\ \A i \in 1 .. Len(slots) : Length(slots[i], c) \in Nat
         /\ WithData(slots, c) = {i \in 1 .. Len(slots) : Length(slots[i], c) > 0}
         /\ Without(slots, c) = {i \in 1 .. Len(slots) : Length(slots[i], c) = 0}
  <1>1. Len(slots) \in Nat /\ DOMAIN slots = 1 .. Len(slots)
    OBVIOUS
  <1>2. \A i \in 1 .. Len(slots) : slots[i] \in IoSlots
    BY <1>1
  <1>3. \A s \in IoSlots : Length(s, c) \in Nat
    BY DEF IoSlots, Length
  <1>4. \A i \in 1 .. Len(slots) : Length(slots[i], c) \in Nat
    BY <1>2, <1>3
  <1>5. WithData(slots, c) = {i \in 1 .. Len(slots) : Length(slots[i], c) > 0}
    BY <1>1 DEF WithData
  <1>6. \A i \in 1 .. Len(slots) : ~(Length(slots[i], c) > 0) <=> Length(slots[i], c) = 0
    BY <1>4
  <1>7. Without(slots, c) = {i \in 1 .. Len(slots) : Length(slots[i], c) = 0}
    BY <1>1, <1>5, <1>6 DEF Without
  <1> QED BY <1>1, <1>4, <1>5, <1>7

(* Where the objects of a direction are: data and provider status of slot i from   *)
(* d[i - 1] up to d[i], and behind them all the consumer status of slot i at        *)
(* s[i - 1], before s[i].                                                           *)
Laid(slots, c, n, d, s) ==
  /\ \A i \in 0 .. n : d[i] \in Nat /\ s[i] \in Nat /\ d[i] <= d[n] /\ d[n] <= s[i] /\ s[i] <= s[n]
  /\ \A i, k \in 0 .. n : i <= k => d[i] <= d[k] /\ s[i] <= s[k]
  /\ \A i \in WithData(slots, c) : d[i] = d[i - 1] + Length(slots[i], c) + 1
  /\ \A i \in Without(slots, c) : s[i] = s[i - 1] + 1

LEMMA LaidOut ==
  ASSUME NEW slots \in Seq(IoSlots), NEW c \in Directions
  PROVE  Laid(slots, c, Len(slots), DataAt(slots, c), StatusAt(slots, c))
  <1>1. PICK n \in Nat : n = Len(slots) /\ \A i \in 1 .. n : Length(slots[i], c) \in Nat
    BY Lengths
  <1>2. DataSteps(slots, c) \in Seq(Nat) /\ Len(DataSteps(slots, c)) = n
    BY <1>1 DEF DataSteps
  <1>3. StatusSteps(slots, c) \in Seq(Nat) /\ Len(StatusSteps(slots, c)) = n
    BY <1>1 DEF StatusSteps
  <1>4. PICK d : d = DataAt(slots, c) /\ Forward(d, 0, DataSteps(slots, c))
    BY <1>2, MovingForward DEF DataAt
  <1>5. n \in 0 .. n /\ d[n] \in Nat
    BY <1>2, <1>4 DEF Forward
  <1>6. PICK s : s = StatusAt(slots, c) /\ Forward(s, d[n], StatusSteps(slots, c))
    BY <1>1, <1>3, <1>4, <1>5, MovingForward DEF StatusAt
  <1>7. /\ s[0] = d[n] /\ \A i \in 0 .. n : d[i] \in Nat /\ s[i] \in Nat
        /\ \A i, k \in 0 .. n : i <= k => d[i] <= d[k] /\ s[i] <= s[k]
    BY <1>2, <1>3, <1>4, <1>6 DEF Forward
  <1>8. \A i \in 0 .. n : d[i] <= d[n] /\ d[n] <= s[i] /\ s[i] <= s[n]
    <2>1. \A i \in 0 .. n : 0 \in 0 .. n /\ n \in 0 .. n /\ 0 <= i /\ i <= n
      OBVIOUS
    <2> QED BY <1>7, <2>1
  <1>9. \A i \in WithData(slots, c) : d[i] = d[i - 1] + Length(slots[i], c) + 1
    <2> TAKE i \in WithData(slots, c)
    <2>1. i \in 1 .. n /\ Length(slots[i], c) > 0 /\ Length(slots[i], c) \in Nat
      BY <1>1, Lengths
    <2>2. d[i] = d[i - 1] + DataSteps(slots, c)[i]
      BY <1>2, <1>4, <2>1 DEF Forward
    <2>3. DataSteps(slots, c)[i] = Length(slots[i], c) + 1
      BY <1>1, <2>1 DEF DataSteps
    <2>4. d[i - 1] \in Nat
      <3>1. i - 1 \in 0 .. n
        BY <2>1
      <3> QED BY <1>7, <3>1
    <2> QED BY <2>1, <2>2, <2>3, <2>4
  <1>10. \A i \in Without(slots, c) : s[i] = s[i - 1] + 1
    <2> TAKE i \in Without(slots, c)
    <2>1. i \in 1 .. n /\ Length(slots[i], c) = 0
      BY <1>1, Lengths
    <2>2. s[i] = s[i - 1] + StatusSteps(slots, c)[i]
      BY <1>3, <1>6, <2>1 DEF Forward
    <2>3. StatusSteps(slots, c)[i] = 1
      BY <1>1, <2>1 DEF StatusSteps
    <2> QED BY <2>2, <2>3
  <1>11. Laid(slots, c, n, d, s)
    BY <1>7, <1>8, <1>9, <1>10 DEF Laid
  <1> QED BY <1>1, <1>4, <1>6, <1>11

(* What rt.rs makes of these offsets, and what connect.rs does *)
Size(n) == IF n > 40 THEN n ELSE 40
Used(config, slots, c, n, d, s) ==
  /\ config.data_length = Size(s[n])
  /\ config.objects = [i \in WithData(slots, c) |->
       IoDataObject(slots[i], d[i - 1], Length(slots[i], c), d[i - 1] + Length(slots[i], c), -1)]
  /\ config.status = [i \in IF c = "output" THEN Without(slots, c) ELSE {} |->
       IoDataObject(slots[i], s[i - 1], 0, 0, s[i - 1])]
Told(block, slots, c, n, d, s) ==
  /\ block.data_length = U16(Size(s[n]))
  /\ block.objects = [i \in WithData(slots, c) |->
       [slot |-> slots[i].slot, subslot |-> slots[i].subslot, offset |-> U16(d[i - 1])]]
  /\ block.iocs = [i \in Without(slots, c) |->
       [slot |-> slots[i].slot, subslot |-> slots[i].subslot, offset |-> U16(s[i - 1])]]

LEMMA UsedLayout ==
  ASSUME NEW slots, NEW c \in Directions
  PROVE  Used(build_iocr_configs(slots)[c], slots, c, Len(slots), DataAt(slots, c), StatusAt(slots, c))
  <1>1. PICK d, s : d = DataAt(slots, c) /\ s = StatusAt(slots, c)
    OBVIOUS
  <1>2. CASE c = "input"
    <2>1. PICK r : r = build_iocr_configs(slots).input
      OBVIOUS
    <2>2. r.data_length = Size(s[Len(slots)])
      BY <1>1, <1>2, <2>1 DEF build_iocr_configs, DataSteps, StatusSteps, DataAt, StatusAt, Size
    <2>3. r.objects = [i \in WithData(slots, "input") |->
            IoDataObject(slots[i], d[i - 1], Length(slots[i], "input"), d[i - 1] + Length(slots[i], "input"), -1)]
      BY <1>1, <1>2, <2>1 DEF build_iocr_configs, DataSteps, DataAt
    <2>4. r.status = [i \in IF "input" = "output" THEN Without(slots, "input") ELSE {} |->
            IoDataObject(slots[i], s[i - 1], 0, 0, s[i - 1])]
      BY <1>1, <1>2, <2>1 DEF build_iocr_configs, DataSteps, StatusSteps, DataAt, StatusAt
    <2>5. Used(r, slots, "input", Len(slots), d, s)
      BY <2>2, <2>3, <2>4 DEF Used
    <2> QED BY <1>1, <1>2, <2>1, <2>5
  <1>3. CASE c = "output"
    <2>1. PICK r : r = build_iocr_configs(slots).output
      OBVIOUS
    <2>2. r.data_length = Size(s[Len(slots)])
      BY <1>1, <1>3, <2>1 DEF build_iocr_configs, DataSteps, StatusSteps, DataAt, StatusAt, Size
    <2>3. r.objects = [i \in WithData(slots, "output") |->
            IoDataObject(slots[i], d[i - 1], Length(slots[i], "output"), d[i - 1] + Length(slots[i], "output"), -1)]
      BY <1>1, <1>3, <2>1 DEF build_iocr_configs, DataSteps, DataAt
    <2>4. r.status = [i \in IF "output" = "output" THEN Without(slots, "output") ELSE {} |->
            IoDataObject(slots[i], s[i - 1], 0, 0, s[i - 1])]
      BY <1>1, <1>3, <2>1 DEF build_iocr_configs, DataSteps, StatusSteps, DataAt, StatusAt
    <2>5. Used(r, slots, "output", Len(slots), d, s)
      BY <2>2, <2>3, <2>4 DEF Used
    <2> QED BY <1>1, <1>3, <2>1, <2>5
  <1> QED BY <1>2, <1>3 DEF Directions

LEMMA ToldLayout ==
  ASSUME NEW slots \in Seq(IoSlots), NEW c \in Directions
  PROVE  Told(build_connect_request(slots)[c], slots, c, Len(slots), DataAt(slots, c), StatusAt(slots, c))
  <1>1. PICK n \in Nat : n = Len(slots) /\ \A i \in 1 .. n : Length(slots[i], c) \in Nat
    BY Lengths
  <1>2. StatusSteps(slots, c) = [i \in 1 .. n |-> IF Length(slots[i], c) > 0 THEN 0 ELSE 1]
    BY <1>1 DEF StatusSteps
  <1>3. build_connect_request(slots)[c] = iocr_block_req(c, slots)
    BY DEF build_connect_request, Directions
  <1>4. Told(iocr_block_req(c, slots), slots, c, n, DataAt(slots, c), StatusAt(slots, c))
    BY <1>1, <1>2 DEF iocr_block_req, Told, DataAt, StatusAt, DataSteps, Size
  <1> QED BY <1>1, <1>3, <1>4

(* An object lies within [lo, hi). *)
Within(o, lo, hi) == \A b \in Window(o) : b \in Int /\ lo <= b /\ b < hi

LEMMA DataWithin ==
  ASSUME NEW s, NEW off \in Nat, NEW len \in Nat
  PROVE  Within(IoDataObject(s, off, len, off + len, -1), off, off + len + 1)
  <1>1. PICK o : o = IoDataObject(s, off, len, off + len, -1)
    OBVIOUS
  <1>2. o.frame_offset = off /\ o.data_length = len /\ o.iops = off + len /\ o.iocs = -1
    BY <1>1 DEF IoDataObject
  <1>3. Window(o) \subseteq (off .. off + len - 1) \union {off + len}
    BY <1>2 DEF Window
  <1>4. Within(o, off, off + len + 1)
    BY <1>3 DEF Within
  <1> QED BY <1>1, <1>4

LEMMA StatusWithin ==
  ASSUME NEW s, NEW off \in Nat
  PROVE  Within(IoDataObject(s, off, 0, 0, off), off, off + 1)
  <1>1. PICK o : o = IoDataObject(s, off, 0, 0, off)
    OBVIOUS
  <1>2. o.frame_offset = off /\ o.data_length = 0 /\ o.iops = 0 /\ o.iocs = off
    BY <1>1 DEF IoDataObject
  <1>3. Window(o) \subseteq (off .. off + 0 - 1) \union {off}
    BY <1>2 DEF Window
  <1>4. Within(o, off, off + 1)
    BY <1>3 DEF Within
  <1> QED BY <1>1, <1>4

LEMMA WithinApart ==
  ASSUME NEW o, NEW p, NEW a \in Nat, NEW b \in Nat, NEW e \in Nat, NEW f \in Nat,
         Within(o, a, b), Within(p, e, f), b <= e \/ f <= a
  PROVE  Window(o) \intersect Window(p) = {}
  <1>1. SUFFICES ASSUME NEW x, x \in Window(o), x \in Window(p) PROVE FALSE
    OBVIOUS
  <1>2. x \in Int /\ a <= x /\ x < b /\ e <= x /\ x < f
    BY <1>1 DEF Within
  <1> QED BY <1>2

LEMMA WithinFrame ==
  ASSUME NEW o, NEW a \in Nat, NEW b \in Nat, NEW n \in Nat, Within(o, a, b), b <= n
  PROVE  Window(o) \subseteq 0 .. n - 1
  <1>1. SUFFICES ASSUME NEW x, x \in Window(o) PROVE x \in 0 .. n - 1
    OBVIOUS
  <1>2. x \in Int /\ a <= x /\ x < b
    BY <1>1 DEF Within
  <1> QED BY <1>2

(* The objects of one configuration *)
LEMMA ObjectsApart ==
  ASSUME NEW slots \in Seq(IoSlots), NEW c \in Directions, NEW config, NEW d, NEW s, NEW n,
         n = Len(slots), Laid(slots, c, n, d, s), Used(config, slots, c, n, d, s)
  PROVE  Separate(config)
  <1>1. /\ n \in Nat /\ \A i \in 1 .. n : Length(slots[i], c) \in Nat
        /\ WithData(slots, c) = {i \in 1 .. n : Length(slots[i], c) > 0}
        /\ Without(slots, c) = {i \in 1 .. n : Length(slots[i], c) = 0}
    BY Lengths
  <1>2. PICK os, ps, m : os = config.objects /\ ps = config.status /\ m = config.data_length
    OBVIOUS
  <1>3. m \in Nat /\ s[n] <= m
    <2>1. s[n] \in Nat
      <3>1. n \in 0 .. n
        BY <1>1
      <3> QED BY <3>1 DEF Laid
    <2>2. m = Size(s[n])
      BY <1>2 DEF Used
    <2> QED BY <2>1, <2>2 DEF Size
  <1>4. DOMAIN os = WithData(slots, c) /\ \A i \in DOMAIN os : os[i] =
          IoDataObject(slots[i], d[i - 1], Length(slots[i], c), d[i - 1] + Length(slots[i], c), -1)
    BY <1>2 DEF Used
  <1>5. DOMAIN ps \subseteq Without(slots, c) /\ \A i \in DOMAIN ps : ps[i] =
          IoDataObject(slots[i], s[i - 1], 0, 0, s[i - 1])
    BY <1>2 DEF Used
  <1>6. ASSUME NEW i \in DOMAIN os
        PROVE  /\ i \in 1 .. n /\ i - 1 \in 0 .. n /\ i \in 0 .. n /\ d[i - 1] \in Nat /\ d[i] \in Nat
               /\ Within(os[i], d[i - 1], d[i]) /\ d[i] <= d[n] /\ d[n] \in Nat /\ d[n] <= s[n] /\ s[n] \in Nat
    <2>1. i \in 1 .. n /\ i \in WithData(slots, c)
      BY <1>1, <1>4
    <2>2. i - 1 \in 0 .. n /\ i \in 0 .. n /\ n \in 0 .. n
      BY <1>1, <2>1
    <2>3. d[i - 1] \in Nat /\ d[i] \in Nat /\ d[i] <= d[n] /\ d[n] \in Nat /\ d[n] <= s[n] /\ s[n] \in Nat
      BY <2>2 DEF Laid
    <2>4. PICK z \in Nat : z = Length(slots[i], c)
      BY <1>1, <2>1
    <2>5. d[i] = d[i - 1] + z + 1 /\ os[i] = IoDataObject(slots[i], d[i - 1], z, d[i - 1] + z, -1)
      BY <1>4, <2>1, <2>4 DEF Laid
    <2>6. Within(os[i], d[i - 1], d[i])
      BY <2>3, <2>5, DataWithin
    <2> QED BY <2>1, <2>2, <2>3, <2>6
  <1>7. ASSUME NEW k \in DOMAIN ps
        PROVE  /\ k \in 1 .. n /\ k - 1 \in 0 .. n /\ k \in 0 .. n /\ s[k - 1] \in Nat /\ s[k] \in Nat
               /\ Within(ps[k], s[k - 1], s[k]) /\ d[n] <= s[k - 1] /\ s[k] <= s[n] /\ s[n] \in Nat
    <2>1. k \in 1 .. n /\ k \in Without(slots, c)
      BY <1>1, <1>5
    <2>2. k - 1 \in 0 .. n /\ k \in 0 .. n /\ n \in 0 .. n
      BY <1>1, <2>1
    <2>3. s[k - 1] \in Nat /\ s[k] \in Nat /\ d[n] <= s[k - 1] /\ s[k] <= s[n] /\ s[n] \in Nat
      BY <2>2 DEF Laid
    <2>4. s[k] = s[k - 1] + 1 /\ ps[k] = IoDataObject(slots[k], s[k - 1], 0, 0, s[k - 1])
      BY <1>5, <2>1 DEF Laid
    <2>5. Within(ps[k], s[k - 1], s[k])
      BY <2>3, <2>4, StatusWithin
    <2> QED BY <2>1, <2>2, <2>3, <2>5
  <1>8. ASSUME NEW i \in 1 .. n, NEW k \in 1 .. n, i < k
        PROVE  d[i] <= d[k - 1] /\ s[i] <= s[k - 1]
    <2>1. i \in 0 .. n /\ k - 1 \in 0 .. n /\ i <= k - 1
      BY <1>1, <1>8
    <2> QED BY <2>1 DEF Laid
  <1>9. Apart(os, os, config)
    <2>1. SUFFICES ASSUME NEW i \in DOMAIN os, NEW k \in DOMAIN os
          PROVE  /\ Window(os[i]) \subseteq 0 .. m - 1
                 /\ i # k => Window(os[i]) \intersect Window(os[k]) = {}
      BY <1>2 DEF Apart
    <2>2. Window(os[i]) \subseteq 0 .. m - 1
      <3>1. d[i] <= m
        BY <1>3, <1>6
      <3> QED BY <1>3, <1>6, <3>1, WithinFrame
    <2>3. i # k => d[i] <= d[k - 1] \/ d[k] <= d[i - 1]
      <3>1. i \in 1 .. n /\ k \in 1 .. n
        BY <1>6
      <3>2. i # k => i < k \/ k < i
        BY <1>1, <3>1
      <3> QED BY <1>8, <3>1, <3>2
    <2>4. i # k => Window(os[i]) \intersect Window(os[k]) = {}
      BY <1>6, <2>3, WithinApart
    <2> QED BY <2>2, <2>4
  <1>10. Apart(os, ps, config)
    <2>1. SUFFICES ASSUME NEW i \in DOMAIN os, NEW k \in DOMAIN ps
          PROVE  /\ Window(os[i]) \subseteq 0 .. m - 1
                 /\ Window(os[i]) \intersect Window(ps[k]) = {}
      BY <1>2 DEF Apart
    <2>2. Window(os[i]) \subseteq 0 .. m - 1
      <3>1. d[i] <= m
        BY <1>3, <1>6
      <3> QED BY <1>3, <1>6, <3>1, WithinFrame
    <2>3. d[i] <= s[k - 1]
      BY <1>6, <1>7
    <2>4. Window(os[i]) \intersect Window(ps[k]) = {}
      BY <1>6, <1>7, <2>3, WithinApart
    <2> QED BY <2>2, <2>4
  <1>11. Apart(ps, ps, config)
    <2>1. SUFFICES ASSUME NEW i \in DOMAIN ps, NEW k \in DOMAIN ps
          PROVE  /\ Window(ps[i]) \subseteq 0 .. m - 1
                 /\ i # k => Window(ps[i]) \intersect Window(ps[k]) = {}
      BY <1>2 DEF Apart
    <2>2. Window(ps[i]) \subseteq 0 .. m - 1
      <3>1. s[i] <= m
        BY <1>3, <1>7
      <3> QED BY <1>3, <1>7, <3>1, WithinFrame
    <2>3. i # k => s[i] <= s[k - 1] \/ s[k] <= s[i - 1]
      <3>1. i \in 1 .. n /\ k \in 1 .. n
        BY <1>7
      <3>2. i # k => i < k \/ k < i
        BY <1>1, <3>1
      <3> QED BY <1>8, <3>1, <3>2
    <2>4. i # k => Window(ps[i]) \intersect Window(ps[k]) = {}
      BY <1>7, <2>3, WithinApart
    <2> QED BY <2>2, <2>4
  <1> QED BY <1>2, <1>9, <1>10, <1>11 DEF Separate

LEMMA U16Is ==
  ASSUME NEW x \in Nat, x < 65536
  PROVE  U16(x) = x
  BY DEF U16

(* What the device is told of a direction is what the controller uses. *)
LEMMA ToldIsUsed ==
  ASSUME NEW slots \in Seq(IoSlots), NEW c \in Directions, NEW block, NEW config, NEW d, NEW s, NEW n,
         n = Len(slots), Laid(slots, c, n, d, s), Used(config, slots, c, n, d, s),
         Told(block, slots, c, n, d, s), config.data_length < 65536
  PROVE  /\ block.data_length = config.data_length
         /\ block.objects = Placed(config.objects)
         /\ c = "output" => block.iocs = Placed(config.status)
         /\ \A i \in WithData(slots, c) : Length(slots[i], c) < 65536
  <1>1. /\ n \in Nat /\ \A i \in 1 .. n : Length(slots[i], c) \in Nat
        /\ \A i \in WithData(slots, c) : i \in 1 .. n /\ Length(slots[i], c) \in Nat
        /\ \A i \in Without(slots, c) : i \in 1 .. n
    BY Lengths
  <1>2. \A i \in 1 .. n : i - 1 \in 0 .. n /\ i \in 0 .. n /\ n \in 0 .. n
    BY <1>1
  <1>3. n \in 0 .. n
    BY <1>1
  <1>4. s[n] \in Nat /\ Size(s[n]) \in Nat /\ s[n] <= Size(s[n]) /\ Size(s[n]) < 65536
    <2>1. s[n] \in Nat
      BY <1>3 DEF Laid
    <2>2. config.data_length = Size(s[n])
      BY DEF Used
    <2> QED BY <2>1, <2>2 DEF Size
  <1>5. ASSUME NEW i \in 0 .. n
        PROVE  d[i] \in Nat /\ s[i] \in Nat /\ d[i] < 65536 /\ s[i] < 65536
    <2>1. d[i] \in Nat /\ s[i] \in Nat /\ d[i] <= d[n] /\ d[n] <= s[i] /\ s[i] <= s[n]
      BY DEF Laid
    <2>2. d[n] \in Nat
      BY <1>3 DEF Laid
    <2> QED BY <1>4, <2>1, <2>2
  <1>6. \A i \in 0 .. n : U16(d[i]) = d[i] /\ U16(s[i]) = s[i]
    BY <1>5, U16Is
  <1>7. block.data_length = config.data_length
    BY <1>4, U16Is DEF Told, Used
  <1>8. block.objects = Placed(config.objects)
    <2>1. PICK os : os = config.objects
      OBVIOUS
    <2>2. DOMAIN os = WithData(slots, c) /\ \A i \in DOMAIN os :
            os[i].slot = slots[i].slot /\ os[i].subslot = slots[i].subslot /\ os[i].frame_offset = d[i - 1]
      BY <2>1 DEF Used, IoDataObject
    <2>3. \A i \in WithData(slots, c) : U16(d[i - 1]) = d[i - 1]
      BY <1>1, <1>2, <1>6
    <2>4. block.objects = [i \in WithData(slots, c) |->
            [slot |-> slots[i].slot, subslot |-> slots[i].subslot, offset |-> d[i - 1]]]
      BY <2>3 DEF Told
    <2>5. Placed(os) = [i \in WithData(slots, c) |->
            [slot |-> slots[i].slot, subslot |-> slots[i].subslot, offset |-> d[i - 1]]]
      BY <2>2 DEF Placed
    <2> QED BY <2>1, <2>4, <2>5
  <1>9. c = "output" => block.iocs = Placed(config.status)
    <2>1. SUFFICES ASSUME c = "output" PROVE block.iocs = Placed(config.status)
      OBVIOUS
    <2>2. PICK os : os = config.status
      OBVIOUS
    <2>3. DOMAIN os = Without(slots, c) /\ \A i \in DOMAIN os :
            os[i].slot = slots[i].slot /\ os[i].subslot = slots[i].subslot /\ os[i].frame_offset = s[i - 1]
      BY <2>1, <2>2 DEF Used, IoDataObject
    <2>4. \A i \in Without(slots, c) : U16(s[i - 1]) = s[i - 1]
      BY <1>1, <1>2, <1>6
    <2>5. block.iocs = [i \in Without(slots, c) |->
            [slot |-> slots[i].slot, subslot |-> slots[i].subslot, offset |-> s[i - 1]]]
      BY <2>4 DEF Told
    <2>6. Placed(os) = [i \in Without(slots, c) |->
            [slot |-> slots[i].slot, subslot |-> slots[i].subslot, offset |-> s[i - 1]]]
      BY <2>3 DEF Placed
    <2> QED BY <2>2, <2>5, <2>6
  <1>10. ASSUME NEW i \in WithData(slots, c) PROVE Length(slots[i], c) < 65536
    <2>1. i - 1 \in 0 .. n /\ i \in 0 .. n /\ Length(slots[i], c) \in Nat
      BY <1>1, <1>2
    <2>2. d[i] = d[i - 1] + Length(slots[i], c) + 1 /\ d[i - 1] \in Nat /\ d[i] \in Nat /\ d[i] < 65536
      BY <1>5, <2>1 DEF Laid
    <2> QED BY <2>1, <2>2
  <1> QED BY <1>7, <1>8, <1>9, <1>10

(* The expected configuration has every submodule under its slot, with its lengths. *)
Expects(expected, slot, subslot, c, len) ==
  \E e \in Range(expected) : \E s \in Range(e.submodules) :
    e.slot = slot /\ s.subslot = subslot /\ <<c, len>> \in s.data

SeenFirst(slots, i, x) ==
  slots[x].slot = slots[i].slot /\ \A k \in 1 .. x - 1 : slots[k].slot # slots[x].slot

LEMMA FirstSeen ==
  ASSUME NEW slots, NEW n \in Nat, DOMAIN slots = 1 .. n, NEW i \in 1 .. n
  PROVE  \E x \in DOMAIN slots : SeenFirst(slots, i, x)
  <1> DEFINE T == {k \in 1 .. n : slots[k].slot = slots[i].slot}
  <1>1. T \subseteq Nat /\ T # {}
    OBVIOUS
  <1>2. \E x \in T : \A y \in Nat : y < x => y \notin T
    <2> HIDE DEF T
    <2> QED BY <1>1, FirstPlace
  <1>3. PICK x \in 1 .. n : /\ slots[x].slot = slots[i].slot
                            /\ \A y \in Nat : y < x => y \notin T
    BY <1>2
  <1>4. ASSUME NEW k \in 1 .. x - 1 PROVE slots[k].slot # slots[x].slot
    <2>1. k \in Nat /\ k < x /\ k \in 1 .. n
      OBVIOUS
    <2> QED BY <1>3, <2>1
  <1> QED BY <1>3, <1>4 DEF SeenFirst

LEMMA ExpectedHasAll ==
  ASSUME NEW slots \in Seq(IoSlots), NEW c \in Directions, NEW i \in WithData(slots, c),
         Length(slots[i], c) < 65536
  PROVE  Expects(expected_submodule_block(slots), slots[i].slot, slots[i].subslot, c, Length(slots[i], c))
  <1>1. /\ Len(slots) \in Nat /\ DOMAIN slots = 1 .. Len(slots) /\ i \in 1 .. Len(slots)
        /\ Length(slots[i], c) \in Nat /\ Length(slots[i], c) > 0
    BY Lengths
  <1>2. PICK x \in DOMAIN slots : /\ slots[x].slot = slots[i].slot
                                  /\ \A k \in 1 .. x - 1 : slots[k].slot # slots[x].slot
    <2>1. PICK n : n = Len(slots)
      OBVIOUS
    <2>3. n \in Nat
      BY <1>1, <2>1
    <2>4. DOMAIN slots = 1 .. n
      BY <1>1, <2>1
    <2>5. i \in 1 .. n
      BY <1>1, <2>1
    <2>2. \E x \in DOMAIN slots : SeenFirst(slots, i, x)
      BY <2>3, <2>4, <2>5, FirstSeen
    <2> QED BY <2>2 DEF SeenFirst
  <1>3. PICK E : E = expected_submodule_block(slots)
    OBVIOUS
  <1>4. x \in DOMAIN E
    BY <1>2, <1>3 DEF expected_submodule_block
  <1>5. E[x].slot = slots[i].slot
    BY <1>2, <1>3 DEF expected_submodule_block
  <1>6. PICK S : S = E[x].submodules
    OBVIOUS
  <1>7. i \in DOMAIN S /\ S[i].subslot = slots[i].subslot
    BY <1>1, <1>2, <1>3, <1>6 DEF expected_submodule_block
  <1>8. <<c, Length(slots[i], c)>> \in S[i].data
    <2>1. PICK t : t = slots[i]
      OBVIOUS
    <2>2. S[i].data = (IF t.input > 0 \/ t.output = 0 THEN {<<"input", U16(t.input)>>} ELSE {})
                        \union (IF t.output > 0 THEN {<<"output", U16(t.output)>>} ELSE {})
      BY <1>1, <1>2, <1>3, <1>6, <2>1 DEF expected_submodule_block
    <2>3. U16(Length(t, c)) = Length(t, c) /\ Length(t, c) > 0
      BY <1>1, <2>1, U16Is
    <2>4. CASE c = "input"
      BY <2>1, <2>2, <2>3, <2>4 DEF Length
    <2>5. CASE c = "output"
      BY <2>1, <2>2, <2>3, <2>5 DEF Length
    <2> QED BY <2>4, <2>5 DEF Directions
  <1>9. E[x] \in Range(E) /\ S[i] \in Range(S)
    BY <1>4, <1>7 DEF Range
  <1> QED BY <1>3, <1>5, <1>6, <1>7, <1>8, <1>9 DEF Expects

Agreed(slots, used) ==
  /\ SameFrames(build_connect_request(slots), used)
  /\ Separate(used.input) /\ Separate(used.output)

(* For every list of slots the two computations of the layout agree. *)
LEMMA LayoutsAgree ==
  ASSUME NEW slots \in Seq(IoSlots), NEW used, used = build_iocr_configs(slots), Fits(used)
  PROVE  Agreed(slots, used)
  <1>1. PICK told : told = build_connect_request(slots)
    OBVIOUS
  <1>2. told.expected = expected_submodule_block(slots)
    BY <1>1 DEF build_connect_request
  <1>3. ASSUME NEW c \in Directions
        PROVE  /\ told[c].data_length = used[c].data_length
               /\ told[c].objects = Placed(used[c].objects)
               /\ c = "output" => told[c].iocs = Placed(used[c].status)
               /\ \A o \in Range(used[c].objects) :
                    Expects(told.expected, o.slot, o.subslot, c, o.data_length)
               /\ Separate(used[c])
    <2>1. PICK d, s, n : d = DataAt(slots, c) /\ s = StatusAt(slots, c) /\ n = Len(slots)
      OBVIOUS
    <2>2. Laid(slots, c, n, d, s) /\ Used(used[c], slots, c, n, d, s) /\ Told(told[c], slots, c, n, d, s)
      BY <1>1, <2>1, LaidOut, UsedLayout, ToldLayout
    <2>3. used[c].data_length < 65536
      BY DEF Fits, Directions
    <2>4. PICK block, config : block = told[c] /\ config = used[c]
      OBVIOUS
    <2>5. /\ block.data_length = config.data_length
          /\ block.objects = Placed(config.objects)
          /\ c = "output" => block.iocs = Placed(config.status)
          /\ \A i \in WithData(slots, c) : Length(slots[i], c) < 65536
      BY <2>1, <2>2, <2>3, <2>4, ToldIsUsed
    <2>6. Separate(config)
      BY <2>1, <2>2, <2>4, ObjectsApart
    <2>7. ASSUME NEW o \in Range(config.objects)
          PROVE  Expects(told.expected, o.slot, o.subslot, c, o.data_length)
      <3>1. PICK os : os = config.objects
        OBVIOUS
      <3>2. DOMAIN os = WithData(slots, c) /\ \A i \in DOMAIN os :
              /\ os[i].slot = slots[i].slot /\ os[i].subslot = slots[i].subslot
              /\ os[i].data_length = Length(slots[i], c)
        BY <2>2, <2>4, <3>1 DEF Used, IoDataObject
      <3>3. PICK i \in DOMAIN os : o = os[i]
        BY <3>1 DEF Range
      <3>4. i \in WithData(slots, c) /\ Length(slots[i], c) < 65536
        BY <2>5, <3>2
      <3>5. Expects(told.expected, slots[i].slot, slots[i].subslot, c, Length(slots[i], c))
        BY <1>2, <3>4, ExpectedHasAll
      <3> QED BY <3>2, <3>3, <3>5
    <2> QED BY <2>4, <2>5, <2>6, <2>7
  <1>4. SameFrames(told, used)
    <2>1. "input" \in Directions /\ "output" \in Directions
      BY DEF Directions
    <2>2. told.output.iocs = Placed(used.output.status)
      BY <1>3, <2>1
    <2>3. \A c \in {"input", "output"} :
            /\ told[c].data_length = used[c].data_length
            /\ told[c].objects = Placed(used[c].objects)
            /\ \A o \in Range(used[c].objects) :
                 Expects(told.expected, o.slot, o.subslot, c, o.data_length)
      BY <1>3 DEF Directions
    <2> QED BY <2>2, <2>3 DEF SameFrames, Expects
  <1>5. Separate(used.input) /\ Separate(used.output)
    BY <1>3 DEF Directions
  <1> QED BY <1>1, <1>4, <1>5 DEF Agreed

(* The slots of the IO AR are a list of IoSlots. *)
SlotsInv == exclude \in BOOLEAN /\ io_slots \in Seq(IoSlots)

LEMMA SlotsStep == SlotsInv /\ [Next]_vars => SlotsInv'
  <1>1. SUFFICES ASSUME SlotsInv, [Next]_vars PROVE SlotsInv'
    OBVIOUS
  <1>2. CASE run
    <2>1. exclude' \in BOOLEAN /\ io_slots' = io_slots
      BY <1>2 DEF run
    <2> QED BY <1>1, <2>1 DEF SlotsInv
  <1>3. CASE MatchSlots
    <2>1. io_slots' \in Matches(exclude) \/ io_slots' = io_slots
      BY <1>3 DEF MatchSlots
    <2>2. exclude' = exclude /\ Matches(exclude) \subseteq Seq(IoSlots)
      BY <1>1, <1>3, MatchAssumption DEF MatchSlots, cli, SlotsInv
    <2> QED BY <1>1, <2>1, <2>2 DEF SlotsInv
  <1>4. CASE UNCHANGED <<exclude, io_slots>>
    BY <1>1, <1>4 DEF SlotsInv
  <1>5. CASE \/ rpc_connect \/ cmd_record \/ PreFlight \/ Probe \/ Rebind \/ ConnectIo \/ NewController
             \/ StartCyclic \/ Parametrise \/ Finish \/ DropCyclic \/ DropConn
    BY <1>4, <1>5 DEF rpc_connect, cmd_record, PreFlight, Probe, Rebind, ConnectIo, NewController,
       StartCyclic, Parametrise, Finish, DropCyclic, DropConn, cli
  <1>6. CASE Facade \/ Kill \/ DevExpires \/ DevApplies \/ Other
    <2>1. CASE Facade
      BY <1>4, <2>1 DEF Facade, ensure_connected, disconnect, cli
    <2>2. CASE Kill
      BY <1>4, <2>2 DEF Kill, cli
    <2>3. CASE DevExpires
      BY <1>4, <2>3 DEF DevExpires, cli
    <2>4. CASE DevApplies \/ Other
      BY <1>4, <2>4 DEF DevApplies, Other, cli
    <2> QED BY <1>6, <2>1, <2>2, <2>3, <2>4
  <1>7. CASE UNCHANGED vars
    BY <1>4, <1>7 DEF vars
  <1> QED BY <1>1, <1>2, <1>3, <1>5, <1>6, <1>7 DEF Next, Command

(* The layout that connect.rs tells the device and the one rt.rs sends and decodes     *)
(* are the same, and no submodule's bytes overlap another's or lie outside the frame,  *)
(* for every list of slots whose image fits the 16-bit fields of the Connect.          *)
THEOREM LayoutIsAgreed == Spec => []LayoutAgrees
  <1>1. Init => SlotsInv
    <2>1. <<>> \in Seq(IoSlots)
      OBVIOUS
    <2>2. Init => exclude = FALSE /\ io_slots = <<>>
      BY DEF Init
    <2> QED BY <2>1, <2>2 DEF SlotsInv
  <1>2. SlotsInv /\ [Next]_vars => SlotsInv'
    BY SlotsStep
  <1>3. SlotsInv => LayoutAgrees
    <2>1. SUFFICES ASSUME SlotsInv, Fits(build_iocr_configs(io_slots))
          PROVE  Agreed(io_slots, build_iocr_configs(io_slots))
      BY DEF LayoutAgrees, Agreed
    <2> QED BY <2>1, LayoutsAgree DEF SlotsInv
  <1> QED BY <1>1, <1>2, <1>3, PTL DEF Spec
=============================================================================
