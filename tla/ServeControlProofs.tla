------------------------- MODULE ServeControlProofs -------------------------
(***************************************************************************)
(* Proofs about ServeControl for every control byte, allow mask and set of *)
(* commands, and every combination of failures.                            *)
(***************************************************************************)
EXTENDS ServeControl, TLAPS

(* Pulses *)

(* The shaper keeps within its limits, and ticking never starts a pulse. *)
LEMMA ShapedType ==
  ASSUME NEW p \in Shaper, NEW n \in Nat
  PROVE  /\ shaped(p, n) \in Shaper
         /\ active(shaped(p, n)) => active(p)
  <1>1. CASE active(p) /\ n < p.remaining
    BY <1>1 DEF shaped, active, Shaper, PULSE_TICKS, PULSE_COOLDOWN_TICKS
  <1>2. CASE active(p) /\ ~(n < p.remaining)
    BY <1>2 DEF shaped, active, Shaper, PULSE_TICKS, PULSE_COOLDOWN_TICKS
  <1>3. CASE ~active(p)
    BY <1>3 DEF shaped, active, Shaper, PULSE_TICKS, PULSE_COOLDOWN_TICKS
  <1> QED BY <1>1, <1>2, <1>3

(* The commanded byte is the level bits and the bits of the active pulses. *)
LEMMA EffectiveBits ==
  ASSUME TypeOK, NEW S, level \subseteq S,
         \A m \in PulseMasks : active(pulses[m]) => m \subseteq S
  PROVE  effective \subseteq S
  BY DEF effective

-----------------------------------------------------------------------------
(* Types *)

LEMMA InitTypeOK == Init => TypeOK
  <1> SUFFICES ASSUME Init PROVE TypeOK
    OBVIOUS
  <1>1. safeToExit \in BOOLEAN
    BY Zenon DEF Init
  <1>2. pulses \in [PulseMasks -> Shaper]
    BY DEF Init, Shaper, Ready, PULSE_TICKS, PULSE_COOLDOWN_TICKS
  <1>3. steady \in [Bits -> 0..PULSE_TICKS]
    BY DEF Init, PULSE_TICKS
  <1>4. device \in [byte : SUBSET Bits, substitute : BOOLEAN]
    BY DEF Init
  <1>5. /\ elapsed \in 0..MaxElapsed /\ wait \in 0..5
        /\ round \in 0..ROUNDS /\ attempt \in 0..ATTEMPTS - 1
        /\ missed \in 0..DataHold - 1
    BY ServeAssumption DEF Init, PULSE_TICKS, PULSE_COOLDOWN_TICKS, MaxElapsed, ROUNDS, ATTEMPTS
  <1> QED
    BY <1>1, <1>2, <1>3, <1>4, <1>5, Zenon DEF Init, TypeOK, Shutting, Exited

LEMMA LoopTypeOK == TypeOK /\ Loop => TypeOK'
  <1> SUFFICES ASSUME TypeOK, Loop PROVE TypeOK'
    OBVIOUS
  <1> USE DEF loopVars, timeVars, linkVars, shutVars, signalVars, wireVars
  <1>1. CASE Poll \/ RecvNothing \/ Readback \/ DeadMan
    BY <1>1 DEF Poll, RecvNothing, Readback, DeadMan, TypeOK, Shutting, Exited
  <1>2. CASE OtherLine
    BY <1>2 DEF OtherLine, Line, Commands, TypeOK
  <1>3. CASE LastLine
    BY <1>3, ServeAssumption DEF LastLine, Line, TypeOK, Shutting
  <1>4. CASE Drive
    <2>0. level \subseteq Bits /\ \A m \in PulseMasks : m \subseteq Bits
      BY ServeAssumption DEF TypeOK
    <2>1. effective \subseteq Bits
      BY <2>0, EffectiveBits
    <2> QED BY <1>4, <2>1 DEF Drive, TypeOK, Shutting
  <1>5. CASE Tick
    <2>1. PICK periods \in {n \in {elapsed, elapsed - 1} : n >= 0} :
            /\ pulses' = [m \in PulseMasks |-> shaped(pulses[m], periods)]
            /\ elapsed' = IF periods > 0 THEN 0 ELSE elapsed
      BY <1>5 DEF Tick
    <2>2. periods \in Nat /\ elapsed' \in 0..MaxElapsed
      BY <2>1 DEF TypeOK, MaxElapsed, PULSE_TICKS, PULSE_COOLDOWN_TICKS
    <2>3. pulses' \in [PulseMasks -> Shaper]
      BY <2>1, <2>2, ShapedType DEF TypeOK
    <2> QED BY <1>5, <2>2, <2>3 DEF Tick, TypeOK
  <1>6. ASSUME NEW m \in LevelMasks, NEW on \in BOOLEAN, SetLevel(m, on)
        PROVE  TypeOK'
    BY <1>6, ServeAssumption DEF SetLevel, Line, Commands, TypeOK
  <1>7. ASSUME NEW m \in PulseMasks, Pulse(m)
        PROVE  TypeOK'
    <2>1. [pulses EXCEPT ![m].remaining = PULSE_TICKS] \in [PulseMasks -> Shaper]
      BY DEF TypeOK, Shaper, PULSE_TICKS
    <2> QED BY <1>7, <2>1 DEF Pulse, Line, Commands, TypeOK
  <1> QED BY <1>1, <1>2, <1>3, <1>4, <1>5, <1>6, <1>7 DEF Loop

LEMMA ShutdownTypeOK == TypeOK /\ Shutdown => TypeOK'
  <1> SUFFICES ASSUME TypeOK, Shutdown PROVE TypeOK'
    OBVIOUS
  <1> USE DEF loopVars, timeVars, linkVars, shutVars, signalVars, wireVars, Shutting, ROUNDS,
        ATTEMPTS
  <1>1. CASE ShutRound
    BY <1>1 DEF ShutRound, more_rounds, next_round, TypeOK
  <1>2. CASE ShutWrite
    BY <1>2 DEF ShutWrite, written, TypeOK
  <1>3. CASE ShutHold \/ Exit
    BY <1>3 DEF ShutHold, Exit, TypeOK, Exited
  <1>6. CASE Verdict
    <2>1. safeToExit' \in BOOLEAN
      BY <1>6, Zenon DEF Verdict
    <2> QED BY <1>6, <2>1 DEF Verdict, TypeOK
  <1>4. CASE ShutRead
    <2>1. verified' \in BOOLEAN
      BY <1>4, Zenon DEF ShutRead
    <2>2. attempt' \in 0..ATTEMPTS - 1
      BY <1>4 DEF ShutRead, TypeOK
    <2>3. pc' \in {"shut_stop", "shut_read", "shut_round"}
      BY <1>4 DEF ShutRead
    <2>4. UNCHANGED <<loopVars, image, timeVars, linkVars, round, arLost, signalVars, wireVars,
                      caller>>
      BY <1>4, Zenon DEF ShutRead
    <2> QED BY <2>1, <2>2, <2>3, <2>4 DEF TypeOK
  <1>5. CASE ShutStop
    BY <1>5 DEF ShutStop, TypeOK
  <1> QED BY <1>1, <1>2, <1>3, <1>4, <1>5, <1>6 DEF Shutdown

LEMMA EnvTypeOK ==
  ASSUME TypeOK, Signal \/ Cycle \/ DeviceFallsBack \/ SilenceGrows \/ CallerLeaves \/ LinkFault
                 \/ LinkRecovers
  PROVE  TypeOK'
  <1> USE DEF loopVars, timeVars, linkVars, shutVars, signalVars, wireVars
  <1>0. CASE Signal
    <2>1. pc' \in {pc, "killed"} /\ shutdown' = TRUE
      BY <1>0, Zenon DEF Signal
    <2>2. UNCHANGED <<loopVars, image, timeVars, linkVars, shutVars, safeToExit, wireVars, caller>>
      BY <1>0, Zenon DEF Signal
    <2> QED BY <2>1, <2>2 DEF TypeOK, Exited
  <1>1. CASE SilenceGrows \/ CallerLeaves \/ LinkFault \/ LinkRecovers
    BY <1>1 DEF SilenceGrows, CallerLeaves, LinkFault, LinkRecovers, TypeOK
  <1>2. CASE DeviceFallsBack
    BY <1>2, ServeAssumption DEF DeviceFallsBack, Substitutes, TypeOK
  <1>3. CASE Cycle
    <2>1. steady' \in [Bits -> 0..PULSE_TICKS]
      BY <1>3 DEF Cycle, least, TypeOK, PULSE_TICKS
    <2>2. elapsed' \in 0..MaxElapsed /\ wait' \in 0..5
      BY <1>3 DEF Cycle, least, TypeOK, PULSE_TICKS, PULSE_COOLDOWN_TICKS, MaxElapsed
    <2>3. /\ device' \in [byte : SUBSET Bits, substitute : BOOLEAN]
          /\ missed' \in 0..DataHold - 1
      <3>1. CASE device' = [byte |-> image, substitute |-> FALSE] /\ missed' = 0
        BY <3>1, ServeAssumption DEF TypeOK
      <3>2. CASE FrameLost
        <4>1. device' \in {device, Substitutes}
          BY <3>2, Zenon DEF FrameLost
        <4>2. missed' = 0 \/ (missed' = missed + 1 /\ missed + 1 < DataHold)
          BY <3>2, Zenon DEF FrameLost
        <4>3. Substitutes \in [byte : SUBSET Bits, substitute : BOOLEAN]
          BY DEF Substitutes
        <4>4. device' \in [byte : SUBSET Bits, substitute : BOOLEAN]
          BY <4>1, <4>3, Zenon DEF TypeOK
        <4>5. missed' \in 0..DataHold - 1
          BY <4>2, ServeAssumption DEF TypeOK
        <4> QED BY <4>4, <4>5
      <3> QED BY <1>3, <3>1, <3>2, Zenon DEF Cycle
    <2> QED BY <1>3, <2>1, <2>2, <2>3 DEF Cycle, TypeOK
  <1> QED BY <1>0, <1>1, <1>2, <1>3

LEMMA NextTypeOK == TypeOK /\ [Next]_vars => TypeOK'
  <1> SUFFICES ASSUME TypeOK, [Next]_vars PROVE TypeOK'
    OBVIOUS
  <1>1. CASE Loop
    BY <1>1, LoopTypeOK
  <1>2. CASE Shutdown
    BY <1>2, ShutdownTypeOK
  <1>3. CASE Signal \/ Cycle \/ DeviceFallsBack \/ SilenceGrows \/ CallerLeaves \/ LinkFault
             \/ LinkRecovers
    BY <1>3, EnvTypeOK
  <1>4. CASE UNCHANGED vars
    BY <1>4 DEF vars, loopVars, timeVars, linkVars, shutVars, signalVars, wireVars, TypeOK
  <1> QED BY <1>1, <1>2, <1>3, <1>4 DEF Next, Ended

(* Every reachable state of the command layer is well typed. *)
THEOREM TypeCorrect == Spec => []TypeOK
  <1> QED BY InitTypeOK, NextTypeOK, PTL DEF Spec
-----------------------------------------------------------------------------
(* The allow mask *)

(* What makes WithinAllowMask inductive: the level bits, the byte last driven and *)
(* the masks of the active pulses, from which the next image is put together,     *)
(* lie within the allow mask too.                                                 *)
PulsesAllowed == \A m \in PulseMasks : active(pulses[m]) => m \subseteq AllowMask
AllowInv ==
  /\ level \subseteq AllowMask /\ driven \subseteq AllowMask /\ image \subseteq AllowMask
  /\ wire \subseteq AllowMask /\ device.byte \subseteq AllowMask
  /\ PulsesAllowed

LEMMA InitAllowInv == Init => AllowInv
  <1> SUFFICES ASSUME Init PROVE AllowInv
    OBVIOUS
  <1>1. PulsesAllowed
    BY DEF Init, PulsesAllowed, active, Ready
  <1> QED BY <1>1 DEF Init, AllowInv

LEMMA LoopAllowInv == TypeOK /\ AllowInv /\ Loop => AllowInv'
  <1> SUFFICES ASSUME TypeOK, AllowInv, Loop PROVE AllowInv'
    OBVIOUS
  <1> USE DEF loopVars, wireVars
  <1>1. CASE Poll \/ RecvNothing \/ Readback \/ DeadMan \/ OtherLine \/ LastLine
    BY <1>1 DEF Poll, RecvNothing, Readback, DeadMan, OtherLine, LastLine, Line, Commands,
      AllowInv, PulsesAllowed
  <1>2. CASE Drive
    <2>1. effective \subseteq AllowMask
      BY EffectiveBits DEF AllowInv, PulsesAllowed
    <2> QED BY <1>2, <2>1 DEF Drive, AllowInv, PulsesAllowed
  <1>3. CASE Tick
    <2>1. PICK periods \in {n \in {elapsed, elapsed - 1} : n >= 0} :
            pulses' = [m \in PulseMasks |-> shaped(pulses[m], periods)]
      BY <1>3 DEF Tick
    <2>2. periods \in Nat
      BY <2>1 DEF TypeOK, MaxElapsed, PULSE_TICKS, PULSE_COOLDOWN_TICKS
    <2>3. \A m \in PulseMasks : active(pulses'[m]) => active(pulses[m])
      BY <2>1, <2>2, ShapedType DEF TypeOK
    <2>4. PulsesAllowed'
      BY <2>3 DEF AllowInv, PulsesAllowed
    <2> QED BY <1>3, <2>4 DEF Tick, AllowInv
  <1>4. ASSUME NEW mask \in LevelMasks, NEW on \in BOOLEAN, SetLevel(mask, on)
        PROVE  AllowInv'
    <2>1. level' \subseteq AllowMask
      BY <1>4 DEF SetLevel, Commands, allowed, AllowInv
    <2> QED BY <1>4, <2>1 DEF SetLevel, Commands, AllowInv, PulsesAllowed
  <1>5. ASSUME NEW mask \in PulseMasks, Pulse(mask)
        PROVE  AllowInv'
    <2>1. CASE allowed(mask) /\ pulses[mask] = Ready
      <3>1. pulses' = [pulses EXCEPT ![mask].remaining = PULSE_TICKS]
        BY <1>5, <2>1 DEF Pulse, Commands
      <3>2. \A m \in PulseMasks : m # mask => pulses'[m] = pulses[m]
        BY <3>1 DEF TypeOK
      <3>3. PulsesAllowed'
        BY <2>1, <3>2 DEF AllowInv, PulsesAllowed, allowed
      <3> QED BY <1>5, <3>3 DEF Pulse, Commands, AllowInv
    <2>2. CASE ~(allowed(mask) /\ pulses[mask] = Ready)
      BY <1>5, <2>2 DEF Pulse, Commands, AllowInv, PulsesAllowed
    <2> QED BY <2>1, <2>2
  <1> QED BY <1>1, <1>2, <1>3, <1>4, <1>5 DEF Loop

LEMMA NextAllowInv == TypeOK /\ AllowInv /\ [Next]_vars => AllowInv'
  <1> SUFFICES ASSUME TypeOK, AllowInv, [Next]_vars PROVE AllowInv'
    OBVIOUS
  <1> USE DEF loopVars, wireVars, AllowInv, PulsesAllowed
  <1>1. CASE Loop
    BY <1>1, LoopAllowInv
  <1>2. CASE ShutRound \/ ShutWrite \/ ShutHold \/ ShutRead \/ Verdict \/ Exit
    BY <1>2 DEF ShutRound, ShutWrite, written, ShutHold, ShutRead, Verdict, Exit
  <1>3. CASE ShutStop
    BY <1>3 DEF ShutStop, TypeOK
  <1>4. CASE Cycle
    BY <1>4 DEF Cycle, FrameLost, Substitutes
  <1>5. CASE Signal \/ DeviceFallsBack \/ SilenceGrows \/ CallerLeaves \/ LinkFault \/ LinkRecovers
    BY <1>5 DEF Signal, DeviceFallsBack, Substitutes, SilenceGrows, CallerLeaves, LinkFault, LinkRecovers
  <1>6. CASE UNCHANGED vars
    BY <1>6 DEF vars
  <1> QED BY <1>1, <1>2, <1>3, <1>4, <1>5, <1>6 DEF Next, Shutdown, Ended

(* Whatever the caller sends, whatever frames are lost and whatever the link does, *)
(* no bit outside --allow-mask is ever in the image, on the wire or in the device  *)
(* (apply_control_cmd and ControlState::effective).                                *)
THEOREM AllowMaskHolds == Spec => []WithinAllowMask
  <1>1. Init => AllowInv
    BY InitAllowInv
  <1>2. TypeOK /\ AllowInv /\ [Next]_vars => AllowInv'
    BY NextAllowInv
  <1>3. AllowInv => WithinAllowMask
    BY DEF AllowInv, WithinAllowMask
  <1> QED BY <1>1, <1>2, <1>3, TypeCorrect, PTL DEF Spec

-----------------------------------------------------------------------------
(* The hard exit *)

(* Once the frames are stopped they stay stopped on a zero image; the flag the    *)
(* signal handler reads is set, in a session that may command bits, only behind a *)
(* verified stop; and only that flag lets a signal kill the process.              *)
ExitInv ==
  /\ pc \in {"verdict", "teardown", "exit_ok", "exit_error"} => link = "stopped" /\ image = {}
  /\ safeToExit /\ commanding => /\ verified /\ link = "stopped" /\ image = {}
                                 /\ pc \in {"teardown"} \cup Exited
  /\ pc = "killed" => safeToExit

LEMMA InitExitInv == Init => ExitInv
  BY Zenon DEF Init, ExitInv

(* A step of the command loop begins in the loop, ends there or at the shutdown,  *)
(* and leaves the exit flag, the link, the round and the verdict alone.           *)
LEMMA LoopSteps ==
  ASSUME Loop
  PROVE  /\ pc \in {"poll", "recv", "drive", "readback", "tick", "deadman"}
         /\ pc' \in {"poll", "recv", "drive", "readback", "tick", "deadman", "shut_round"}
         /\ UNCHANGED <<safeToExit, link, everFaulted, round, verified, device, missed, wire, steady>>
  <1> USE DEF linkVars, shutVars, signalVars, wireVars
  <1>1. CASE Poll \/ RecvNothing \/ Readback \/ DeadMan
    BY <1>1 DEF Poll, RecvNothing, Readback, DeadMan
  <1>2. CASE OtherLine \/ LastLine
    BY <1>2 DEF OtherLine, LastLine, Line, Commands
  <1>3. CASE Drive
    BY <1>3 DEF Drive
  <1>4. CASE Tick
    BY <1>4 DEF Tick
  <1>5. ASSUME NEW mask, NEW on, SetLevel(mask, on) \/ Pulse(mask)
        PROVE  pc = "recv" /\ pc' = "drive"
               /\ UNCHANGED <<safeToExit, link, everFaulted, round, verified, device, missed, wire, steady>>
    BY <1>5 DEF SetLevel, Pulse, Line, Commands
  <1> QED BY <1>1, <1>2, <1>3, <1>4, <1>5 DEF Loop

LEMMA NextExitInv == TypeOK /\ ExitInv /\ [Next]_vars => ExitInv'
  <1> SUFFICES ASSUME TypeOK, ExitInv, [Next]_vars PROVE ExitInv'
    OBVIOUS
  <1> USE DEF loopVars, timeVars, linkVars, shutVars, signalVars, Exited, commanding, ExitInv
  <1>1. CASE Loop
    BY <1>1, LoopSteps
  <1>2. CASE ShutRound \/ ShutWrite \/ ShutHold \/ ShutRead
    BY <1>2 DEF ShutRound, ShutWrite, ShutHold, ShutRead
  <1>3. CASE ShutStop
    BY <1>3 DEF ShutStop
  <1>4. CASE Verdict
    BY <1>4 DEF Verdict
  <1>5. CASE Exit
    BY <1>5 DEF Exit
  <1>6. CASE Signal
    <2>1. /\ pc' = pc \/ (pc' = "killed" /\ safeToExit)
          /\ pc \notin Exited
          /\ UNCHANGED <<safeToExit, image, link, verified>>
      BY <1>6, Zenon DEF Signal, should_hard_exit
    <2> QED BY <2>1
  <1>7. CASE Cycle \/ DeviceFallsBack \/ SilenceGrows \/ CallerLeaves \/ LinkFault \/ LinkRecovers
    BY <1>7 DEF Cycle, DeviceFallsBack, SilenceGrows, CallerLeaves, LinkFault, LinkRecovers
  <1>8. CASE UNCHANGED vars
    BY <1>8 DEF vars
  <1> QED BY <1>1, <1>2, <1>3, <1>4, <1>5, <1>6, <1>7, <1>8 DEF Next, Shutdown, Ended

(* However many signals come and wherever they fall, they end the process only in  *)
(* a session that may command nothing, or behind a verified stop on a zero image   *)
(* (should_hard_exit, SAFE_TO_HARD_EXIT).                                          *)
THEOREM SignalsAreHarmless == Spec => []HardExitHarmless
  <1>1. AllowInv /\ ExitInv => HardExitHarmless
    BY DEF AllowInv, ExitInv, HardExitHarmless, commanding
  <1>2. Spec => []AllowInv
    BY InitAllowInv, NextAllowInv, TypeCorrect, PTL DEF Spec
  <1>3. Spec => []ExitInv
    BY InitExitInv, NextExitInv, TypeCorrect, PTL DEF Spec
  <1> QED BY <1>1, <1>2, <1>3, PTL

-----------------------------------------------------------------------------
(* The hold of the safe image *)

(* The zero image is on the wire, and has been for PULSE_TICKS frames. *)
Held == wire = {} /\ \A b \in Bits : steady[b] >= 3

(* A round of safe_shutdown has slept for its five cycles. *)
RoundSlept == pc \in {"shut_read", "shut_stop"} \/ (pc = "shut_round" /\ round > 0)

(* Only a link that was declared dead keeps the zero image out; and where the      *)
(* image is zero, the frames sent since a round wrote it all carried it.           *)
HoldInv ==
  /\ link = "fault" => everFaulted
  /\ InLoop => round = 0
  /\ (pc = "shut_hold" \/ RoundSlept) /\ ~everFaulted => image = {}
  /\ pc = "shut_hold" /\ image = {} =>
       /\ wait < 5 => wire = {}
       /\ \A b \in Bits : steady[b] >= least(5 - wait, 3)
  /\ RoundSlept /\ image = {} => Held

LEMMA InitHoldInv == Init => HoldInv
  BY Zenon DEF Init, HoldInv, InLoop, RoundSlept

LEMMA LoopHoldInv == TypeOK /\ HoldInv /\ Loop => HoldInv'
  <1> SUFFICES ASSUME TypeOK, HoldInv, Loop PROVE HoldInv'
    OBVIOUS
  <1>1. round = 0
    BY LoopSteps DEF HoldInv, InLoop
  <1> QED BY <1>1, LoopSteps DEF HoldInv, InLoop, RoundSlept, TypeOK

LEMMA ShutdownHoldInv == TypeOK /\ HoldInv /\ Shutdown => HoldInv'
  <1> SUFFICES ASSUME TypeOK, HoldInv, Shutdown PROVE HoldInv'
    OBVIOUS
  <1> USE DEF loopVars, timeVars, linkVars, shutVars, signalVars, wireVars, Exited, InLoop, Held,
        RoundSlept, HoldInv
  <1>1. CASE ShutRound
    BY <1>1 DEF ShutRound, more_rounds, next_round, ROUNDS, TypeOK
  <1>2. CASE ShutWrite
    <2>1. /\ pc = "shut_write"
          /\ pc' = "shut_write" \/ (pc' = "shut_hold" /\ wait' = 5)
          /\ image' = {} \/ (image' = image /\ everFaulted)
          /\ UNCHANGED <<link, everFaulted, round, wire, steady>>
      BY <1>2 DEF ShutWrite, written
    <2>2. wait' = 5 => \A b \in Bits : steady[b] >= least(5 - wait', 3)
      BY <2>1 DEF least, TypeOK
    <2> QED BY <2>1, <2>2
  <1>3. CASE ShutHold
    <2>1. image = {} => Held
      BY <1>3 DEF ShutHold, least
    <2> QED BY <1>3, <2>1 DEF ShutHold
  <1>4. CASE ShutRead
    <2>1. /\ pc = "shut_read" /\ pc' \in {"shut_stop", "shut_read", "shut_round"}
          /\ UNCHANGED <<image, link, everFaulted, round, wait, wire, steady>>
      BY <1>4 DEF ShutRead
    <2> QED BY <2>1
  <1>5. CASE ShutStop
    BY <1>5 DEF ShutStop, TypeOK
  <1>6. CASE Verdict \/ Exit
    BY <1>6 DEF Verdict, Exit
  <1> QED BY <1>1, <1>2, <1>3, <1>4, <1>5, <1>6 DEF Shutdown

LEMMA CycleHoldInv == TypeOK /\ HoldInv /\ Cycle => HoldInv'
  <1> SUFFICES ASSUME TypeOK, HoldInv, Cycle PROVE HoldInv'
    OBVIOUS
  <1>1. /\ UNCHANGED <<pc, image, link, everFaulted, round>>
        /\ wire' = image /\ wait' = IF wait > 0 THEN wait - 1 ELSE 0
    BY DEF Cycle, linkVars, shutVars
  <1>2. \A b \in Bits : steady'[b] = IF (b \in wire) = (b \in image)
                                     THEN least(steady[b] + 1, PULSE_TICKS) ELSE 1
    BY DEF Cycle
  <1>4. ASSUME Held, image = {} PROVE Held'
    BY <1>1, <1>2, <1>4 DEF Held, least, PULSE_TICKS, TypeOK
  <1>5. ASSUME pc = "shut_hold", image = {}
        PROVE  wire' = {} /\ \A b \in Bits : steady'[b] >= least(5 - wait', 3)
    <2>1. wait \in 0..5
      BY DEF TypeOK
    <2>2. CASE wait = 5
      BY <1>1, <1>2, <1>5, <2>1, <2>2 DEF least, PULSE_TICKS, TypeOK
    <2>3. CASE wait < 5
      <3>1. wire = {} /\ \A b \in Bits : steady[b] >= least(5 - wait, 3)
        BY <1>5, <2>3 DEF HoldInv
      <3> QED BY <1>1, <1>2, <1>5, <2>1, <2>3, <3>1 DEF least, PULSE_TICKS, TypeOK
    <2> QED BY <2>1, <2>2, <2>3
  <1> QED BY <1>1, <1>4, <1>5 DEF HoldInv, RoundSlept, InLoop

LEMMA NextHoldInv == TypeOK /\ HoldInv /\ [Next]_vars => HoldInv'
  <1> SUFFICES ASSUME TypeOK, HoldInv, [Next]_vars PROVE HoldInv'
    OBVIOUS
  <1> USE DEF loopVars, timeVars, linkVars, shutVars, signalVars, wireVars, Exited, InLoop, Held,
        RoundSlept, HoldInv
  <1>1. CASE Loop
    BY <1>1, LoopHoldInv
  <1>2. CASE Shutdown
    BY <1>2, ShutdownHoldInv
  <1>3. CASE Cycle
    BY <1>3, CycleHoldInv
  <1>4. CASE Signal
    <2>1. /\ pc' = pc \/ pc' = "killed"
          /\ UNCHANGED <<image, wait, link, everFaulted, round, wire, steady>>
      BY <1>4, Zenon DEF Signal
    <2> QED BY <2>1
  <1>5. CASE DeviceFallsBack
    BY <1>5 DEF DeviceFallsBack
  <1>6. CASE SilenceGrows \/ CallerLeaves \/ LinkFault \/ LinkRecovers
    BY <1>6 DEF SilenceGrows, CallerLeaves, LinkFault, LinkRecovers
  <1>7. CASE UNCHANGED vars
    BY <1>7 DEF vars
  <1> QED BY <1>1, <1>2, <1>3, <1>4, <1>5, <1>6, <1>7 DEF Next, Ended

(* safe_shutdown holds the zero image on the wire for three frames before it stops *)
(* them, however many rounds and readbacks it takes and whatever frames are lost,  *)
(* unless a link that was declared dead refused the image in every round.          *)
(* (ServeFault shows that exception happening.)                                    *)
THEOREM SafeImageIsHeld == Spec => []HeldUnlessRefused
  <1>1. TypeOK /\ HoldInv /\ [Next]_vars => HoldInv'
    BY NextHoldInv
  <1>2. HoldInv => HeldUnlessRefused
    BY DEF HoldInv, HeldUnlessRefused, RoundSlept, Held
  <1> QED BY <1>1, <1>2, InitHoldInv, TypeCorrect, PTL DEF Spec

-----------------------------------------------------------------------------
(* The verdict *)

(* The device holds another byte than the image says, without substituting. *)
Stale == image # {} /\ ~device.substitute /\ device.byte # image

(* While the device holds a stale byte, it has missed every frame since the image  *)
(* was written: at least as many as the main thread has slept for since.           *)
VerdictInv ==
  /\ Stale => /\ pc = "readback" => missed + wait >= 2
              /\ pc \in {"poll", "recv", "drive", "tick", "deadman", "shut_round", "shut_write"}
                   => missed >= 2
              /\ pc = "shut_hold" => missed + wait >= 7
              /\ pc = "shut_read" => missed >= 7
  /\ verified => /\ pc \in {"shut_stop", "verdict", "teardown"} \cup Exited
                 /\ device.byte = {} /\ image = {}

LEMMA InitVerdictInv == Init => VerdictInv
  BY Zenon DEF Init, VerdictInv, Stale

LEMMA LoopVerdictInv == TypeOK /\ VerdictInv /\ Loop => VerdictInv'
  <1> SUFFICES ASSUME TypeOK, VerdictInv, Loop PROVE VerdictInv'
    OBVIOUS
  <1>1. /\ ~verified /\ ~verified'
        /\ UNCHANGED <<device, missed>>
    BY LoopSteps DEF VerdictInv, Exited
  <1>2. CASE Drive
    BY <1>1, <1>2 DEF Drive, VerdictInv, Stale, TypeOK
  <1>3. CASE Readback
    BY <1>1, <1>3 DEF Readback, timeVars, VerdictInv, Stale, TypeOK
  <1>4. ASSUME ~Drive, ~Readback PROVE UNCHANGED <<image, wait>> /\ pc # "readback" /\ pc' # "readback"
    <2>1. ASSUME NEW mask, NEW on, SetLevel(mask, on) \/ Pulse(mask)
          PROVE  UNCHANGED <<image, wait>> /\ pc # "readback" /\ pc' # "readback"
      BY <2>1 DEF SetLevel, Pulse, Line, Commands
    <2>2. CASE Poll \/ RecvNothing \/ OtherLine \/ LastLine \/ Tick \/ DeadMan
      BY <2>2 DEF Poll, RecvNothing, OtherLine, LastLine, Tick, DeadMan, Line, Commands, timeVars
    <2> QED BY <1>4, <2>1, <2>2 DEF Loop
  <1>5. ASSUME ~Drive, ~Readback PROVE VerdictInv'
    BY <1>1, <1>4, <1>5, LoopSteps DEF VerdictInv, Stale
  <1> QED BY <1>2, <1>3, <1>5

LEMMA ShutdownVerdictInv ==
  ASSUME DataHold <= 7, TypeOK, VerdictInv, Shutdown
  PROVE  VerdictInv'
  <1> USE DEF loopVars, timeVars, linkVars, shutVars, signalVars, wireVars, Exited, Stale, VerdictInv
  <1>1. CASE ShutRound
    BY <1>1 DEF ShutRound, TypeOK
  <1>2. CASE ShutWrite
    <2>1. /\ pc = "shut_write"
          /\ pc' = "shut_write" \/ (pc' = "shut_hold" /\ wait' = 5)
          /\ image' = {} \/ image' = image
          /\ UNCHANGED <<verified, device, missed>>
      BY <1>2 DEF ShutWrite, written
    <2> QED BY <2>1 DEF TypeOK
  <1>3. CASE ShutHold
    BY <1>3 DEF ShutHold, TypeOK
  <1>4. CASE ShutRead
    <2>1. /\ pc = "shut_read"
          /\ UNCHANGED <<image, wait, device, missed>>
      BY <1>4 DEF ShutRead
    <2>2. \/ verified' /\ pc' = "shut_stop" /\ device.byte = {} /\ ~device.substitute
          \/ ~verified' /\ pc' \in {"shut_read", "shut_round"}
      BY <1>4, Zenon DEF ShutRead, proves_safe
    <2>3. Stale => missed >= 7
      BY <2>1
    <2>4. ~Stale
      BY <2>3, ServeAssumption DEF TypeOK
    <2>5. verified' => image = {}
      BY <2>2, <2>4
    <2> QED BY <2>1, <2>2, <2>3, <2>5 DEF TypeOK
  <1>5. CASE ShutStop
    BY <1>5 DEF ShutStop, TypeOK
  <1>6. CASE Verdict \/ Exit
    BY <1>6 DEF Verdict, Exit
  <1> QED BY <1>1, <1>2, <1>3, <1>4, <1>5, <1>6 DEF Shutdown

LEMMA CycleVerdictInv == TypeOK /\ VerdictInv /\ Cycle => VerdictInv'
  <1> SUFFICES ASSUME TypeOK, VerdictInv, Cycle PROVE VerdictInv'
    OBVIOUS
  <1>1. /\ UNCHANGED <<pc, image, verified>>
        /\ wait' = IF wait > 0 THEN wait - 1 ELSE 0
    BY DEF Cycle, shutVars
  <1>2. \/ device' = [byte |-> image, substitute |-> FALSE]
        \/ device' = Substitutes
        \/ device' = device /\ missed' = missed + 1
    BY DEF Cycle, FrameLost
  <1>3. verified' => device'.byte = {}
    BY <1>1, <1>2 DEF VerdictInv, Substitutes
  <1>4. Stale' => Stale /\ missed' = missed + 1
    BY <1>1, <1>2 DEF Stale, Substitutes
  <1> QED BY <1>1, <1>3, <1>4 DEF VerdictInv, TypeOK

LEMMA NextVerdictInv ==
  ASSUME DataHold <= 7, TypeOK, VerdictInv, [Next]_vars
  PROVE  VerdictInv'
  <1> USE DEF loopVars, timeVars, linkVars, shutVars, signalVars, wireVars, Exited, Stale, VerdictInv
  <1>1. CASE Loop
    BY <1>1, LoopVerdictInv
  <1>2. CASE Shutdown
    BY <1>2, ShutdownVerdictInv
  <1>3. CASE Cycle
    BY <1>3, CycleVerdictInv
  <1>4. CASE Signal
    <2>1. /\ pc' = pc \/ pc' = "killed"
          /\ UNCHANGED <<image, wait, verified, device, missed>>
      BY <1>4, Zenon DEF Signal
    <2> QED BY <2>1
  <1>5. CASE DeviceFallsBack
    BY <1>5 DEF DeviceFallsBack, Substitutes
  <1>6. CASE SilenceGrows \/ CallerLeaves \/ LinkFault \/ LinkRecovers
    BY <1>6 DEF SilenceGrows, CallerLeaves, LinkFault, LinkRecovers
  <1>7. CASE UNCHANGED vars
    BY <1>7 DEF vars
  <1> QED BY <1>1, <1>2, <1>3, <1>4, <1>5, <1>6, <1>7 DEF Next, Ended

(* A verified safe image is the caller's own and stays in the device until the     *)
(* process ends, whatever the link does and whatever frames are lost, wherever the *)
(* device's data hold time is within the seven cycles that safe_shutdown and the   *)
(* readback before it sleep for (--watchdog-factor up to 7; 6 is the default).     *)
THEOREM VerdictIsFinal == DataHold <= 7 /\ Spec => []VerifiedStaysSafe
  <1> SUFFICES ASSUME DataHold <= 7 PROVE Spec => []VerifiedStaysSafe
    OBVIOUS
  <1>1. TypeOK /\ VerdictInv /\ [Next]_vars => VerdictInv'
    BY NextVerdictInv
  <1>2. VerdictInv => VerifiedStaysSafe
    BY DEF VerdictInv, VerifiedStaysSafe
  <1> QED BY <1>1, <1>2, InitVerdictInv, TypeCorrect, PTL DEF Spec
=============================================================================
