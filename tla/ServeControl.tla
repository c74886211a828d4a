---------------------------- MODULE ServeControl ----------------------------
(***************************************************************************)
(* The command layer of `profinet serve --cyclic` (src/src/bin/profinet.rs):*)
(* the loop that turns stdin commands into the output control byte, its    *)
(* pulse shapers, dead-man and abort on a lost link, the commanded safe    *)
(* shutdown every exit goes through, and the signal handler that may end   *)
(* the process at any moment.                                              *)
(*                                                                         *)
(* A control byte is the set of its bits.  The cyclic controller appears   *)
(* through its interface only: the image set_output_data writes, which the *)
(* TX thread sends every cycle, its state and ever_faulted                 *)
(* (CyclicController models what is behind them).                          *)
(***************************************************************************)
EXTENDS Integers

CONSTANTS
  Bits,            \* the bits of the control byte
  AllowMask,       \* --allow-mask, emptied by --read-only
  LevelMasks,      \* masks the caller sends with set_level
  PulseMasks,      \* masks the caller sends with pulse
  LinkFaults,      \* may the cyclic link be declared dead?
  FrameLoss,       \* may an output frame be lost on its way to the device?
  RpcFails,        \* may an acyclic request fail in transport?
  DataHold         \* --watchdog-factor: cycles without a frame until the device substitutes

PULSE_TICKS          == 3
PULSE_COOLDOWN_TICKS == 3
ROUNDS               == 3     \* rounds of safe_shutdown
ATTEMPTS             == 3     \* writes, and readbacks, of one round

ASSUME ServeAssumption ==
  /\ AllowMask \subseteq Bits
  /\ LevelMasks \subseteq SUBSET Bits /\ PulseMasks \subseteq SUBSET Bits
  /\ LinkFaults \in BOOLEAN /\ FrameLoss \in BOOLEAN /\ RpcFails \in BOOLEAN
  /\ DataHold \in Nat \ {0}

VARIABLES
  pc,           \* where the main thread is
  level,        \* ControlState.level
  pulses,       \* ControlState.pulses: the shaper of each mask
  driven,       \* driven_byte
  image,        \* the byte in the controller's output image
  elapsed,      \* output frames sent since last_tick, saturated
  wait,         \* output cycles the main thread still sleeps for
  silent,       \* CONTROL_DEADMAN has passed since last_activity
  link,         \* CyclicController::state
  everFaulted,  \* CyclicController::ever_faulted
  round,        \* rounds of safe_shutdown begun
  attempt,      \* attempts made in the loop at hand
  verified,     \* safe_shutdown's verdict
  arLost,       \* the session ends with ServeStop::ArLost
  shutdown,     \* SHUTDOWN
  safeToExit,   \* SAFE_TO_HARD_EXIT
  device,       \* what the device applies: its byte, and whether substitutes are active
  missed,       \* output frames lost in a row
  caller,       \* environment: "talking", "silent" for good, or "gone" (stdin at EOF)
  wire,         \* the byte of the last output frame
  steady        \* for each bit, the frames it has kept its value for, saturated

loopVars   == <<level, pulses, driven, elapsed>>
timeVars   == <<wait, silent>>
linkVars   == <<link, everFaulted>>
shutVars   == <<round, attempt, verified, arLost>>
signalVars == <<shutdown, safeToExit>>
wireVars   == <<device, missed, wire, steady>>
vars == <<pc, loopVars, image, timeVars, linkVars, shutVars, signalVars, wireVars, caller>>

Masks     == LevelMasks \cup PulseMasks
MaxElapsed == PULSE_TICKS + PULSE_COOLDOWN_TICKS + 1   \* enough to end any shaper
Exited    == {"exit_ok", "exit_error", "killed"}
InLoop    == pc \in {"poll", "recv", "drive", "readback", "tick", "deadman"}
commanding == AllowMask # {}
Substitutes == [byte |-> {}, substitute |-> TRUE]

Shaper == [remaining : 0..PULSE_TICKS, cooldown : 0..PULSE_COOLDOWN_TICKS]
Ready  == [remaining |-> 0, cooldown |-> 0]
active(p) == p.remaining > 0

(* EdgePulse::tick over n output cycles *)
shaped(p, n) ==
  IF active(p)
  THEN IF n < p.remaining
       THEN [p EXCEPT !.remaining = @ - n]
       ELSE LET over == n - p.remaining IN
            [remaining |-> 0,
             cooldown |-> IF over < PULSE_COOLDOWN_TICKS THEN PULSE_COOLDOWN_TICKS - over ELSE 0]
  ELSE [p EXCEPT !.cooldown = IF n < @ THEN @ - n ELSE 0]

(* ControlState::effective *)
effective == level \cup UNION {m \in PulseMasks : active(pulses[m])}

Init ==
  /\ pc = "poll"
  /\ level = {} /\ pulses = [m \in PulseMasks |-> Ready]
  /\ driven = {} /\ image = {} /\ elapsed = 0 /\ wait = 0 /\ silent = FALSE
  /\ link = "running" /\ everFaulted = FALSE
  /\ round = 0 /\ attempt = 0 /\ verified = FALSE /\ arLost = FALSE
  /\ shutdown = FALSE /\ safeToExit = ~commanding
  /\ device = [byte |-> {}, substitute |-> FALSE] /\ missed = 0
  /\ caller = "talking" /\ wire = {}
  /\ steady = [b \in Bits |-> PULSE_TICKS]

-----------------------------------------------------------------------------
(* One pass of the command loop *)

(* The link was ever declared dead, or its threads are gone. *)
cyclic_abort_StateOnly == link \in {"fault", "stopped"}
cyclic_abort == everFaulted \/ link \in {"fault", "stopped"}

(* The checks at the top.  `seconds` running out is a nondeterministic end.  *)
Poll ==
  /\ pc = "poll"
  /\ \/ pc' = "shut_round"
     \/ /\ ~shutdown /\ ~cyclic_abort
        /\ pc' = "recv"
  /\ UNCHANGED <<loopVars, image, timeVars, linkVars, shutVars, signalVars, wireVars, caller>>

(* recv_timeout() with nothing on stdin, or with stdin closed. *)
RecvNothing ==
  /\ pc = "recv"
  /\ pc' = IF caller = "gone" THEN "shut_round" ELSE "drive"
  /\ UNCHANGED <<loopVars, image, timeVars, linkVars, shutVars, signalVars, wireVars, caller>>

(* A line arrived, whatever it holds: the dead-man starts over. *)
Line == pc = "recv" /\ caller = "talking" /\ silent' = FALSE
Commands(level_, pulses_) ==
  /\ pc' = "drive" /\ level' = level_ /\ pulses' = pulses_
  /\ UNCHANGED <<driven, elapsed, image, wait, linkVars, shutVars, signalVars, wireVars, caller>>

(* apply_control_cmd: a mask with any bit outside the allow mask is refused whole. *)
allowed_MaskedDown(mask) == mask \cap AllowMask # {}
allowed(mask) == mask \subseteq AllowMask

SetLevel(mask, on) ==
  /\ Line
  /\ Commands(IF ~allowed(mask) THEN level
              ELSE IF on THEN level \cup mask ELSE level \ mask, pulses)

(* EdgePulse::trigger: refused while a pulse is active or cooling down. *)
Pulse(mask) ==
  /\ Line
  /\ Commands(level, IF allowed(mask) /\ pulses[mask] = Ready
                     THEN [pulses EXCEPT ![mask].remaining = PULSE_TICKS] ELSE pulses)

(* keepalive, ping, a refused or an unparsable line, a read or a write that the  *)
(* device answered.                                                              *)
OtherLine == Line /\ Commands(level, pulses)

(* A quit, or a request that fails in transport: the AR is lost. *)
LastLine ==
  /\ Line
  /\ pc' = "shut_round"
  /\ arLost' \in {FALSE, RpcFails}
  /\ UNCHANGED <<loopVars, image, wait, linkVars, round, attempt, verified, signalVars,
                 wireVars, caller>>

(* The commanded byte goes into the image at once; the controller refuses it in  *)
(* FAULT.  Then the thread sleeps for two cycles before it reads back.           *)
Drive ==
  /\ pc = "drive"
  /\ \/ /\ effective = driven /\ pc' = "tick"
        /\ UNCHANGED <<image, driven, wait>>
     \/ /\ effective # driven /\ link = "fault" /\ pc' = "shut_round"
        /\ UNCHANGED <<image, driven, wait>>
     \/ /\ effective # driven /\ link # "fault" /\ pc' = "readback"
        /\ image' = effective /\ driven' = effective /\ wait' = 2
  /\ UNCHANGED <<level, pulses, elapsed, silent, linkVars, shutVars, signalVars, wireVars, caller>>

(* The readback's answer is only reported, an error included. *)
Readback ==
  /\ pc = "readback" /\ wait = 0
  /\ pc' = "tick"
  /\ UNCHANGED <<loopVars, image, timeVars, linkVars, shutVars, signalVars, wireVars, caller>>

Tick_Skipped ==
  /\ pc = "tick"
  /\ pc' = "deadman"
  /\ elapsed' = 0
  /\ UNCHANGED <<level, pulses, driven, image, timeVars, linkVars, shutVars, signalVars,
                 wireVars, caller>>
(* The whole cycle periods since last_tick, of which the frames sent are at most *)
(* one more; the fraction of a period left over is dropped with last_tick.       *)
Tick ==
  /\ pc = "tick"
  /\ pc' = "deadman"
  /\ \E periods \in {n \in {elapsed, elapsed - 1} : n >= 0} :
       /\ pulses' = [m \in PulseMasks |-> shaped(pulses[m], periods)]
       /\ elapsed' = IF periods > 0 THEN 0 ELSE elapsed
  /\ UNCHANGED <<level, driven, image, timeVars, linkVars, shutVars, signalVars, wireVars, caller>>

(* The dead-man watches level bits only. *)
expired_Never == FALSE
expired == level # {} /\ silent

DeadMan ==
  /\ pc = "deadman"
  /\ pc' = IF expired THEN "shut_round" ELSE "poll"
  /\ UNCHANGED <<loopVars, image, timeVars, linkVars, shutVars, signalVars, wireVars, caller>>

Loop ==
  \/ Poll \/ RecvNothing \/ OtherLine \/ LastLine \/ Drive \/ Readback \/ Tick \/ DeadMan
  \/ \E m \in LevelMasks, on \in BOOLEAN : SetLevel(m, on)
  \/ \E m \in PulseMasks : Pulse(m)

-----------------------------------------------------------------------------
(* safe_shutdown() *)

more_rounds == round < ROUNDS
next_round_Stuck == round
next_round == round + 1

ShutRound ==
  /\ pc = "shut_round"
  /\ pc' = IF more_rounds THEN "shut_write" ELSE "shut_stop"
  /\ round' = IF more_rounds THEN next_round ELSE round
  /\ attempt' = 0
  /\ UNCHANGED <<loopVars, image, timeVars, linkVars, verified, arLost, signalVars, wireVars, caller>>

(* The zero image is written, up to ATTEMPTS times; FAULT refuses each write.    *)
(* The thread then sleeps for at least five cycles.                              *)
written_Anyway == image
written == {}

ShutWrite ==
  /\ pc = "shut_write"
  /\ IF link # "fault"
     THEN pc' = "shut_hold" /\ image' = written /\ wait' = 5 /\ attempt' = 0
     ELSE /\ UNCHANGED image
          /\ IF attempt + 1 < ATTEMPTS
             THEN pc' = pc /\ attempt' = attempt + 1 /\ UNCHANGED wait
             ELSE pc' = "shut_hold" /\ wait' = 5 /\ attempt' = 0
  /\ UNCHANGED <<loopVars, silent, linkVars, round, verified, arLost, signalVars, wireVars, caller>>

ShutHold ==
  /\ pc = "shut_hold" /\ wait = 0
  /\ pc' = "shut_read"
  /\ UNCHANGED <<loopVars, image, timeVars, linkVars, shutVars, signalVars, wireVars, caller>>

(* Only a zero byte that is not a substitute is proof. *)
proves_safe_TrustsSubstitute(d) == d.byte = {}
proves_safe(d) == d.byte = {} /\ ~d.substitute

ShutRead ==
  /\ pc = "shut_read"
  /\ \E answered \in {TRUE} \cup {~RpcFails} :
       LET proof == answered /\ proves_safe(device)
           again == attempt + 1 < ATTEMPTS
       IN /\ verified' = proof
          /\ pc' = IF proof THEN "shut_stop" ELSE IF again THEN "shut_read" ELSE "shut_round"
          /\ attempt' = IF proof \/ ~again THEN 0 ELSE attempt + 1
  /\ UNCHANGED <<loopVars, image, timeVars, linkVars, round, arLost, signalVars, wireVars, caller>>

(* stop_safe(0x00), whose STOP frames carry the zero image, and release of the AR. *)
ShutStop ==
  /\ pc = "shut_stop"
  /\ pc' = "verdict"
  /\ image' = {} /\ link' = "stopped"
  /\ \E arrives \in {TRUE} \cup {~FrameLoss} :
       /\ device' = IF arrives THEN [device EXCEPT !.byte = {}] ELSE device
       /\ wire' = {}
  /\ UNCHANGED <<loopVars, timeVars, everFaulted, shutVars, signalVars, missed, steady, caller>>

(* safe_shutdown_verdict(): whether a hard exit is harmless from now on. *)
Verdict ==
  /\ pc = "verdict"
  /\ safeToExit' = (safeToExit \/ verified)
  /\ pc' = "teardown"
  /\ UNCHANGED <<loopVars, image, timeVars, linkVars, shutVars, shutdown, wireVars, caller>>

(* The rest of the process's end, with its exit code. *)
Exit ==
  /\ pc = "teardown"
  /\ pc' = IF verified /\ ~arLost THEN "exit_ok" ELSE "exit_error"
  /\ UNCHANGED <<loopVars, image, timeVars, linkVars, shutVars, signalVars, wireVars, caller>>

Shutdown == ShutRound \/ ShutWrite \/ ShutHold \/ ShutRead \/ ShutStop \/ Verdict \/ Exit

-----------------------------------------------------------------------------
(* The signal handler: a repeated signal ends the process, but only when that   *)
(* is harmless.                                                                *)
should_hard_exit_Ungated(already, safe_) == already
should_hard_exit(already, safe_) == already /\ safe_

Signal ==
  /\ pc \notin Exited
  /\ shutdown' = TRUE
  /\ pc' = IF should_hard_exit(shutdown, safeToExit) THEN "killed" ELSE pc
  /\ UNCHANGED <<loopVars, image, timeVars, linkVars, shutVars, safeToExit, wireVars, caller>>

-----------------------------------------------------------------------------
(* The environment *)

least(a, b) == IF a < b THEN a ELSE b

(* A frame is lost: the device holds its byte, but not beyond the data hold time. *)
FrameLost ==
  LET holds == ~device.substitute /\ missed + 1 < DataHold IN
  /\ device' = IF holds THEN device ELSE Substitutes
  /\ missed' = IF holds THEN missed + 1 ELSE 0

(* One output cycle: the TX thread sends the image, in FAULT too. *)
Cycle ==
  /\ pc \notin Exited /\ link # "stopped"
  /\ wire' = image
  /\ steady' = [b \in Bits |-> IF (b \in wire) = (b \in image)
                               THEN least(steady[b] + 1, PULSE_TICKS) ELSE 1]
  /\ elapsed' = least(elapsed + 1, MaxElapsed)
  /\ wait' = IF wait > 0 THEN wait - 1 ELSE 0
  /\ \/ device' = [byte |-> image, substitute |-> FALSE] /\ missed' = 0
     \/ FrameLoss /\ FrameLost
  /\ UNCHANGED <<pc, level, pulses, driven, image, silent, linkVars, shutVars, signalVars, caller>>

(* The TX thread is late for a data hold time, or has stopped: the device turns to *)
(* its substitutes.                                                                *)
DeviceFallsBack ==
  /\ FrameLoss /\ ~device.substitute /\ pc \notin Exited
  /\ device' = Substitutes /\ missed' = 0
  /\ UNCHANGED <<pc, loopVars, image, timeVars, linkVars, shutVars, signalVars, wire, steady, caller>>

SilenceGrows ==
  /\ InLoop /\ ~silent /\ silent' = TRUE
  /\ UNCHANGED <<pc, loopVars, image, wait, linkVars, shutVars, signalVars, wireVars, caller>>

CallerLeaves ==
  /\ InLoop /\ caller = "talking" /\ caller' \in {"silent", "gone"}
  /\ UNCHANGED <<pc, loopVars, image, timeVars, linkVars, shutVars, signalVars, wireVars>>

LinkFault ==
  /\ LinkFaults /\ link = "running" /\ pc \notin Exited
  /\ link' = "fault" /\ everFaulted' = TRUE
  /\ UNCHANGED <<pc, loopVars, image, timeVars, shutVars, signalVars, wireVars, caller>>

LinkRecovers ==
  /\ link = "fault" /\ pc \notin Exited
  /\ link' = "running"
  /\ UNCHANGED <<pc, loopVars, image, timeVars, everFaulted, shutVars, signalVars, wireVars, caller>>

Ended == pc \in Exited /\ UNCHANGED vars

Next ==
  \/ Loop \/ Shutdown \/ Signal \/ Cycle \/ DeviceFallsBack \/ SilenceGrows \/ CallerLeaves
  \/ LinkFault \/ LinkRecovers \/ Ended

(* The main thread is scheduled, output cycles go by and so does time without    *)
(* input; nothing is assumed of the caller, the link or the device.              *)
Fairness == WF_vars(Loop) /\ WF_vars(Shutdown) /\ WF_vars(Cycle) /\ WF_vars(SilenceGrows)

Spec == Init /\ [][Next]_vars
FairSpec == Spec /\ Fairness

-----------------------------------------------------------------------------
(* Properties *)

Shutting == {"shut_round", "shut_write", "shut_hold", "shut_read", "shut_stop", "verdict",
             "teardown"}

(* Every variable stays within its type: masks are sets of bits, the shapers,   *)
(* sleeps and retry counters stay within their limits.                          *)
TypeOK ==
  /\ pc \in {"poll", "recv", "drive", "readback", "tick", "deadman"} \cup Shutting \cup Exited
  /\ level \subseteq Bits /\ driven \subseteq Bits /\ image \subseteq Bits /\ wire \subseteq Bits
  /\ pulses \in [PulseMasks -> Shaper]
  /\ elapsed \in 0..MaxElapsed /\ wait \in 0..5 /\ silent \in BOOLEAN
  /\ link \in {"running", "fault", "stopped"} /\ everFaulted \in BOOLEAN
  /\ round \in 0..ROUNDS /\ attempt \in 0..ATTEMPTS - 1
  /\ verified \in BOOLEAN /\ arLost \in BOOLEAN
  /\ shutdown \in BOOLEAN /\ safeToExit \in BOOLEAN
  /\ device \in [byte : SUBSET Bits, substitute : BOOLEAN] /\ missed \in 0..DataHold - 1
  /\ caller \in {"talking", "silent", "gone"}
  /\ steady \in [Bits -> 0..PULSE_TICKS]

(* "allow_mask is the only authority over what may ever be driven": no sequence *)
(* of set_level and pulse commands, accepted or refused, puts a bit outside     *)
(* --allow-mask into the image, onto the wire or into the device.               *)
WithinAllowMask == image \cup wire \cup device.byte \subseteq AllowMask

(* A repeated signal ends the process only where that strands nothing: in a     *)
(* session that may command bits, after a verified shutdown and with the cyclic *)
(* frames stopped on a zero image, however the signals fall (should_hard_exit). *)
HardExitHarmless ==
  pc = "killed" => /\ image = {}
                   /\ commanding => verified /\ link = "stopped"

(* safe_shutdown: "Drive the safe image 0x00, hold it on the wire for well over *)
(* 3 output cycles ..., THEN stop the cyclic frames".  When the frames are      *)
(* stopped the last PULSE_TICKS (= 3) of them carried zero in every bit.        *)
HeldBeforeStop == pc = "shut_stop" => wire = {} /\ \A b \in Bits : steady[b] >= 3

(* The same, but for the one way out of it: a link that was declared dead has   *)
(* refused the zero image in every round, and it never reached the controller.  *)
HeldUnlessRefused ==
  pc = "shut_stop" /\ (everFaulted => image = {})
    => wire = {} /\ \A b \in Bits : steady[b] >= 3

(* "Only OUR commanded data counts as proof": once safe_shutdown has verified   *)
(* the safe image, the image is zero and no frame still to come changes the     *)
(* device's byte back - even if the link was dead and refused every write,      *)
(* frames were lost before, between or after the readbacks, and the device read *)
(* back zero because it was on its substitutes.  A stale zero that is held from *)
(* before the command counts as proof too: it is ruled out by the sleeps alone, *)
(* which outlast a data hold time of up to 7 cycles.                            *)
VerifiedStaysSafe == verified => device.byte = {} /\ image = {}

(* The dead-man: a caller that falls silent for good while a level bit is held  *)
(* makes the loop end in the safe shutdown, whatever pulses, sleeps and         *)
(* readbacks are under way.                                                     *)
DeadManFires == (caller = "silent" /\ level # {} /\ InLoop) ~> ~InLoop

(* "the bit can never be left set (tick() always counts an active pulse down to *)
(* zero)": with no level bit held and no command coming, the image returns to   *)
(* zero by itself, or the loop ends.                                            *)
PulseEnds == (caller # "talking" /\ level = {} /\ InLoop) ~> (image = {} \/ ~InLoop)

(* A link that was ever declared dead ends the command loop, even when it has   *)
(* recovered before the loop looks (cyclic_abort_reason).                       *)
FaultEndsLoop == (everFaulted /\ InLoop) ~> ~InLoop

(* The safe shutdown is bounded: whatever the device answers, however the link  *)
(* behaves and however often a signal comes, the process ends.                  *)
ShutdownEnds == (pc \in Shutting) ~> (pc \in Exited)
=============================================================================
