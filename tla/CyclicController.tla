-------------------------- MODULE CyclicController --------------------------
(***************************************************************************)
(* The RT_CLASS_1 cyclic data exchange controller of src/src/cyclic.rs,    *)
(* together with the double-buffered output image of src/src/rt.rs.        *)
(*                                                                         *)
(* Three kinds of thread share one struct (`Shared`):                      *)
(*   - the owner, which calls start, set_output_data, set_safe_output,     *)
(*     stop and drop.  start, stop and drop borrow the controller mutably, *)
(*     so the owner's calls never overlap one another;                     *)
(*   - a TX thread, which sends the output image once per cycle;           *)
(*   - an RX thread, which processes input frames and runs the watchdog.   *)
(* Every start spawns a new pair of threads, a GENERATION.                 *)
(*                                                                         *)
(* A step of the model is the code between two acquisitions of the shared  *)
(* locks or atomics, so a value read under one lock and acted upon under   *)
(* another may be stale, as it may be in the program.                      *)
(***************************************************************************)
EXTENDS Naturals

CONSTANTS
  Values,         \* contents of the commanded output submodule
  Zero,           \* the all-zero image a new builder starts from
  Unset,          \* safe_output is None
  Refused,        \* a safe_output the builder rejects: no such submodule
  MaxTimeouts,    \* max_consecutive_timeouts; 0 means the watchdog only monitors
  MaxStarts,      \* bound: how many generations of threads are spawned
  CounterMod,     \* range of the TX cycle counter (2^16 in the code)
  CounterStep,    \* tx_counter_step: send_clock_factor * reduction_ratio
  FaultRestart,   \* does the owner call start() in FAULT, without stop() first?
  RxErrors,       \* may the capture report a receive error?
  SendErrors,     \* may a send fail?
  InputStatuses,  \* provider statuses (IOPS) the device sends with its input
  LinkMayDie      \* may the device fall silent for good?

ASSUME ConstantsAssumption ==
  /\ Zero \in Values
  /\ Unset \notin Values /\ Refused \notin Values /\ Unset # Refused
  /\ MaxTimeouts \in Nat
  /\ MaxStarts \in Nat
  /\ CounterMod \in Nat \ {0} /\ CounterStep \in Nat \ {0}
  /\ FaultRestart \in BOOLEAN /\ RxErrors \in BOOLEAN /\ SendErrors \in BOOLEAN
  /\ InputStatuses \subseteq {"good", "bad"} /\ LinkMayDie \in BOOLEAN

VARIABLES
  state,        \* Shared.state
  running,      \* Shared.running
  everFaulted,  \* Shared.ever_faulted
  out,          \* Shared.output_builder: the write and send buffers
  safe,         \* Shared.safe_output
  consecutive,  \* stats.consecutive_timeouts, saturated at MaxTimeouts
  expired,      \* a watchdog period has passed since stats.last_receive_time
  counter,      \* Shared.cycle_counter
  input,        \* the provider status stored with the latest input image
  told,         \* history: the last status on_input_status was given
  opc,          \* where the owner is
  dropping,     \* the stop in progress is the one of Drop
  stopIndex,    \* `i` of send_stop_frames
  stopFrame,    \* the STOP frame built and not yet sent
  gen,          \* generations spawned so far
  txThread,     \* tx_thread: the generation whose JoinHandle is held, 0 for None
  rxThread,     \* rx_thread
  txpc,         \* where the TX thread of each generation is
  txFrame,      \* the frame it has built and not yet sent
  rxpc,         \* where the RX thread of each generation is
  rxCount,      \* `consecutive`, its copy of the timeout streak
  rxFlip,       \* the status change it has yet to report
  link,         \* environment: "up", or "dead" once no usable frame will come
  wire,         \* the last frame that left the controller
  promised,     \* history: the safe image whose STOP frame went out, else Unset
  faulted       \* history: FAULT was entered since the last start

sharedVars == <<state, running, everFaulted, out, safe, consecutive, expired, counter, input>>
ownerVars  == <<opc, dropping, stopIndex, stopFrame, gen, txThread, rxThread>>
txVars     == <<txpc, txFrame>>
rxVars     == <<rxpc, rxCount, rxFlip>>
historyVars == <<told, wire, promised, faulted>>
vars == <<sharedVars, ownerVars, txVars, rxVars, link, historyVars>>

-----------------------------------------------------------------------------
(* Data *)

CyclicState == {"idle", "starting", "running", "stopping", "stopped", "fault"}
Generations == 1..MaxStarts
Iocs        == {"good", "bad"}
Image       == [data : Values, iocs : Iocs]
Builder     == [write : Image, send : Image, dirty : BOOLEAN]
Counters    == 0..(CounterMod - 1)
Frame       == [kind : {"none", "run", "stop"}, data : Values, iocs : Iocs, counter : Counters]
NoFrame     == [kind |-> "none", data |-> Zero, iocs |-> "bad", counter |-> 0]
STOP_FRAME_COUNT == 3

output_writes_locked(s) == s \in {"stopping", "fault", "stopped"}

(* CyclicDataBuilder.  Only the commanded submodule's bytes and the consumer  *)
(* status matter here; the provider status of outputs is GOOD throughout.     *)
swap(b)        == IF b.dirty THEN [b EXCEPT !.send = b.write, !.dirty = FALSE] ELSE b
set_data(b, v) == [b EXCEPT !.write.data = v, !.dirty = TRUE]
set_all_iocs_NotDirty(b, s) == [b EXCEPT !.write.iocs = s]
set_all_iocs(b, s) ==
  IF b.write.iocs = s THEN b ELSE [b EXCEPT !.write.iocs = s, !.dirty = TRUE]

(* The streak is only ever compared with MaxTimeouts. *)
bump(n) == IF n < MaxTimeouts THEN n + 1 ELSE n

next_counter_Unwrapped(n) == n + CounterStep
next_counter(n) == (n + CounterStep) % CounterMod

frame_of(kind, b) ==
  [kind |-> kind, data |-> b.send.data, iocs |-> b.send.iocs, counter |-> counter]

TxAlive(g) == txpc[g] \notin {"none", "exited"}
RxAlive(g) == rxpc[g] \notin {"none", "exited"}

Init ==
  /\ state = "idle" /\ running = FALSE /\ everFaulted = FALSE
  /\ out = [write |-> [data |-> Zero, iocs |-> "bad"],
            send  |-> [data |-> Zero, iocs |-> "bad"], dirty |-> TRUE]
  /\ safe = Unset /\ consecutive = 0 /\ expired = FALSE /\ counter = 0
  /\ input = "none" /\ told = FALSE
  /\ opc = "ready" /\ dropping = FALSE /\ stopIndex = 0 /\ stopFrame = NoFrame
  /\ gen = 0 /\ txThread = 0 /\ rxThread = 0
  /\ txpc = [g \in Generations |-> "none"]
  /\ txFrame = [g \in Generations |-> NoFrame]
  /\ rxpc = [g \in Generations |-> "none"]
  /\ rxCount = [g \in Generations |-> 0]
  /\ rxFlip = [g \in Generations |-> "none"]
  /\ link = "up" /\ wire = NoFrame /\ promised = Unset /\ faulted = FALSE

-----------------------------------------------------------------------------
(* start() *)

(* The owner moves on; the rest of its own state stays. *)
OwnerTo(pc) == opc' = pc /\ UNCHANGED <<dropping, stopIndex, stopFrame, gen, txThread, rxThread>>

StartCheck ==
  /\ opc = "ready" /\ gen < MaxStarts
  /\ state \in {"idle", "stopped"} \/ (state = "fault" /\ FaultRestart)
  /\ OwnerTo("start_transition")
  /\ UNCHANGED <<sharedVars, txVars, rxVars, link, historyVars>>

StartTransition ==
  /\ opc = "start_transition"
  /\ state' = "starting"
  /\ promised' = Unset
  /\ OwnerTo("start_run")
  /\ UNCHANGED <<running, everFaulted, out, safe, consecutive, expired, counter, input>>
  /\ UNCHANGED <<txVars, rxVars, link, told, wire, faulted>>

StartRun ==
  /\ opc = "start_run"
  /\ running' = TRUE
  /\ OwnerTo("start_reset")
  /\ UNCHANGED <<state, everFaulted, out, safe, consecutive, expired, counter, input>>
  /\ UNCHANGED <<txVars, rxVars, link, historyVars>>

StartReset ==
  /\ opc = "start_reset"
  /\ consecutive' = 0 /\ expired' = FALSE
  /\ OwnerTo("start_clear")
  /\ UNCHANGED <<state, running, everFaulted, out, safe, counter, input>>
  /\ UNCHANGED <<txVars, rxVars, link, historyVars>>

StartClear ==
  /\ opc = "start_clear"
  /\ everFaulted' = FALSE /\ faulted' = FALSE
  /\ OwnerTo("start_open")
  /\ UNCHANGED <<state, running, out, safe, consecutive, expired, counter, input>>
  /\ UNCHANGED <<txVars, rxVars, link, told, wire, promised>>

(* Either raw socket may fail to open; the error leaves STARTING behind. *)
StartOpen ==
  /\ opc = "start_open"
  /\ \/ out' = swap(out) /\ OwnerTo("start_spawn_tx")
     \/ out' = out /\ OwnerTo("ready")
  /\ UNCHANGED <<state, running, everFaulted, safe, consecutive, expired, counter, input>>
  /\ UNCHANGED <<txVars, rxVars, link, historyVars>>

StartSpawnTx ==
  /\ opc = "start_spawn_tx"
  /\ opc' = "start_spawn_rx"
  /\ gen' = gen + 1 /\ txThread' = gen + 1
  /\ txpc' = [txpc EXCEPT ![gen + 1] = "check"]
  /\ UNCHANGED <<dropping, stopIndex, stopFrame, rxThread, txFrame>>
  /\ UNCHANGED <<sharedVars, rxVars, link, historyVars>>

StartSpawnRx ==
  /\ opc = "start_spawn_rx"
  /\ opc' = "start_running"
  /\ rxThread' = gen
  /\ rxpc' = [rxpc EXCEPT ![gen] = "arm"]
  /\ UNCHANGED <<dropping, stopIndex, stopFrame, gen, txThread, rxCount, rxFlip>>
  /\ UNCHANGED <<sharedVars, txVars, link, historyVars>>

(* A thread that cannot be spawned: start() returns its error at once and    *)
(* the handle fields keep what they held.                                    *)
StartSpawnFails ==
  /\ opc \in {"start_spawn_tx", "start_spawn_rx"}
  /\ OwnerTo("ready")
  /\ UNCHANGED <<sharedVars, txVars, rxVars, link, historyVars>>

StartRunning ==
  /\ opc = "start_running"
  /\ state' = "running"
  /\ OwnerTo("ready")
  /\ UNCHANGED <<running, everFaulted, out, safe, consecutive, expired, counter, input>>
  /\ UNCHANGED <<txVars, rxVars, link, historyVars>>

-----------------------------------------------------------------------------
(* set_output_data() and set_safe_output() *)

SetOutputCheck ==
  /\ opc = "ready" /\ ~output_writes_locked(state)
  /\ OwnerTo("set_write")
  /\ UNCHANGED <<sharedVars, txVars, rxVars, link, historyVars>>

SetOutputWrite ==
  /\ opc = "set_write"
  /\ \E v \in Values : out' = set_data(out, v)
  /\ OwnerTo("ready")
  /\ UNCHANGED <<state, running, everFaulted, safe, consecutive, expired, counter, input>>
  /\ UNCHANGED <<txVars, rxVars, link, historyVars>>

SetSafeOutput ==
  /\ opc = "ready"
  /\ \E v \in Values \cup {Refused} : safe' = v
  /\ OwnerTo("ready")
  /\ UNCHANGED <<state, running, everFaulted, out, consecutive, expired, counter, input>>
  /\ UNCHANGED <<txVars, rxVars, link, historyVars>>

-----------------------------------------------------------------------------
(* stop(), and drop(), which calls it *)

apply_safe_output_Skipped(b) == b
apply_safe_output(b) == IF safe \in Values THEN swap(set_data(b, safe)) ELSE b

StopApply ==
  /\ opc = "ready"
  /\ out' = apply_safe_output(out)
  /\ opc' = "stop_check"
  /\ dropping' \in BOOLEAN
  /\ UNCHANGED <<stopIndex, stopFrame, gen, txThread, rxThread>>
  /\ UNCHANGED <<state, running, everFaulted, safe, consecutive, expired, counter, input>>
  /\ UNCHANGED <<txVars, rxVars, link, historyVars>>

Returned == IF dropping THEN "dropped" ELSE "ready"

StopCheck ==
  /\ opc = "stop_check"
  /\ OwnerTo(IF running THEN "stop_transition" ELSE Returned)
  /\ UNCHANGED <<sharedVars, txVars, rxVars, link, historyVars>>

StopTransition ==
  /\ opc = "stop_transition"
  /\ state' = "stopping"
  /\ OwnerTo("stop_signal")
  /\ UNCHANGED <<running, everFaulted, out, safe, consecutive, expired, counter, input>>
  /\ UNCHANGED <<txVars, rxVars, link, historyVars>>

StopSignal ==
  /\ opc = "stop_signal"
  /\ running' = FALSE
  /\ OwnerTo("stop_join_tx")
  /\ UNCHANGED <<state, everFaulted, out, safe, consecutive, expired, counter, input>>
  /\ UNCHANGED <<txVars, rxVars, link, historyVars>>

(* join() on the TX thread whose handle is held *)
TxJoined_NotAwaited == txThread # 0
TxJoined == txThread # 0 /\ ~TxAlive(txThread)

StopJoinTx ==
  /\ opc = "stop_join_tx"
  /\ \/ txThread = 0 /\ opc' = "stop_join_rx" /\ UNCHANGED txThread
     \/ TxJoined /\ opc' = "stop_count" /\ txThread' = 0
  /\ stopIndex' = 0
  /\ UNCHANGED <<dropping, stopFrame, gen, rxThread>>
  /\ UNCHANGED <<sharedVars, txVars, rxVars, link, historyVars>>

StopCount ==
  /\ opc = "stop_count"
  /\ out' = swap(out)
  /\ counter' = next_counter(counter)
  /\ OwnerTo("stop_build")
  /\ UNCHANGED <<state, running, everFaulted, safe, consecutive, expired, input>>
  /\ UNCHANGED <<txVars, rxVars, link, historyVars>>

StopBuild ==
  /\ opc = "stop_build"
  /\ out' = swap(out)
  /\ stopFrame' = frame_of("stop", swap(out))
  /\ opc' = "stop_send"
  /\ UNCHANGED <<dropping, stopIndex, gen, txThread, rxThread>>
  /\ UNCHANGED <<state, running, everFaulted, safe, consecutive, expired, counter, input>>
  /\ UNCHANGED <<txVars, rxVars, link, historyVars>>

StopSend ==
  /\ opc = "stop_send"
  /\ \/ /\ wire' = stopFrame
        /\ promised' = IF safe \in Values THEN safe ELSE Unset
        /\ stopIndex' = stopIndex + 1
        /\ opc' = IF stopIndex' < STOP_FRAME_COUNT THEN "stop_count" ELSE "stop_join_rx"
     \/ /\ SendErrors
        /\ opc' = "stop_join_rx"
        /\ UNCHANGED <<wire, promised, stopIndex>>
  /\ stopFrame' = NoFrame
  /\ UNCHANGED <<dropping, gen, txThread, rxThread>>
  /\ UNCHANGED <<sharedVars, txVars, rxVars, link, told, faulted>>

RxJoined_NotAwaited == TRUE
RxJoined == rxThread # 0 => ~RxAlive(rxThread)

StopJoinRx ==
  /\ opc = "stop_join_rx"
  /\ RxJoined
  /\ rxThread' = 0
  /\ opc' = "stop_done"
  /\ UNCHANGED <<dropping, stopIndex, stopFrame, gen, txThread>>
  /\ UNCHANGED <<sharedVars, txVars, rxVars, link, historyVars>>

StopDone ==
  /\ opc = "stop_done"
  /\ state' = "stopped"
  /\ OwnerTo(Returned)
  /\ UNCHANGED <<running, everFaulted, out, safe, consecutive, expired, counter, input>>
  /\ UNCHANGED <<txVars, rxVars, link, historyVars>>

Owner ==
  \/ StartCheck \/ StartTransition \/ StartRun \/ StartReset \/ StartClear
  \/ StartOpen \/ StartSpawnTx \/ StartSpawnRx \/ StartSpawnFails \/ StartRunning
  \/ SetOutputCheck \/ SetOutputWrite \/ SetSafeOutput
  \/ StopApply \/ StopCheck \/ StopTransition \/ StopSignal \/ StopJoinTx
  \/ StopCount \/ StopBuild \/ StopSend \/ StopJoinRx \/ StopDone

-----------------------------------------------------------------------------
(* tx_loop() of generation g *)

TxTo(g, pc) == txpc' = [txpc EXCEPT ![g] = pc]

TxCheck_Forever(g) ==
  /\ txpc[g] = "check"
  /\ TxTo(g, "count")
  /\ UNCHANGED <<sharedVars, ownerVars, txFrame, rxVars, link, historyVars>>
TxCheck(g) ==
  /\ txpc[g] = "check"
  /\ TxTo(g, IF running THEN "count" ELSE "exited")
  /\ UNCHANGED <<sharedVars, ownerVars, txFrame, rxVars, link, historyVars>>

TxCount(g) ==
  /\ txpc[g] = "count"
  /\ counter' = next_counter(counter)
  /\ txFrame' = [txFrame EXCEPT ![g] = [NoFrame EXCEPT !.counter = counter']]
  /\ TxTo(g, "build")
  /\ UNCHANGED <<state, running, everFaulted, out, safe, consecutive, expired, input>>
  /\ UNCHANGED <<ownerVars, rxVars, link, historyVars>>

TxBuild(g) ==
  /\ txpc[g] = "build"
  /\ out' = swap(out)
  /\ txFrame' = [txFrame EXCEPT ![g] =
                   [frame_of("run", swap(out)) EXCEPT !.counter = txFrame[g].counter]]
  /\ TxTo(g, "send")
  /\ UNCHANGED <<state, running, everFaulted, safe, consecutive, expired, counter, input>>
  /\ UNCHANGED <<ownerVars, rxVars, link, historyVars>>

TxSend(g) ==
  /\ txpc[g] = "send"
  /\ wire' = txFrame[g] \/ (SendErrors /\ wire' = wire)
  /\ txFrame' = [txFrame EXCEPT ![g] = NoFrame]
  /\ TxTo(g, "check")
  /\ UNCHANGED <<sharedVars, ownerVars, rxVars, link, told, promised, faulted>>

Tx(g) == TxCheck(g) \/ TxCount(g) \/ TxBuild(g) \/ TxSend(g)

-----------------------------------------------------------------------------
(* rx_loop() of generation g *)

RxTo(g, pc) == rxpc' = [rxpc EXCEPT ![g] = pc]

RxArm(g) ==
  /\ rxpc[g] \in {"arm", "rearm"}
  /\ expired' = FALSE
  /\ RxTo(g, "check")
  /\ UNCHANGED <<state, running, everFaulted, out, safe, consecutive, counter, input>>
  /\ UNCHANGED <<ownerVars, txVars, rxCount, rxFlip, link, historyVars>>

RxCheck(g) ==
  /\ rxpc[g] = "check"
  /\ RxTo(g, IF running THEN "recv" ELSE "exited")
  /\ UNCHANGED <<sharedVars, ownerVars, txVars, rxCount, rxFlip, link, historyVars>>

(* Nothing usable in this pass: the 1 ms timeout, a frame of another station  *)
(* or of another relation, or a frame the device disowns (frame_is_alive).    *)
RxNothing_FeedsWatchdog(g) ==
  /\ rxpc[g] = "recv"
  /\ expired' = FALSE
  /\ RxTo(g, "watchdog")
  /\ UNCHANGED <<state, running, everFaulted, out, safe, consecutive, counter, input>>
  /\ UNCHANGED <<ownerVars, txVars, rxCount, rxFlip, link, historyVars>>
RxNothing(g) ==
  /\ rxpc[g] = "recv"
  /\ RxTo(g, "watchdog")
  /\ UNCHANGED <<sharedVars, ownerVars, txVars, rxCount, rxFlip, link, historyVars>>

RxError(g) ==
  /\ rxpc[g] = "recv" /\ RxErrors
  /\ RxTo(g, "error")
  /\ UNCHANGED <<sharedVars, ownerVars, txVars, rxCount, rxFlip, link, historyVars>>

(* process_input_frame() on a frame that is alive *)
RxAccept(g) ==
  /\ rxpc[g] = "recv" /\ link = "up"
  /\ consecutive' = 0 /\ expired' = FALSE
  /\ RxTo(g, "recover_check")
  /\ UNCHANGED <<state, running, everFaulted, out, safe, counter, input>>
  /\ UNCHANGED <<ownerVars, txVars, rxCount, rxFlip, link, historyVars>>

RxRecoverCheck(g) ==
  /\ rxpc[g] = "recover_check"
  /\ RxTo(g, IF state = "fault" THEN "recover" ELSE "iocs")
  /\ UNCHANGED <<sharedVars, ownerVars, txVars, rxCount, rxFlip, link, historyVars>>

RxRecover(g) ==
  /\ rxpc[g] = "recover"
  /\ state' = "running"
  /\ RxTo(g, "iocs")
  /\ UNCHANGED <<running, everFaulted, out, safe, consecutive, expired, counter, input>>
  /\ UNCHANGED <<ownerVars, txVars, rxCount, rxFlip, link, historyVars>>

RxIocsGood(g) ==
  /\ rxpc[g] = "iocs"
  /\ out' = set_all_iocs(out, "good")
  /\ RxTo(g, "input")
  /\ UNCHANGED <<state, running, everFaulted, safe, consecutive, expired, counter, input>>
  /\ UNCHANGED <<ownerVars, txVars, rxCount, rxFlip, link, historyVars>>

(* The input image is replaced under its lock; the change of provider status  *)
(* found there is reported after the lock is released.                        *)
RxInput(g) ==
  /\ rxpc[g] = "input"
  /\ \E iops \in InputStatuses :
       /\ input' = iops
       /\ rxFlip' = [rxFlip EXCEPT ![g] =
                       IF (iops = "good") # (input = "good") THEN iops ELSE "none"]
  /\ RxTo(g, "report")
  /\ UNCHANGED <<state, running, everFaulted, out, safe, consecutive, expired, counter>>
  /\ UNCHANGED <<ownerVars, txVars, rxCount, link, historyVars>>

RxReport_OnlyGood(g) ==
  /\ rxpc[g] = "report"
  /\ told' = (told \/ rxFlip[g] = "good")
  /\ rxFlip' = [rxFlip EXCEPT ![g] = "none"]
  /\ RxTo(g, "watchdog")
  /\ UNCHANGED <<sharedVars, ownerVars, txVars, rxCount, link, wire, promised, faulted>>
RxReport(g) ==
  /\ rxpc[g] = "report"
  /\ told' = IF rxFlip[g] = "none" THEN told ELSE rxFlip[g] = "good"
  /\ rxFlip' = [rxFlip EXCEPT ![g] = "none"]
  /\ RxTo(g, "watchdog")
  /\ UNCHANGED <<sharedVars, ownerVars, txVars, rxCount, link, wire, promised, faulted>>

(* The streak that ends in FAULT *)
escalates_Early(n) == n + 1 >= MaxTimeouts
escalates(n) == n >= MaxTimeouts

(* check_receive_watchdog() and handle_watchdog_timeout() *)
RxWatchdog(g) ==
  /\ rxpc[g] = "watchdog"
  /\ RxTo(g, IF expired THEN "timeout" ELSE "check")
  /\ UNCHANGED <<sharedVars, ownerVars, txVars, rxCount, rxFlip, link, historyVars>>

RxTimeout(g) ==
  /\ rxpc[g] = "timeout"
  /\ consecutive' = bump(consecutive)
  /\ rxCount' = [rxCount EXCEPT ![g] = consecutive']
  /\ RxTo(g, IF MaxTimeouts > 0 THEN "iocs_bad" ELSE "rearm")
  /\ UNCHANGED <<state, running, everFaulted, out, safe, expired, counter, input>>
  /\ UNCHANGED <<ownerVars, txVars, rxFlip, link, historyVars>>

RxIocsBad(g) ==
  /\ rxpc[g] = "iocs_bad"
  /\ out' = set_all_iocs(out, "bad")
  /\ RxTo(g, "fault_check")
  /\ UNCHANGED <<state, running, everFaulted, safe, consecutive, expired, counter, input>>
  /\ UNCHANGED <<ownerVars, txVars, rxCount, rxFlip, link, historyVars>>

RxFaultCheck(g) ==
  /\ rxpc[g] = "fault_check"
  /\ RxTo(g, IF escalates(rxCount[g]) /\ state = "running" THEN "fault" ELSE "rearm")
  /\ rxCount' = [rxCount EXCEPT ![g] = 0]
  /\ UNCHANGED <<sharedVars, ownerVars, txVars, rxFlip, link, historyVars>>

(* The receive error path of rx_loop() *)
RxErrorCheck(g) ==
  /\ rxpc[g] = "error"
  /\ RxTo(g, IF running THEN "error_state" ELSE "exited")
  /\ UNCHANGED <<sharedVars, ownerVars, txVars, rxCount, rxFlip, link, historyVars>>

RxErrorState(g) ==
  /\ rxpc[g] = "error_state"
  /\ RxTo(g, IF state = "running" THEN "error_fault" ELSE "exited")
  /\ UNCHANGED <<sharedVars, ownerVars, txVars, rxCount, rxFlip, link, historyVars>>

(* transition(Fault): the state first, then the flag that outlives it; a      *)
(* no-op when the state already is FAULT.  The watchdog goes on to re-arm its  *)
(* timer, the error path leaves the loop.                                      *)
after_fault(pc) == IF pc \in {"fault", "record"} THEN "rearm" ELSE "exited"

RxFault(g) ==
  /\ rxpc[g] \in {"fault", "error_fault"}
  /\ IF state = "fault"
     THEN RxTo(g, after_fault(rxpc[g])) /\ UNCHANGED <<state, faulted>>
     ELSE /\ state' = "fault" /\ faulted' = TRUE
          /\ RxTo(g, IF rxpc[g] = "fault" THEN "record" ELSE "error_record")
  /\ UNCHANGED <<running, everFaulted, out, safe, consecutive, expired, counter, input>>
  /\ UNCHANGED <<ownerVars, txVars, rxCount, rxFlip, link, told, wire, promised>>

RxRecord_Forgets(g) ==
  /\ rxpc[g] \in {"record", "error_record"}
  /\ RxTo(g, after_fault(rxpc[g]))
  /\ UNCHANGED <<sharedVars, ownerVars, txVars, rxCount, rxFlip, link, historyVars>>
RxRecord(g) ==
  /\ rxpc[g] \in {"record", "error_record"}
  /\ everFaulted' = TRUE
  /\ RxTo(g, after_fault(rxpc[g]))
  /\ UNCHANGED <<state, running, out, safe, consecutive, expired, counter, input>>
  /\ UNCHANGED <<ownerVars, txVars, rxCount, rxFlip, link, historyVars>>

Rx(g) ==
  \/ RxArm(g) \/ RxCheck(g) \/ RxNothing(g) \/ RxError(g) \/ RxAccept(g)
  \/ RxRecoverCheck(g) \/ RxRecover(g) \/ RxIocsGood(g) \/ RxInput(g) \/ RxReport(g)
  \/ RxWatchdog(g) \/ RxTimeout(g) \/ RxIocsBad(g) \/ RxFaultCheck(g)
  \/ RxErrorCheck(g) \/ RxErrorState(g) \/ RxFault(g) \/ RxRecord(g)

-----------------------------------------------------------------------------
(* The environment *)

(* A watchdog period goes by without last_receive_time being advanced. *)
Elapse ==
  /\ ~expired /\ expired' = TRUE
  /\ UNCHANGED <<state, running, everFaulted, out, safe, consecutive, counter, input>>
  /\ UNCHANGED <<ownerVars, txVars, rxVars, link, historyVars>>

(* The device is unplugged, or from now on sends only frames it disowns. *)
LinkDies ==
  /\ LinkMayDie /\ link = "up" /\ link' = "dead"
  /\ UNCHANGED <<sharedVars, ownerVars, txVars, rxVars, historyVars>>

Dropped == opc = "dropped" /\ UNCHANGED vars

Next ==
  \/ Owner
  \/ \E g \in Generations : Tx(g) \/ Rx(g)
  \/ Elapse \/ LinkDies \/ Dropped

(* Threads are scheduled and time passes; a call the owner has begun goes on.  *)
(* Which call the owner makes next, and whether it makes one, is its own       *)
(* business, and nothing is assumed of the device.                             *)
Fairness ==
  /\ WF_vars(Owner /\ opc # "ready")
  /\ WF_vars(Elapse)
  /\ \A g \in Generations : WF_vars(Tx(g)) /\ WF_vars(Rx(g))

Spec == Init /\ [][Next]_vars
FairSpec == Spec /\ Fairness

-----------------------------------------------------------------------------
(* Correctness *)

OwnerPcs == {"ready", "start_transition", "start_run", "start_reset", "start_clear",
             "start_open", "start_spawn_tx", "start_spawn_rx", "start_running", "set_write",
             "stop_check", "stop_transition", "stop_signal", "stop_join_tx", "stop_count",
             "stop_build", "stop_send", "stop_join_rx", "stop_done", "dropped"}
TxPcs == {"none", "check", "count", "build", "send", "exited"}
RxPcs == {"none", "arm", "check", "recv", "recover_check", "recover", "iocs", "input",
          "report", "watchdog", "timeout", "iocs_bad", "fault_check", "fault", "record",
          "rearm", "error", "error_state", "error_fault", "error_record", "exited"}

FlagsOK ==
  /\ running \in BOOLEAN /\ everFaulted \in BOOLEAN /\ expired \in BOOLEAN
  /\ dropping \in BOOLEAN /\ told \in BOOLEAN /\ faulted \in BOOLEAN
SharedOK ==
  /\ state \in CyclicState /\ out \in Builder /\ safe \in Values \cup {Unset, Refused}
  /\ consecutive \in 0..MaxTimeouts /\ counter \in Counters
  /\ input \in {"none", "good", "bad"}
OwnerOK ==
  /\ opc \in OwnerPcs
  /\ stopIndex \in 0..STOP_FRAME_COUNT /\ stopFrame \in Frame
  /\ gen \in 0..MaxStarts /\ txThread \in 0..gen /\ rxThread \in 0..gen
  /\ opc \in {"start_transition", "start_run", "start_reset", "start_clear",
              "start_open", "start_spawn_tx"} => gen < MaxStarts
  /\ opc = "start_spawn_rx" => gen > 0
  /\ opc \in {"stop_count", "stop_build", "stop_send"} => stopIndex < STOP_FRAME_COUNT
TxOK ==
  txpc \in [Generations -> TxPcs] /\ txFrame \in [Generations -> Frame]
RxOK ==
  /\ rxpc \in [Generations -> RxPcs] /\ rxCount \in [Generations -> 0..MaxTimeouts]
  /\ rxFlip \in [Generations -> {"none", "good", "bad"}]
HistoryOK ==
  link \in {"up", "dead"} /\ wire \in Frame /\ promised \in Values \cup {Unset}

(* Every field of `Shared`, every handle and every thread-local value has the  *)
(* type it has in cyclic.rs, and the owner's program counter agrees with the   *)
(* generation and the STOP frame it is at.                                     *)
TypeOK == FlagsOK /\ SharedOK /\ OwnerOK /\ TxOK /\ RxOK /\ HistoryOK

(* "A stop can never latch a stale unsafe byte on the device" (set_safe_output): *)
(* once a STOP frame has gone out with a safe image registered, the last frame   *)
(* the device was sent carries that image, until the next start.                 *)
NoStaleByte == promised # Unset => wire.data = promised

(* stop() has the last word on the wire: the frame the device is left with is a  *)
(* STOP frame with the safe image, not a cycle of a TX thread that is still up.  *)
StopLatchesSafe ==
  promised # Unset => wire.kind = "stop" /\ wire.data = promised

(* "Fully stopped, threads joined" (CyclicState::Stopped): when the owner has     *)
(* the controller back from stop(), no thread of any generation is left alive.    *)
StoppedIsQuiet ==
  opc \in {"ready", "dropped"} /\ state = "stopped" =>
    /\ ~running
    /\ \A g \in Generations : ~TxAlive(g) /\ ~RxAlive(g)

(* FAULT is the watchdog's verdict or a lost capture, never a shorter silence:  *)
(* in FAULT the streak has reached its limit, or a frame that ends it is being  *)
(* processed, or the RX thread of the last start is gone.                       *)
FaultJustified ==
  state = "fault" =>
    \/ MaxTimeouts > 0 /\ consecutive = MaxTimeouts
    \/ gen > 0 /\ rxpc[gen] \in {"recover_check", "recover", "error_record", "exited"}

(* "This is the fact that does not go away" (ever_faulted): a consumer that      *)
(* samples a RUNNING controller after a FAULT episode finds it on record.        *)
FaultRemembered == state = "running" /\ faulted => everFaulted

(* on_input_status is "the only notification there is" of a flip between GOOD    *)
(* and BAD: outside the report itself, what the listener was told last is what   *)
(* the stored input image says.                                                  *)
ListenerInSync ==
  (\A g \in Generations : rxpc[g] # "report") => told = (input = "good")

(* "IOCS is already BAD in FAULT, so the device is told the data is not          *)
(* consumed" (tx_loop): a frame built in the watchdog's FAULT carries a BAD      *)
(* consumer status.  FAULT on a receive error, which ends the RX thread, leaves  *)
(* the status as it was.                                                         *)
FaultFrameIsBad ==
  \A g, h \in Generations :
    /\ txpc[g] = "build" /\ txpc'[g] = "send" /\ state = "fault"
    /\ RxAlive(h) /\ rxpc[h] # "error_record"
    => txFrame'[g].iocs = "bad"
FaultFramesBad == [][FaultFrameIsBad]_vars

(* "The STOP frames go out with no concurrent socket access or cycle counter     *)
(* mutation" (stop): while no send fails, each frame that leaves follows the     *)
(* last one by exactly one counter step, through stop and restart.               *)
WireInSequence == [][wire'.counter = next_counter(wire.counter)]_wire

(* stop() and drop() return: the run flag reaches both threads.                   *)
StopReturns == opc = "stop_check" ~> opc \in {"ready", "dropped"}

(* The watchdog escalates: a RUNNING controller whose device has gone silent, or  *)
(* only sends frames it disowns, does not stay RUNNING.                           *)
SilenceEscalates == (link = "dead" /\ state = "running") ~> state # "running"
=============================================================================
