----------------------- MODULE CyclicControllerProofs -----------------------
(***************************************************************************)
(* Proofs about CyclicController for every value of its constants.         *)
(***************************************************************************)
EXTENDS CyclicController, TLAPS

(* The builder operations of rt.rs keep a builder a builder. *)
LEMMA SwapType ==
  ASSUME NEW b \in Builder
  PROVE  swap(b) \in Builder
  BY DEF swap, Builder

LEMMA SetDataType ==
  ASSUME NEW b \in Builder, NEW v \in Values
  PROVE  set_data(b, v) \in Builder
  BY DEF set_data, Builder, Image

LEMMA SetIocsType ==
  ASSUME NEW b \in Builder, NEW s \in Iocs
  PROVE  set_all_iocs(b, s) \in Builder
  BY DEF set_all_iocs, Builder, Image

(* What a frame carries is what the send buffer holds. *)
LEMMA FrameType ==
  ASSUME NEW b \in Builder, NEW k \in {"run", "stop"}, counter \in Counters
  PROVE  /\ frame_of(k, b) \in Frame
         /\ frame_of(k, b).kind = k
         /\ frame_of(k, b).data = b.send.data
         /\ frame_of(k, b).counter = counter
  BY DEF frame_of, Frame, Builder, Image

LEMMA NoFrameType == NoFrame \in Frame
  BY ConstantsAssumption DEF NoFrame, Frame, Counters, Iocs

LEMMA CounterType ==
  ASSUME NEW n \in Counters
  PROVE  next_counter(n) \in Counters
  BY ConstantsAssumption DEF next_counter, Counters

LEMMA InitTypeOK == Init => TypeOK
  <1> SUFFICES ASSUME Init PROVE TypeOK
    OBVIOUS
  <1>0. FlagsOK
    BY DEF Init, FlagsOK
  <1>1. SharedOK
    <2>1. out \in Builder
      BY ConstantsAssumption DEF Init, Builder, Image, Iocs
    <2> QED
      BY <2>1, ConstantsAssumption DEF Init, SharedOK, CyclicState, Counters
  <1>2. OwnerOK
    BY NoFrameType, ConstantsAssumption DEF Init, OwnerOK, OwnerPcs, STOP_FRAME_COUNT
  <1>3. TxOK
    BY NoFrameType DEF Init, TxOK, TxPcs
  <1>4. RxOK
    BY ConstantsAssumption DEF Init, RxOK, RxPcs
  <1>5. HistoryOK
    BY NoFrameType DEF Init, HistoryOK
  <1> QED BY <1>0, <1>1, <1>2, <1>3, <1>4, <1>5 DEF TypeOK


(* Every step of start() keeps every variable in its type. *)
LEMMA StartTypeOK ==
  ASSUME TypeOK, StartCheck \/ StartTransition \/ StartRun \/ StartReset \/ StartClear
         \/ StartOpen \/ StartSpawnTx \/ StartSpawnRx \/ StartSpawnFails \/
         StartRunning
  PROVE  TypeOK'
  <1>1. FlagsOK'
    BY DEF StartCheck, StartTransition, StartRun, StartReset, StartClear, StartOpen,
      StartSpawnTx, StartSpawnRx, StartSpawnFails, StartRunning, TypeOK, sharedVars,
      ownerVars, txVars, rxVars, historyVars, OwnerTo, FlagsOK
  <1>2. SharedOK'
    BY SwapType, ConstantsAssumption DEF StartCheck, StartTransition, StartRun,
      StartReset, StartClear, StartOpen, StartSpawnTx, StartSpawnRx,
      StartSpawnFails, StartRunning, TypeOK, sharedVars, ownerVars, txVars, rxVars,
      historyVars, OwnerTo, SharedOK, CyclicState
  <1>3. OwnerOK'
    BY ConstantsAssumption DEF StartCheck, StartTransition, StartRun, StartReset,
      StartClear, StartOpen, StartSpawnTx, StartSpawnRx, StartSpawnFails,
      StartRunning, TypeOK, sharedVars, ownerVars, txVars, rxVars, historyVars,
      OwnerTo, OwnerOK, OwnerPcs
  <1>4. TxOK'
    BY ConstantsAssumption DEF StartCheck, StartTransition, StartRun, StartReset,
      StartClear, StartOpen, StartSpawnTx, StartSpawnRx, StartSpawnFails,
      StartRunning, TypeOK, sharedVars, ownerVars, txVars, rxVars, historyVars,
      OwnerTo, TxOK, OwnerOK, TxPcs, Generations
  <1>5. RxOK'
    BY ConstantsAssumption DEF StartCheck, StartTransition, StartRun, StartReset,
      StartClear, StartOpen, StartSpawnTx, StartSpawnRx, StartSpawnFails,
      StartRunning, TypeOK, sharedVars, ownerVars, txVars, rxVars, historyVars,
      OwnerTo, RxOK, OwnerOK, RxPcs, Generations
  <1>6. HistoryOK'
    BY DEF StartCheck, StartTransition, StartRun, StartReset, StartClear, StartOpen,
      StartSpawnTx, StartSpawnRx, StartSpawnFails, StartRunning, TypeOK, sharedVars,
      ownerVars, txVars, rxVars, historyVars, OwnerTo, HistoryOK
  <1> QED BY <1>1, <1>2, <1>3, <1>4, <1>5, <1>6 DEF TypeOK

(* Every step of set_output_data() and set_safe_output() keeps every variable in its type. *)
LEMMA SetTypeOK ==
  ASSUME TypeOK, SetOutputCheck \/ SetOutputWrite \/ SetSafeOutput
  PROVE  TypeOK'
  <1>1. FlagsOK'
    BY DEF SetOutputCheck, SetOutputWrite, SetSafeOutput, TypeOK, sharedVars,
      ownerVars, txVars, rxVars, historyVars, OwnerTo, FlagsOK
  <1>2. SharedOK'
    BY SetDataType DEF SetOutputCheck, SetOutputWrite, SetSafeOutput, TypeOK,
      sharedVars, ownerVars, txVars, rxVars, historyVars, OwnerTo, SharedOK,
      CyclicState
  <1>3. OwnerOK'
    BY DEF SetOutputCheck, SetOutputWrite, SetSafeOutput, TypeOK, sharedVars,
      ownerVars, txVars, rxVars, historyVars, OwnerTo, OwnerOK, OwnerPcs
  <1>4. TxOK'
    BY DEF SetOutputCheck, SetOutputWrite, SetSafeOutput, TypeOK, sharedVars,
      ownerVars, txVars, rxVars, historyVars, OwnerTo, TxOK
  <1>5. RxOK'
    BY DEF SetOutputCheck, SetOutputWrite, SetSafeOutput, TypeOK, sharedVars,
      ownerVars, txVars, rxVars, historyVars, OwnerTo, RxOK
  <1>6. HistoryOK'
    BY DEF SetOutputCheck, SetOutputWrite, SetSafeOutput, TypeOK, sharedVars,
      ownerVars, txVars, rxVars, historyVars, OwnerTo, HistoryOK
  <1> QED BY <1>1, <1>2, <1>3, <1>4, <1>5, <1>6 DEF TypeOK

(* Every step of stop() and drop() keeps every variable in its type. *)
LEMMA StopTypeOK ==
  ASSUME TypeOK, StopApply \/ StopCheck \/ StopTransition \/ StopSignal \/ StopJoinTx
         \/ StopCount \/ StopBuild \/ StopSend \/ StopJoinRx \/ StopDone
  PROVE  TypeOK'
  <1>1. FlagsOK'
    BY DEF StopApply, StopCheck, StopTransition, StopSignal, StopJoinTx, StopCount,
      StopBuild, StopSend, StopJoinRx, StopDone, TypeOK, sharedVars, ownerVars,
      txVars, rxVars, historyVars, OwnerTo, FlagsOK
  <1>2. SharedOK'
    BY SwapType, SetDataType, CounterType DEF StopApply, StopCheck, StopTransition,
      StopSignal, StopJoinTx, StopCount, StopBuild, StopSend, StopJoinRx, StopDone,
      TypeOK, sharedVars, ownerVars, txVars, rxVars, historyVars, OwnerTo, SharedOK,
      CyclicState, apply_safe_output
  <1>3. OwnerOK'
    <2>1. ASSUME StopBuild PROVE stopFrame' \in Frame
      BY <2>1, SwapType, FrameType DEF StopBuild, TypeOK, SharedOK
    <2>2. CASE StopApply
      BY <2>2 DEF StopApply, TypeOK, OwnerOK, OwnerPcs
    <2>3. CASE StopCheck
      BY <2>3 DEF StopCheck, TypeOK, OwnerOK, OwnerPcs, Returned, OwnerTo
    <2>4. CASE StopTransition
      BY <2>4 DEF StopTransition, TypeOK, OwnerOK, OwnerPcs, OwnerTo
    <2>5. CASE StopSignal
      BY <2>5 DEF StopSignal, TypeOK, OwnerOK, OwnerPcs, OwnerTo
    <2>6. CASE StopJoinTx
      BY <2>6 DEF StopJoinTx, TypeOK, OwnerOK, OwnerPcs, TxJoined, STOP_FRAME_COUNT
    <2>7. CASE StopCount
      BY <2>7 DEF StopCount, TypeOK, OwnerOK, OwnerPcs, OwnerTo
    <2>8. CASE StopBuild
      BY <2>1, <2>8 DEF StopBuild, TypeOK, OwnerOK, OwnerPcs, STOP_FRAME_COUNT
    <2>9. CASE StopSend
      BY NoFrameType, <2>9 DEF StopSend, TypeOK, OwnerOK, OwnerPcs, STOP_FRAME_COUNT
    <2>10. CASE StopJoinRx
      BY <2>10 DEF StopJoinRx, TypeOK, OwnerOK, OwnerPcs
    <2>11. CASE StopDone
      BY <2>11 DEF StopDone, TypeOK, OwnerOK, OwnerPcs, Returned, OwnerTo
    <2> QED BY <2>2, <2>3, <2>4, <2>5, <2>6, <2>7, <2>8, <2>9, <2>10, <2>11
  <1>4. TxOK'
    BY DEF StopApply, StopCheck, StopTransition, StopSignal, StopJoinTx, StopCount,
      StopBuild, StopSend, StopJoinRx, StopDone, TypeOK, sharedVars, ownerVars,
      txVars, rxVars, historyVars, OwnerTo, TxOK
  <1>5. RxOK'
    BY DEF StopApply, StopCheck, StopTransition, StopSignal, StopJoinTx, StopCount,
      StopBuild, StopSend, StopJoinRx, StopDone, TypeOK, sharedVars, ownerVars,
      txVars, rxVars, historyVars, OwnerTo, RxOK
  <1>6. HistoryOK'
    BY DEF StopApply, StopCheck, StopTransition, StopSignal, StopJoinTx, StopCount,
      StopBuild, StopSend, StopJoinRx, StopDone, TypeOK, sharedVars, ownerVars,
      txVars, rxVars, historyVars, OwnerTo, HistoryOK, OwnerOK
  <1> QED BY <1>1, <1>2, <1>3, <1>4, <1>5, <1>6 DEF TypeOK

(* Every step of one TX thread keeps every variable in its type. *)
LEMMA TxTypeOK ==
  ASSUME TypeOK, NEW g \in Generations, Tx(g)
  PROVE  TypeOK'
  <1>1. FlagsOK'
    BY DEF Tx, TxCheck, TxCount, TxBuild, TxSend, TypeOK, sharedVars, ownerVars,
      rxVars, historyVars, TxTo, FlagsOK
  <1>2. SharedOK'
    BY SwapType, CounterType DEF Tx, TxCheck, TxCount, TxBuild, TxSend, TypeOK,
      sharedVars, ownerVars, rxVars, historyVars, TxTo, SharedOK, CyclicState
  <1>3. OwnerOK'
    BY DEF Tx, TxCheck, TxCount, TxBuild, TxSend, TypeOK, sharedVars, ownerVars,
      rxVars, historyVars, TxTo, OwnerOK
  <1>4. TxOK'
    <2>1. CASE TxCheck(g)
      BY <2>1 DEF TxCheck, TypeOK, TxOK, TxPcs, TxTo
    <2>2. CASE TxCount(g)
      <3>1. [NoFrame EXCEPT !.counter = counter'] \in Frame
        BY <2>2, NoFrameType, CounterType DEF TxCount, TypeOK, SharedOK, Frame
      <3> QED
        BY <2>2, <3>1 DEF TxCount, TypeOK, TxOK, TxPcs, TxTo
    <2>3. CASE TxBuild(g)
      <3> DEFINE f == [frame_of("run", swap(out)) EXCEPT !.counter = txFrame[g].counter]
      <3>1. f \in Frame
        <4>1. frame_of("run", swap(out)) \in Frame
          BY SwapType, FrameType DEF TypeOK, SharedOK
        <4>2. txFrame[g].counter \in Counters
          BY DEF TypeOK, TxOK, Frame
        <4> QED
          BY <4>1, <4>2 DEF Frame
      <3>2. txFrame' = [txFrame EXCEPT ![g] = f] /\ txpc' = [txpc EXCEPT ![g] = "send"]
        BY <2>3 DEF TxBuild, TxTo
      <3> HIDE DEF f
      <3> QED
        BY <3>1, <3>2 DEF TypeOK, TxOK, TxPcs
    <2>4. CASE TxSend(g)
      BY <2>4, NoFrameType DEF TxSend, TypeOK, TxOK, TxPcs, TxTo
    <2> QED BY <2>1, <2>2, <2>3, <2>4 DEF Tx
  <1>5. RxOK'
    BY DEF Tx, TxCheck, TxCount, TxBuild, TxSend, TypeOK, sharedVars, ownerVars,
      rxVars, historyVars, TxTo, RxOK
  <1>6. HistoryOK'
    BY DEF Tx, TxCheck, TxCount, TxBuild, TxSend, TypeOK, sharedVars, ownerVars,
      rxVars, historyVars, TxTo, HistoryOK, TxOK
  <1> QED BY <1>1, <1>2, <1>3, <1>4, <1>5, <1>6 DEF TypeOK

(* Every step of one RX thread keeps every variable in its type. *)
LEMMA RxTypeOK ==
  ASSUME TypeOK, NEW g \in Generations, Rx(g)
  PROVE  TypeOK'
  <1>1. FlagsOK'
    BY DEF Rx, RxArm, RxCheck, RxNothing, RxError, RxAccept, RxRecoverCheck,
      RxRecover, RxIocsGood, RxInput, RxReport, RxWatchdog, RxTimeout, RxIocsBad,
      RxFaultCheck, RxErrorCheck, RxErrorState, RxFault, RxRecord,
      TypeOK, sharedVars, ownerVars, txVars, historyVars, RxTo, FlagsOK
  <1>2. SharedOK'
    BY SetIocsType, ConstantsAssumption DEF Rx, RxArm, RxCheck, RxNothing, RxError,
      RxAccept, RxRecoverCheck, RxRecover, RxIocsGood, RxInput, RxReport,
      RxWatchdog, RxTimeout, RxIocsBad, RxFaultCheck, RxErrorCheck, RxErrorState,
      RxFault, RxRecord, TypeOK, sharedVars, ownerVars, txVars,
      historyVars, RxTo, SharedOK, CyclicState, bump, Iocs
  <1>3. OwnerOK'
    BY DEF Rx, RxArm, RxCheck, RxNothing, RxError, RxAccept, RxRecoverCheck,
      RxRecover, RxIocsGood, RxInput, RxReport, RxWatchdog, RxTimeout, RxIocsBad,
      RxFaultCheck, RxErrorCheck, RxErrorState, RxFault, RxRecord,
      TypeOK, sharedVars, ownerVars, txVars, historyVars, RxTo, OwnerOK
  <1>4. TxOK'
    BY DEF Rx, RxArm, RxCheck, RxNothing, RxError, RxAccept, RxRecoverCheck,
      RxRecover, RxIocsGood, RxInput, RxReport, RxWatchdog, RxTimeout, RxIocsBad,
      RxFaultCheck, RxErrorCheck, RxErrorState, RxFault, RxRecord,
      TypeOK, sharedVars, ownerVars, txVars, historyVars, RxTo, TxOK
  <1>5. RxOK'
    <2>1. CASE RxArm(g)
      BY <2>1 DEF RxArm, TypeOK, RxOK, RxPcs, RxTo
    <2>2. CASE RxCheck(g)
      BY <2>2 DEF RxCheck, TypeOK, RxOK, RxPcs, RxTo
    <2>3. CASE RxNothing(g)
      BY <2>3 DEF RxNothing, TypeOK, RxOK, RxPcs, RxTo
    <2>4. CASE RxError(g)
      BY <2>4 DEF RxError, TypeOK, RxOK, RxPcs, RxTo
    <2>5. CASE RxAccept(g)
      BY <2>5 DEF RxAccept, TypeOK, RxOK, RxPcs, RxTo
    <2>6. CASE RxRecoverCheck(g)
      BY <2>6 DEF RxRecoverCheck, TypeOK, RxOK, RxPcs, RxTo
    <2>7. CASE RxRecover(g)
      BY <2>7 DEF RxRecover, TypeOK, RxOK, RxPcs, RxTo
    <2>8. CASE RxIocsGood(g)
      BY <2>8 DEF RxIocsGood, TypeOK, RxOK, RxPcs, RxTo
    <2>9. CASE RxInput(g)
      BY ConstantsAssumption, <2>9 DEF RxInput, TypeOK, RxOK, RxPcs, RxTo, SharedOK
    <2>10. CASE RxReport(g)
      BY <2>10 DEF RxReport, TypeOK, RxOK, RxPcs, RxTo
    <2>11. CASE RxWatchdog(g)
      BY <2>11 DEF RxWatchdog, TypeOK, RxOK, RxPcs, RxTo
    <2>12. CASE RxTimeout(g)
      BY ConstantsAssumption, <2>12 DEF RxTimeout, TypeOK, RxOK, RxPcs, RxTo,
        SharedOK, bump
    <2>13. CASE RxIocsBad(g)
      BY <2>13 DEF RxIocsBad, TypeOK, RxOK, RxPcs, RxTo
    <2>14. CASE RxFaultCheck(g)
      BY ConstantsAssumption, <2>14 DEF RxFaultCheck, TypeOK, RxOK, RxPcs, RxTo
    <2>15. CASE RxErrorCheck(g)
      BY <2>15 DEF RxErrorCheck, TypeOK, RxOK, RxPcs, RxTo
    <2>16. CASE RxErrorState(g)
      BY <2>16 DEF RxErrorState, TypeOK, RxOK, RxPcs, RxTo
    <2>17. CASE RxFault(g)
      BY <2>17 DEF RxFault, TypeOK, RxOK, RxPcs, RxTo, after_fault
    <2>18. CASE RxRecord(g)
      BY <2>18 DEF RxRecord, TypeOK, RxOK, RxPcs, RxTo, after_fault
    <2> QED BY <2>1, <2>2, <2>3, <2>4, <2>5, <2>6, <2>7, <2>8, <2>9, <2>10, <2>11,
      <2>12, <2>13, <2>14, <2>15, <2>16, <2>17, <2>18 DEF Rx
  <1>6. HistoryOK'
    BY DEF Rx, RxArm, RxCheck, RxNothing, RxError, RxAccept, RxRecoverCheck,
      RxRecover, RxIocsGood, RxInput, RxReport, RxWatchdog, RxTimeout, RxIocsBad,
      RxFaultCheck, RxErrorCheck, RxErrorState, RxFault, RxRecord,
      TypeOK, sharedVars, ownerVars, txVars, historyVars, RxTo, HistoryOK
  <1> QED BY <1>1, <1>2, <1>3, <1>4, <1>5, <1>6 DEF TypeOK

(* Every step of the environment keeps every variable in its type. *)
LEMMA EnvTypeOK ==
  ASSUME TypeOK, Elapse \/ LinkDies
  PROVE  TypeOK'
  <1>1. FlagsOK'
    BY DEF Elapse, LinkDies, TypeOK, sharedVars, ownerVars, txVars, rxVars,
      historyVars, FlagsOK
  <1>2. SharedOK'
    BY DEF Elapse, LinkDies, TypeOK, sharedVars, ownerVars, txVars, rxVars,
      historyVars, SharedOK, CyclicState
  <1>3. OwnerOK'
    BY DEF Elapse, LinkDies, TypeOK, sharedVars, ownerVars, txVars, rxVars,
      historyVars, OwnerOK
  <1>4. TxOK'
    BY DEF Elapse, LinkDies, TypeOK, sharedVars, ownerVars, txVars, rxVars,
      historyVars, TxOK
  <1>5. RxOK'
    BY DEF Elapse, LinkDies, TypeOK, sharedVars, ownerVars, txVars, rxVars,
      historyVars, RxOK
  <1>6. HistoryOK'
    BY DEF Elapse, LinkDies, TypeOK, sharedVars, ownerVars, txVars, rxVars,
      historyVars, HistoryOK
  <1> QED BY <1>1, <1>2, <1>3, <1>4, <1>5, <1>6 DEF TypeOK

LEMMA NextTypeOK == TypeOK /\ [Next]_vars => TypeOK'
  <1> SUFFICES ASSUME TypeOK, [Next]_vars PROVE TypeOK'
    OBVIOUS
  <1>1. CASE Owner
    BY <1>1, StartTypeOK, SetTypeOK, StopTypeOK DEF Owner
  <1>2. CASE \E g \in Generations : Tx(g) \/ Rx(g)
    BY <1>2, TxTypeOK, RxTypeOK
  <1>3. CASE Elapse \/ LinkDies
    BY <1>3, EnvTypeOK
  <1>4. CASE UNCHANGED vars
    BY <1>4 DEF vars, sharedVars, ownerVars, txVars, rxVars, historyVars, TypeOK,
       FlagsOK, SharedOK, OwnerOK, TxOK, RxOK, HistoryOK
  <1> QED BY <1>1, <1>2, <1>3, <1>4 DEF Next, Dropped

(* Type correctness of the controller: whatever the number of starts, whichever  *)
(* errors the sockets report, every field of `Shared`, handle and thread-local   *)
(* value of cyclic.rs keeps its type.                                            *)
THEOREM TypeCorrect == Spec => []TypeOK
  <1>1. Init => TypeOK
    BY InitTypeOK
  <1>2. TypeOK /\ [Next]_vars => TypeOK'
    BY NextTypeOK
  <1> QED BY <1>1, <1>2, PTL DEF Spec

-----------------------------------------------------------------------------
(***************************************************************************)
(* What stop() guarantees to an owner that never restarts a controller in  *)
(* FAULT without stopping it first.  StoppedIsQuiet and StopLatchesSafe    *)
(* are not inductive: they rest on which thread may be alive at each point *)
(* of the owner's calls, and on the safe image reaching both buffers       *)
(* before the run flag is cleared.                                         *)
(***************************************************************************)

NoTx == \A g \in Generations : ~TxAlive(g)
NoRx == \A g \in Generations : ~RxAlive(g)

(* A thread that is alive is the one whose handle stop() will join. *)
ThreadsOwned ==
  /\ \A g \in Generations : TxAlive(g) => g = txThread
  /\ \A g \in Generations : RxAlive(g) => g = rxThread

(* Which threads are gone at each point of start() and stop(). *)
QuietPhases ==
  /\ state \in {"idle", "stopped"} => running = FALSE /\ NoTx /\ NoRx
  /\ opc = "start_transition" => state \in {"idle", "stopped"}
  /\ opc \in {"start_run", "start_reset", "start_clear", "start_open", "start_spawn_tx",
              "start_spawn_rx"} => state = "starting"
  /\ opc \in {"start_run", "start_reset", "start_clear", "start_open", "start_spawn_tx"}
       => NoTx /\ NoRx
  /\ opc = "start_spawn_rx" => NoRx
  /\ opc \in {"stop_join_tx", "stop_count", "stop_build", "stop_send", "stop_join_rx",
              "stop_done"} => running = FALSE
  /\ opc \in {"stop_count", "stop_build", "stop_send", "stop_join_rx", "stop_done"} => NoTx
  /\ opc = "stop_done" => NoRx

(* The safe image, from apply_safe_output() to the frame it leaves in. *)
SafeImage ==
  /\ opc \in {"stop_check", "stop_transition", "stop_signal", "stop_join_tx", "stop_count",
              "stop_build", "stop_send"} /\ safe \in Values
       => out.write.data = safe /\ out.send.data = safe
  /\ opc = "stop_send" /\ safe \in Values
       => stopFrame.kind = "stop" /\ stopFrame.data = safe

(* Once promised, no TX thread is there to overwrite it. *)
Promise ==
  /\ promised # Unset => NoTx /\ wire.kind = "stop" /\ wire.data = promised
  /\ opc \in {"start_run", "start_reset", "start_clear", "start_open", "start_spawn_tx",
              "start_spawn_rx", "start_running"} => promised = Unset

StopInv == TypeOK /\ ThreadsOwned /\ QuietPhases /\ SafeImage /\ Promise

(* What the builder operations do to the commanded bytes. *)
LEMMA BuilderData ==
  ASSUME NEW b \in Builder, NEW s \in Iocs
  PROVE  /\ swap(b).write = b.write
         /\ swap(b).send \in {b.send, b.write}
         /\ set_all_iocs(b, s).write.data = b.write.data
         /\ set_all_iocs(b, s).send = b.send
  BY DEF swap, set_all_iocs, Builder, Image

LEMMA SafeApplied ==
  ASSUME NEW b \in Builder, NEW v \in Values
  PROVE  /\ swap(set_data(b, v)).write.data = v
         /\ swap(set_data(b, v)).send.data = v
  <1>1. /\ set_data(b, v) \in Builder
        /\ set_data(b, v).dirty = TRUE
        /\ set_data(b, v).write.data = v
    BY SetDataType DEF set_data, Builder, Image
  <1> QED BY <1>1 DEF swap, Builder

(* What a TX thread can do to the state stop() relies on: nothing but a frame on *)
(* the wire and a buffer swap, and only while it is alive.                        *)
LEMMA TxEffect ==
  ASSUME TypeOK, NEW g \in Generations, Tx(g)
  PROVE  /\ TxAlive(g)
         /\ \A h \in Generations : TxAlive(h)' => TxAlive(h)
         /\ out' \in {out, swap(out)}
         /\ UNCHANGED <<state, running, safe, promised>>
         /\ UNCHANGED ownerVars
         /\ UNCHANGED rxpc
  <1>1. TxAlive(g)
    BY DEF Tx, TxCheck, TxCount, TxBuild, TxSend, TxAlive
  <1>2. txpc \in [Generations -> TxPcs] /\ \E pc \in TxPcs : txpc' = [txpc EXCEPT ![g] = pc]
    BY DEF Tx, TxCheck, TxCount, TxBuild, TxSend, TxTo, TypeOK, TxOK, TxPcs
  <1>3. \A h \in Generations : TxAlive(h)' => TxAlive(h)
    BY <1>1, <1>2 DEF TxAlive
  <1>4. out' \in {out, swap(out)}
    BY DEF Tx, TxCheck, TxCount, TxBuild, TxSend, sharedVars
  <1>5. UNCHANGED <<state, running, safe, promised>> /\ UNCHANGED ownerVars /\ UNCHANGED rxpc
    BY DEF Tx, TxCheck, TxCount, TxBuild, TxSend, sharedVars, rxVars, historyVars
  <1> QED BY <1>1, <1>3, <1>4, <1>5

(* What an RX thread can do to it: move the state to FAULT or RUNNING and set the *)
(* consumer status, but never the commanded bytes, the run flag or a handle.      *)
LEMMA RxEffect ==
  ASSUME TypeOK, NEW g \in Generations, Rx(g)
  PROVE  /\ RxAlive(g)
         /\ \A h \in Generations : RxAlive(h)' => RxAlive(h)
         /\ out' = out \/ \E s \in Iocs : out' = set_all_iocs(out, s)
         /\ state' \in {state, "fault", "running"}
         /\ UNCHANGED <<running, safe, promised, wire>>
         /\ UNCHANGED ownerVars
         /\ UNCHANGED txpc
  <1>1. RxAlive(g)
    BY DEF Rx, RxArm, RxCheck, RxNothing, RxError, RxAccept, RxRecoverCheck,
      RxRecover, RxIocsGood, RxInput, RxReport, RxWatchdog, RxTimeout, RxIocsBad,
      RxFaultCheck, RxErrorCheck, RxErrorState, RxFault, RxRecord,
      RxAlive
  <1>2. rxpc \in [Generations -> RxPcs] /\ \E pc \in RxPcs : rxpc' = [rxpc EXCEPT ![g] = pc]
    BY DEF Rx, RxArm, RxCheck, RxNothing, RxError, RxAccept, RxRecoverCheck,
      RxRecover, RxIocsGood, RxInput, RxReport, RxWatchdog, RxTimeout, RxIocsBad,
      RxFaultCheck, RxErrorCheck, RxErrorState, RxFault, RxRecord,
      RxTo, TypeOK, RxOK, RxPcs, after_fault
  <1>3. \A h \in Generations : RxAlive(h)' => RxAlive(h)
    BY <1>1, <1>2 DEF RxAlive
  <1>4. out' = out \/ \E s \in Iocs : out' = set_all_iocs(out, s)
    BY DEF Rx, RxArm, RxCheck, RxNothing, RxError, RxAccept, RxRecoverCheck,
      RxRecover, RxIocsGood, RxInput, RxReport, RxWatchdog, RxTimeout, RxIocsBad,
      RxFaultCheck, RxErrorCheck, RxErrorState, RxFault, RxRecord,
      sharedVars, Iocs
  <1>5. state' \in {state, "fault", "running"}
    BY DEF Rx, RxArm, RxCheck, RxNothing, RxError, RxAccept, RxRecoverCheck,
      RxRecover, RxIocsGood, RxInput, RxReport, RxWatchdog, RxTimeout, RxIocsBad,
      RxFaultCheck, RxErrorCheck, RxErrorState, RxFault, RxRecord,
      sharedVars
  <1>6. UNCHANGED <<running, safe, promised, wire>> /\ UNCHANGED ownerVars /\ UNCHANGED txpc
    BY DEF Rx, RxArm, RxCheck, RxNothing, RxError, RxAccept, RxRecoverCheck,
      RxRecover, RxIocsGood, RxInput, RxReport, RxWatchdog, RxTimeout, RxIocsBad,
      RxFaultCheck, RxErrorCheck, RxErrorState, RxFault, RxRecord,
      sharedVars, txVars, historyVars
  <1> QED BY <1>1, <1>3, <1>4, <1>5, <1>6

LEMMA InitStopInv == Init => StopInv
  BY InitTypeOK DEF Init, StopInv, ThreadsOwned, QuietPhases, SafeImage, Promise, NoTx, NoRx,
     TxAlive, RxAlive

LEMMA TxStopInv ==
  ASSUME StopInv, NEW g \in Generations, Tx(g)
  PROVE  ThreadsOwned' /\ QuietPhases' /\ SafeImage' /\ Promise'
  <1> USE DEF StopInv
  <1>1. ThreadsOwned'
    BY TxEffect DEF ThreadsOwned, RxAlive, ownerVars
  <1>2. QuietPhases'
    BY TxEffect DEF QuietPhases, NoTx, NoRx, RxAlive, ownerVars
  <1>3. SafeImage'
    BY TxEffect, BuilderData DEF SafeImage, ownerVars, TypeOK, SharedOK, Iocs
  <1>4. Promise'
    BY TxEffect DEF Promise, NoTx, ownerVars
  <1> QED BY <1>1, <1>2, <1>3, <1>4

LEMMA RxStopInv ==
  ASSUME StopInv, NEW g \in Generations, Rx(g)
  PROVE  ThreadsOwned' /\ QuietPhases' /\ SafeImage' /\ Promise'
  <1> USE DEF StopInv
  <1>1. ThreadsOwned'
    BY RxEffect DEF ThreadsOwned, TxAlive, ownerVars
  <1>2. QuietPhases'
    BY RxEffect DEF QuietPhases, NoTx, NoRx, TxAlive, ownerVars
  <1>3. SafeImage'
    BY RxEffect, BuilderData DEF SafeImage, ownerVars, TypeOK, SharedOK
  <1>4. Promise'
    BY RxEffect DEF Promise, NoTx, TxAlive, ownerVars
  <1> QED BY <1>1, <1>2, <1>3, <1>4

LEMMA StartStopInv ==
  ASSUME StopInv, FaultRestart = FALSE,
         StartCheck \/ StartTransition \/ StartRun \/ StartReset \/ StartClear
         \/ StartOpen \/ StartSpawnTx \/ StartSpawnRx \/ StartSpawnFails \/
         StartRunning
  PROVE  ThreadsOwned' /\ QuietPhases' /\ SafeImage' /\ Promise'
  <1> USE DEF StopInv
  <1>1. CASE StartCheck
    BY <1>1 DEF StartCheck, OwnerTo, sharedVars, txVars, rxVars, historyVars,
      ThreadsOwned, QuietPhases, SafeImage, Promise, NoTx, NoRx, TxAlive, RxAlive
  <1>2. CASE StartTransition
    BY <1>2 DEF StartTransition, OwnerTo, sharedVars, txVars, rxVars, historyVars,
      ThreadsOwned, QuietPhases, SafeImage, Promise, NoTx, NoRx, TxAlive, RxAlive
  <1>3. CASE StartRun
    BY <1>3 DEF StartRun, OwnerTo, sharedVars, txVars, rxVars, historyVars,
      ThreadsOwned, QuietPhases, SafeImage, Promise, NoTx, NoRx, TxAlive, RxAlive
  <1>4. CASE StartReset
    BY <1>4 DEF StartReset, OwnerTo, sharedVars, txVars, rxVars, historyVars,
      ThreadsOwned, QuietPhases, SafeImage, Promise, NoTx, NoRx, TxAlive, RxAlive
  <1>5. CASE StartClear
    BY <1>5 DEF StartClear, OwnerTo, sharedVars, txVars, rxVars, historyVars,
      ThreadsOwned, QuietPhases, SafeImage, Promise, NoTx, NoRx, TxAlive, RxAlive
  <1>6. CASE StartOpen
    BY <1>6 DEF StartOpen, OwnerTo, sharedVars, txVars, rxVars, historyVars,
      ThreadsOwned, QuietPhases, SafeImage, Promise, NoTx, NoRx, TxAlive, RxAlive
  <1>7. CASE StartSpawnTx
    <2>1. /\ gen + 1 \in Generations /\ opc' = "start_spawn_rx" /\ txThread' = gen + 1
          /\ txpc' = [txpc EXCEPT ![gen + 1] = "check"]
          /\ UNCHANGED <<state, running, out, safe, rxpc, rxThread, wire, promised>>
      BY <1>7, ConstantsAssumption
      DEF StartSpawnTx, sharedVars, rxVars, historyVars, TypeOK, OwnerOK, Generations
    <2>2. NoTx /\ NoRx /\ promised = Unset /\ NoRx' /\ state = "starting"
      BY <1>7, <2>1 DEF StartSpawnTx, QuietPhases, Promise, NoRx, RxAlive
    <2>3. \A g \in Generations : TxAlive(g)' => g = gen + 1
      BY <2>1, <2>2 DEF NoTx, TxAlive, TypeOK, TxOK
    <2> QED
      BY <2>1, <2>2, <2>3 DEF ThreadsOwned, QuietPhases, SafeImage, Promise, NoRx
  <1>8. CASE StartSpawnRx
    <2>1. /\ opc' = "start_running" /\ rxThread' = gen
          /\ rxpc' = [rxpc EXCEPT ![gen] = "arm"]
          /\ UNCHANGED <<state, running, out, safe, txpc, txThread, wire, promised>>
      BY <1>8 DEF StartSpawnRx, sharedVars, txVars, historyVars
    <2>2. NoRx /\ promised = Unset /\ state \notin {"idle", "stopped"}
      BY <1>8 DEF StartSpawnRx, QuietPhases, Promise
    <2>3. \A g \in Generations : RxAlive(g)' => g = gen
      BY <2>1, <2>2 DEF NoRx, RxAlive, TypeOK, RxOK
    <2> QED
      BY <2>1, <2>2, <2>3 DEF ThreadsOwned, QuietPhases, SafeImage, Promise, TxAlive
  <1>9. CASE StartSpawnFails
    BY <1>9 DEF StartSpawnFails, OwnerTo, sharedVars, txVars, rxVars, historyVars,
      ThreadsOwned, QuietPhases, SafeImage, Promise, NoTx, NoRx, TxAlive, RxAlive
  <1>10. CASE StartRunning
    BY <1>10 DEF StartRunning, OwnerTo, sharedVars, txVars, rxVars, historyVars,
      ThreadsOwned, QuietPhases, SafeImage, Promise, NoTx, NoRx, TxAlive, RxAlive
  <1> QED BY <1>1, <1>2, <1>3, <1>4, <1>5, <1>6, <1>7, <1>8, <1>9, <1>10

LEMMA SetStopInv ==
  ASSUME StopInv, FaultRestart = FALSE,
         SetOutputCheck \/ SetOutputWrite \/ SetSafeOutput
  PROVE  ThreadsOwned' /\ QuietPhases' /\ SafeImage' /\ Promise'
  <1> USE DEF StopInv
  <1>1. CASE SetOutputCheck
    BY <1>1 DEF SetOutputCheck, OwnerTo, sharedVars, txVars, rxVars, historyVars,
      ThreadsOwned, QuietPhases, SafeImage, Promise, NoTx, NoRx, TxAlive, RxAlive
  <1>2. CASE SetOutputWrite
    BY <1>2 DEF SetOutputWrite, OwnerTo, sharedVars, txVars, rxVars, historyVars,
      ThreadsOwned, QuietPhases, SafeImage, Promise, NoTx, NoRx, TxAlive, RxAlive
  <1>3. CASE SetSafeOutput
    BY <1>3 DEF SetSafeOutput, OwnerTo, sharedVars, txVars, rxVars, historyVars,
      ThreadsOwned, QuietPhases, SafeImage, Promise, NoTx, NoRx, TxAlive, RxAlive
  <1> QED BY <1>1, <1>2, <1>3

LEMMA StopStopInv ==
  ASSUME StopInv, FaultRestart = FALSE,
         StopApply \/ StopCheck \/ StopTransition \/ StopSignal \/ StopJoinTx
         \/ StopCount \/ StopBuild \/ StopSend \/ StopJoinRx \/ StopDone
  PROVE  ThreadsOwned' /\ QuietPhases' /\ SafeImage' /\ Promise'
  <1> USE DEF StopInv
  <1>1. CASE StopApply
    <2>1. safe \in Values => out'.write.data = safe /\ out'.send.data = safe
      BY <1>1, SafeApplied DEF StopApply, apply_safe_output, TypeOK, SharedOK
    <2>2. SafeImage'
      BY <1>1, <2>1 DEF StopApply, SafeImage
    <2>3. ThreadsOwned' /\ QuietPhases' /\ Promise'
      BY <1>1 DEF StopApply, txVars, rxVars, historyVars, ThreadsOwned, QuietPhases, Promise,
         NoTx, NoRx, TxAlive, RxAlive
    <2> QED BY <2>2, <2>3
  <1>2. CASE StopCheck
    BY <1>2 DEF StopCheck, OwnerTo, sharedVars, txVars, rxVars, historyVars,
      ThreadsOwned, QuietPhases, SafeImage, Promise, NoTx, NoRx, TxAlive, RxAlive,
      Returned
  <1>3. CASE StopTransition
    BY <1>3 DEF StopTransition, OwnerTo, sharedVars, txVars, rxVars, historyVars,
      ThreadsOwned, QuietPhases, SafeImage, Promise, NoTx, NoRx, TxAlive, RxAlive
  <1>4. CASE StopSignal
    BY <1>4 DEF StopSignal, OwnerTo, sharedVars, txVars, rxVars, historyVars,
      ThreadsOwned, QuietPhases, SafeImage, Promise, NoTx, NoRx, TxAlive, RxAlive
  <1>5. CASE StopJoinTx
    <2>1. NoTx /\ NoTx'
      BY <1>5 DEF StopJoinTx, TxJoined, ThreadsOwned, NoTx, TxAlive, txVars, Generations
    <2> QED
      BY <1>5, <2>1 DEF StopJoinTx, TxJoined, sharedVars, txVars, rxVars, historyVars,
         ThreadsOwned, QuietPhases, SafeImage, Promise, NoTx, NoRx, TxAlive, RxAlive
  <1>6. CASE StopCount
    <2>1. SafeImage'
      BY <1>6, BuilderData DEF StopCount, OwnerTo, SafeImage, TypeOK, SharedOK, Iocs
    <2>2. ThreadsOwned' /\ QuietPhases' /\ Promise'
      BY <1>6 DEF StopCount, OwnerTo, txVars, rxVars, historyVars, ThreadsOwned, QuietPhases,
         Promise, NoTx, NoRx, TxAlive, RxAlive
    <2> QED BY <2>1, <2>2
  <1>7. CASE StopBuild
    <2>1. SafeImage'
      <3>1. out \in Builder /\ counter \in Counters
        BY DEF TypeOK, SharedOK
      <3>2. out'.write = out.write /\ out'.send \in {out.send, out.write}
        BY <1>7, <3>1, BuilderData DEF StopBuild, Iocs
      <3>3. stopFrame'.kind = "stop" /\ stopFrame'.data = out'.send.data
        BY <1>7, <3>1, SwapType, FrameType DEF StopBuild
      <3> QED
        BY <1>7, <3>2, <3>3 DEF StopBuild, SafeImage
    <2>2. ThreadsOwned' /\ QuietPhases' /\ Promise'
      BY <1>7 DEF StopBuild, txVars, rxVars, historyVars, ThreadsOwned, QuietPhases,
         Promise, NoTx, NoRx, TxAlive, RxAlive
    <2> QED BY <2>1, <2>2
  <1>8. CASE StopSend
    BY <1>8 DEF StopSend, OwnerTo, sharedVars, txVars, rxVars, historyVars,
      ThreadsOwned, QuietPhases, SafeImage, Promise, NoTx, NoRx, TxAlive, RxAlive
  <1>9. CASE StopJoinRx
    <2>1. NoRx /\ NoRx'
      BY <1>9 DEF StopJoinRx, RxJoined, ThreadsOwned, NoRx, RxAlive, rxVars, Generations
    <2> QED
      BY <1>9, <2>1 DEF StopJoinRx, sharedVars, txVars, rxVars, historyVars,
         ThreadsOwned, QuietPhases, SafeImage, Promise, NoTx, NoRx, TxAlive, RxAlive
  <1>10. CASE StopDone
    BY <1>10 DEF StopDone, OwnerTo, sharedVars, txVars, rxVars, historyVars,
      ThreadsOwned, QuietPhases, SafeImage, Promise, NoTx, NoRx, TxAlive, RxAlive,
      Returned
  <1> QED BY <1>1, <1>2, <1>3, <1>4, <1>5, <1>6, <1>7, <1>8, <1>9, <1>10

LEMMA NextStopInv ==
  ASSUME StopInv, FaultRestart = FALSE, [Next]_vars
  PROVE  StopInv'
  <1>0. TypeOK'
    BY NextTypeOK DEF StopInv
  <1>1. CASE Owner
    BY <1>0, <1>1, StartStopInv, SetStopInv, StopStopInv DEF Owner, StopInv
  <1>2. CASE \E g \in Generations : Tx(g) \/ Rx(g)
    BY <1>0, <1>2, TxStopInv, RxStopInv DEF StopInv
  <1>3. CASE Elapse \/ LinkDies \/ UNCHANGED vars
    BY <1>0, <1>3 DEF Elapse, LinkDies, vars, sharedVars, ownerVars, txVars, rxVars,
       historyVars, StopInv, ThreadsOwned, QuietPhases, SafeImage, Promise, NoTx, NoRx,
       TxAlive, RxAlive
  <1> QED BY <1>1, <1>2, <1>3 DEF Next, Dropped

LEMMA StopInvariant ==
  ASSUME FaultRestart = FALSE
  PROVE  Spec => []StopInv
  <1>1. Init => StopInv
    BY InitStopInv
  <1>2. StopInv /\ [Next]_vars => StopInv'
    BY NextStopInv
  <1> QED BY <1>1, <1>2, PTL DEF Spec

(* An owner that stops a faulted controller before it starts it again always gets *)
(* what stop() promises: the last frame the device was sent is a STOP frame with  *)
(* the registered safe image.                                                     *)
THEOREM StopIsSafe ==
  ASSUME FaultRestart = FALSE
  PROVE  Spec => []StopLatchesSafe
  <1>1. StopInv => StopLatchesSafe
    BY DEF StopInv, StopLatchesSafe, Promise
  <1> QED BY <1>1, StopInvariant, PTL

(* And no thread of cyclic.rs, of whichever start, survives the stop.             *)
THEOREM StopIsQuiet ==
  ASSUME FaultRestart = FALSE
  PROVE  Spec => []StoppedIsQuiet
  <1>1. StopInv => StoppedIsQuiet
    BY DEF StopInv, StoppedIsQuiet, QuietPhases, NoTx, NoRx
  <1> QED BY <1>1, StopInvariant, PTL

-----------------------------------------------------------------------------
(* What the FAULT state, the provider status listener and the cycle counter       *)
(* guarantee.  All of it rests on StopInv: at most one RX and one TX thread are    *)
(* alive, and none is while start() resets what they share.                        *)

(* FAULT and its record *)

(* A FAULT that is not on record yet is being recorded. *)
Recording == \E g \in Generations : rxpc[g] \in {"record", "error_record"}

(* No thread is about to move the state while start() sets RUNNING. *)
FreshStart ==
  opc = "start_running" =>
    /\ state = "starting"
    /\ \A g \in Generations :
         rxpc[g] \notin {"recover", "fault", "record", "error_fault", "error_record"}

RecordInv ==
  /\ FreshStart
  /\ faulted /\ ~everFaulted => state # "running" /\ Recording

(* The streak an RX thread acts upon is the shared one, and FAULT is entered with *)
(* the streak at its limit or with the capture lost.                              *)
StreakInv ==
  /\ FaultJustified
  /\ \A g \in Generations :
       /\ rxpc[g] \in {"iocs_bad", "fault_check", "fault"} => MaxTimeouts > 0
       /\ rxpc[g] \in {"iocs_bad", "fault_check"} => rxCount[g] = consecutive
       /\ rxpc[g] = "fault" => consecutive = MaxTimeouts
       /\ RxAlive(g) => g = gen

(* A consumer status written and not yet swapped in leaves the builder dirty, so   *)
(* that the next frame carries it; in the watchdog's FAULT the status is BAD.      *)
Pending(b) == b.dirty \/ b.send.iocs = b.write.iocs

IocsInv ==
  /\ Pending(out)
  /\ \A g \in Generations :
       /\ rxpc[g] \in {"fault_check", "fault"} => out.write.iocs = "bad"
       /\ state = "fault" /\ RxAlive(g) /\ rxpc[g] # "error_record" => out.write.iocs = "bad"
       /\ rxpc[g] = "iocs" => state # "fault"

(* The provider status: what the report under way will leave the listener with. *)
ListenerInv ==
  /\ ListenerInSync
  /\ \A g \in Generations :
       rxpc[g] = "report" =>
         (input = "good") = IF rxFlip[g] = "none" THEN told ELSE rxFlip[g] = "good"

(* The cycle counter is ahead of the wire exactly while a frame is on its way. *)
Sending == (\E g \in Generations : txpc[g] \in {"build", "send"})
           \/ opc \in {"stop_build", "stop_send"}
CounterInv ==
  /\ counter = IF Sending THEN next_counter(wire.counter) ELSE wire.counter
  /\ \A g \in Generations : txpc[g] \in {"build", "send"} => txFrame[g].counter = counter
  /\ opc = "stop_send" => stopFrame.counter = counter

-----------------------------------------------------------------------------
(* What one step may touch *)

(* Outside the named steps the owner leaves alone what the RX threads rely on, *)
(* and its writes to the output image never touch the consumer status.         *)
LEMMA OwnerKeeps ==
  ASSUME Owner
  PROVE  /\ UNCHANGED <<told, input, rxFlip, rxCount>>
         /\ StartSpawnRx \/ (UNCHANGED rxpc /\ opc' # "start_running")
         /\ StartTransition \/ StartRunning \/ StopTransition \/ StopDone \/ UNCHANGED state
         /\ StartReset \/ UNCHANGED consecutive
         /\ StartClear \/ UNCHANGED <<everFaulted, faulted>>
         /\ StartSpawnTx \/ UNCHANGED gen
         /\ \/ out' \in {out, swap(out)}
            \/ \E v \in Values : out' \in {set_data(out, v), swap(set_data(out, v))}
  <1> USE DEF OwnerTo, sharedVars, rxVars, historyVars
  <1>1. CASE StartCheck \/ StartTransition \/ StartRun \/ StartReset \/ StartClear
    BY <1>1 DEF StartCheck, StartTransition, StartRun, StartReset, StartClear
  <1>2. CASE StartOpen \/ StartSpawnTx \/ StartSpawnRx \/ StartSpawnFails \/ StartRunning
    BY <1>2 DEF StartOpen, StartSpawnTx, StartSpawnRx, StartSpawnFails, StartRunning
  <1>3. CASE SetOutputCheck \/ SetOutputWrite \/ SetSafeOutput
    BY <1>3 DEF SetOutputCheck, SetOutputWrite, SetSafeOutput
  <1>4. CASE StopApply \/ StopCheck \/ StopTransition \/ StopSignal
    BY <1>4 DEF StopApply, apply_safe_output, StopCheck, Returned, StopTransition, StopSignal
  <1>5. CASE StopJoinTx \/ StopCount \/ StopBuild
    BY <1>5 DEF StopJoinTx, StopCount, StopBuild
  <1>6. CASE StopSend \/ StopJoinRx \/ StopDone
    BY <1>6 DEF StopSend, StopJoinRx, StopDone, Returned
  <1> QED BY <1>1, <1>2, <1>3, <1>4, <1>5, <1>6 DEF Owner

(* While an RX thread takes a step no other one is alive. *)
LEMMA RxAlone ==
  ASSUME StopInv, NEW g \in Generations, Rx(g)
  PROVE  /\ rxpc \in [Generations -> RxPcs]
         /\ \A h \in Generations : h # g => rxpc[h] \in {"none", "exited"} /\ rxpc'[h] = rxpc[h]
  <1>1. rxpc \in [Generations -> RxPcs] /\ \E pc \in RxPcs : rxpc' = [rxpc EXCEPT ![g] = pc]
    BY DEF Rx, RxArm, RxCheck, RxNothing, RxError, RxAccept, RxRecoverCheck,
      RxRecover, RxIocsGood, RxInput, RxReport, RxWatchdog, RxTimeout, RxIocsBad,
      RxFaultCheck, RxErrorCheck, RxErrorState, RxFault, RxRecord,
      RxTo, StopInv, TypeOK, RxOK, RxPcs, after_fault
  <1>2. \A h \in Generations : h # g => ~RxAlive(h)
    BY RxEffect DEF StopInv, ThreadsOwned
  <1> QED BY <1>1, <1>2 DEF RxAlive

(* A TX thread touches nothing of this but the buffers it swaps. *)
LEMMA TxKeeps ==
  ASSUME NEW g \in Generations, Tx(g)
  PROVE  /\ UNCHANGED <<told, input, rxpc, rxFlip, rxCount, state, consecutive, everFaulted,
                        faulted, opc, gen>>
         /\ out' \in {out, swap(out)}
  BY DEF Tx, TxCheck, TxCount, TxBuild, TxSend, sharedVars, ownerVars, rxVars, historyVars

-----------------------------------------------------------------------------
(* FAULT is remembered *)

LEMMA OwnerRecordInv ==
  ASSUME StopInv, RecordInv, Owner
  PROVE  RecordInv'
  <1>1. CASE StartTransition
    BY <1>1, OwnerKeeps DEF StartTransition, OwnerTo, StopInv, QuietPhases, NoRx, RxAlive,
      RecordInv, FreshStart, Recording
  <1>2. CASE StartClear
    BY <1>2, OwnerKeeps DEF StartClear, OwnerTo, StopInv, RecordInv, FreshStart, Recording
  <1>3. CASE StartSpawnRx
    <2>1. NoRx /\ state = "starting" /\ state' = state /\ UNCHANGED <<everFaulted, faulted>>
      BY <1>3 DEF StartSpawnRx, StopInv, QuietPhases, sharedVars, historyVars
    <2>2. faulted => everFaulted
      BY <2>1 DEF RecordInv, Recording, NoRx, RxAlive
    <2>3. \A g \in Generations : rxpc'[g] \in {rxpc[g], "arm"}
      BY <1>3 DEF StartSpawnRx, StopInv, TypeOK, RxOK
    <2> QED BY <2>1, <2>2, <2>3 DEF RecordInv, FreshStart, NoRx, RxAlive
  <1>4. CASE StartRunning
    BY <1>4, OwnerKeeps DEF StartRunning, OwnerTo, StartClear, StartSpawnRx, RecordInv, FreshStart,
      Recording
  <1>5. CASE StopTransition \/ StopDone
    <2>1. state' # "running" /\ ~StartClear /\ ~StartSpawnRx
      BY <1>5 DEF StopTransition, StopDone, StartClear, StartSpawnRx
    <2> QED BY <2>1, OwnerKeeps DEF RecordInv, FreshStart, Recording
  <1> QED BY <1>1, <1>2, <1>3, <1>4, <1>5, OwnerKeeps DEF RecordInv, FreshStart, Recording

LEMMA RxRecordInv ==
  ASSUME StopInv, RecordInv, NEW g \in Generations, Rx(g)
  PROVE  RecordInv'
  <1>0. /\ rxpc \in [Generations -> RxPcs]
        /\ \A h \in Generations : h # g => rxpc[h] \in {"none", "exited"} /\ rxpc'[h] = rxpc[h]
    BY RxAlone
  <1>1. opc' = opc
    BY RxEffect DEF StopInv, ownerVars
  <1> USE DEF RxTo, sharedVars, historyVars, RecordInv, FreshStart, Recording
  <1>2. CASE RxArm(g) \/ RxCheck(g) \/ RxNothing(g) \/ RxError(g) \/ RxAccept(g)
    BY <1>0, <1>1, <1>2 DEF RxArm, RxCheck, RxNothing, RxError, RxAccept
  <1>3. CASE RxRecoverCheck(g) \/ RxIocsGood(g) \/ RxInput(g) \/ RxReport(g)
    BY <1>0, <1>1, <1>3 DEF RxRecoverCheck, RxIocsGood, RxInput, RxReport
  <1>4. CASE RxRecover(g)
    BY <1>0, <1>1, <1>4 DEF RxRecover
  <1>5. CASE RxWatchdog(g) \/ RxTimeout(g) \/ RxIocsBad(g) \/ RxFaultCheck(g)
    BY <1>0, <1>1, <1>5 DEF RxWatchdog, RxTimeout, RxIocsBad, RxFaultCheck
  <1>6. CASE RxErrorCheck(g) \/ RxErrorState(g)
    BY <1>0, <1>1, <1>6 DEF RxErrorCheck, RxErrorState
  <1>7. CASE RxFault(g)
    BY <1>0, <1>1, <1>7 DEF RxFault, after_fault
  <1>8. CASE RxRecord(g)
    BY <1>0, <1>1, <1>8 DEF RxRecord, after_fault
  <1> QED BY <1>2, <1>3, <1>4, <1>5, <1>6, <1>7, <1>8 DEF Rx

LEMMA NextRecordInv == StopInv /\ RecordInv /\ [Next]_vars => RecordInv'
  <1> SUFFICES ASSUME StopInv, RecordInv, [Next]_vars PROVE RecordInv'
    OBVIOUS
  <1>1. CASE Owner
    BY <1>1, OwnerRecordInv
  <1>2. ASSUME NEW g \in Generations, Tx(g) PROVE RecordInv'
    BY <1>2, TxKeeps DEF RecordInv, FreshStart, Recording
  <1>3. ASSUME NEW g \in Generations, Rx(g) PROVE RecordInv'
    BY <1>3, RxRecordInv
  <1>4. CASE Elapse \/ LinkDies \/ UNCHANGED vars
    BY <1>4 DEF Elapse, LinkDies, vars, sharedVars, ownerVars, rxVars, historyVars,
      RecordInv, FreshStart, Recording
  <1> QED BY <1>1, <1>2, <1>3, <1>4 DEF Next, Dropped

(* Whenever a FAULT episode is over and the controller RUNNING again, ever_faulted *)
(* tells: transition() records it before any frame can end the episode.            *)
THEOREM FaultIsRemembered ==
  ASSUME FaultRestart = FALSE
  PROVE  Spec => []FaultRemembered
  <1>1. Init => RecordInv
    BY DEF Init, RecordInv, FreshStart
  <1>2. RecordInv => FaultRemembered
    BY DEF RecordInv, FaultRemembered
  <1> QED BY <1>1, <1>2, NextRecordInv, StopInvariant, PTL DEF Spec

-----------------------------------------------------------------------------
(* FAULT is justified *)

LEMMA OwnerStreakInv ==
  ASSUME StopInv, StreakInv, Owner
  PROVE  StreakInv'
  <1> USE DEF StreakInv, FaultJustified, RxAlive
  <1>1. CASE StartReset
    BY <1>1, OwnerKeeps DEF StartReset, StartSpawnRx, StartSpawnTx, OwnerTo, StopInv, QuietPhases,
      NoRx
  <1>2. CASE StartSpawnTx
    BY <1>2, OwnerKeeps DEF StartSpawnTx, StartSpawnRx, sharedVars, StopInv, QuietPhases, NoRx
  <1>3. CASE StartSpawnRx
    <2>1. NoRx /\ state' = "starting" /\ gen' = gen
      BY <1>3 DEF StartSpawnRx, StopInv, QuietPhases, sharedVars
    <2>2. \A g \in Generations : rxpc'[g] = IF g = gen THEN "arm" ELSE rxpc[g]
      BY <1>3 DEF StartSpawnRx, StopInv, TypeOK, RxOK
    <2> QED BY <2>1, <2>2 DEF NoRx
  <1>4. CASE StartTransition \/ StartRunning \/ StopTransition \/ StopDone
    BY <1>4, OwnerKeeps DEF StartTransition, StartRunning, StopTransition, StopDone, OwnerTo,
      StartReset, StartSpawnRx
  <1> QED BY <1>1, <1>2, <1>3, <1>4, OwnerKeeps

LEMMA RxStreakInv ==
  ASSUME StopInv, StreakInv, NEW g \in Generations, Rx(g)
  PROVE  StreakInv'
  <1>0. /\ rxpc \in [Generations -> RxPcs]
        /\ \A h \in Generations : h # g => rxpc[h] \in {"none", "exited"} /\ rxpc'[h] = rxpc[h]
    BY RxAlone
  <1>1. g = gen /\ gen' = gen /\ gen > 0
    BY RxEffect DEF StopInv, StreakInv, ownerVars, Generations
  <1>2. /\ rxCount \in [Generations -> 0..MaxTimeouts] /\ consecutive \in 0..MaxTimeouts
        /\ MaxTimeouts \in Nat
    BY ConstantsAssumption DEF StopInv, TypeOK, RxOK, SharedOK
  <1> USE DEF RxTo, sharedVars, StreakInv, FaultJustified, RxAlive
  <1>3. CASE RxArm(g) \/ RxCheck(g) \/ RxNothing(g) \/ RxError(g) \/ RxAccept(g)
    BY <1>0, <1>1, <1>2, <1>3 DEF RxArm, RxCheck, RxNothing, RxError, RxAccept
  <1>4. CASE RxRecoverCheck(g) \/ RxRecover(g)
    BY <1>0, <1>1, <1>2, <1>4 DEF RxRecoverCheck, RxRecover
  <1>5. CASE RxIocsGood(g) \/ RxInput(g) \/ RxReport(g) \/ RxWatchdog(g)
    BY <1>0, <1>1, <1>2, <1>5 DEF RxIocsGood, RxInput, RxReport, RxWatchdog
  <1>6. CASE RxTimeout(g)
    BY <1>0, <1>1, <1>2, <1>6 DEF RxTimeout, bump
  <1>7. CASE RxIocsBad(g)
    BY <1>0, <1>1, <1>2, <1>7 DEF RxIocsBad
  <1>8. CASE RxFaultCheck(g)
    BY <1>0, <1>1, <1>2, <1>8 DEF RxFaultCheck, escalates
  <1>9. CASE RxErrorCheck(g) \/ RxErrorState(g)
    BY <1>0, <1>1, <1>2, <1>9 DEF RxErrorCheck, RxErrorState
  <1>10. CASE RxFault(g)
    BY <1>0, <1>1, <1>2, <1>10 DEF RxFault, after_fault
  <1>11. CASE RxRecord(g)
    BY <1>0, <1>1, <1>2, <1>11 DEF RxRecord, after_fault
  <1> QED
    BY <1>3, <1>4, <1>5, <1>6, <1>7, <1>8, <1>9, <1>10, <1>11 DEF Rx

LEMMA NextStreakInv == StopInv /\ StreakInv /\ [Next]_vars => StreakInv'
  <1> SUFFICES ASSUME StopInv, StreakInv, [Next]_vars PROVE StreakInv'
    OBVIOUS
  <1>1. CASE Owner
    BY <1>1, OwnerStreakInv
  <1>2. ASSUME NEW g \in Generations, Tx(g) PROVE StreakInv'
    BY <1>2, TxKeeps DEF StreakInv, FaultJustified, RxAlive
  <1>3. ASSUME NEW g \in Generations, Rx(g) PROVE StreakInv'
    BY <1>3, RxStreakInv
  <1>4. CASE Elapse \/ LinkDies \/ UNCHANGED vars
    BY <1>4 DEF Elapse, LinkDies, vars, sharedVars, ownerVars, rxVars, StreakInv, FaultJustified,
      RxAlive
  <1> QED BY <1>1, <1>2, <1>3, <1>4 DEF Next, Dropped

(* FAULT is never declared on a streak shorter than max_consecutive_timeouts, for *)
(* any limit, nor kept once a frame has ended the streak.                         *)
THEOREM FaultIsJustified ==
  ASSUME FaultRestart = FALSE
  PROVE  Spec => []FaultJustified
  <1>1. Init => StreakInv
    BY DEF Init, StreakInv, FaultJustified, RxAlive
  <1>2. StreakInv => FaultJustified
    BY DEF StreakInv
  <1> QED BY <1>1, <1>2, NextStreakInv, StopInvariant, PTL DEF Spec

-----------------------------------------------------------------------------
(* Frames built in FAULT *)

(* What the builder operations do to the consumer status. *)
LEMMA BuilderIocs ==
  ASSUME NEW b \in Builder, Pending(b)
  PROVE  /\ Pending(swap(b)) /\ swap(b).write = b.write
         /\ swap(b).send.iocs = b.write.iocs
         /\ \A v \in Values : /\ Pending(set_data(b, v))
                              /\ set_data(b, v) \in Builder
                              /\ set_data(b, v).write.iocs = b.write.iocs
         /\ \A s \in Iocs : Pending(set_all_iocs(b, s)) /\ set_all_iocs(b, s).write.iocs = s
  BY DEF swap, set_data, set_all_iocs, Pending, Builder, Image

LEMMA OwnerIocsInv ==
  ASSUME StopInv, IocsInv, Owner
  PROVE  IocsInv'
  <1>1. Pending(out') /\ out'.write.iocs = out.write.iocs
    <2>1. out \in Builder
      BY DEF StopInv, TypeOK, SharedOK
    <2>2. ASSUME NEW v \in Values
          PROVE  /\ Pending(swap(set_data(out, v)))
                 /\ swap(set_data(out, v)).write.iocs = out.write.iocs
      <3>1. set_data(out, v) \in Builder /\ Pending(set_data(out, v))
        BY <2>1, BuilderIocs DEF IocsInv
      <3>2. set_data(out, v).write.iocs = out.write.iocs
        BY <2>1, BuilderIocs DEF IocsInv
      <3> QED BY <3>1, <3>2, BuilderIocs
    <2> QED BY <2>1, <2>2, BuilderIocs, OwnerKeeps DEF IocsInv
  <1>2. state' = "fault" => state = "fault"
    BY OwnerKeeps DEF StartTransition, StartRunning, StopTransition, StopDone
  <1>3. CASE StartSpawnRx
    <2>1. NoRx
      BY <1>3 DEF StartSpawnRx, StopInv, QuietPhases
    <2>2. \A g \in Generations : rxpc'[g] \in {rxpc[g], "arm"}
      BY <1>3 DEF StartSpawnRx, StopInv, TypeOK, RxOK
    <2>3. state' = "starting"
      BY <1>3 DEF StartSpawnRx, StopInv, QuietPhases, sharedVars
    <2> QED BY <1>1, <2>1, <2>2, <2>3 DEF IocsInv, NoRx, RxAlive
  <1>4. CASE UNCHANGED rxpc
    BY <1>1, <1>2, <1>4 DEF IocsInv, RxAlive
  <1> QED BY <1>3, <1>4, OwnerKeeps

LEMMA RxIocsInv ==
  ASSUME StopInv, IocsInv, NEW g \in Generations, Rx(g)
  PROVE  IocsInv'
  <1>0. /\ rxpc \in [Generations -> RxPcs]
        /\ \A h \in Generations : h # g => rxpc[h] \in {"none", "exited"} /\ rxpc'[h] = rxpc[h]
    BY RxAlone
  <1>1. out \in Builder
    BY DEF StopInv, TypeOK, SharedOK
  <1> USE DEF RxTo, sharedVars, IocsInv, RxAlive
  <1>2. CASE RxArm(g) \/ RxCheck(g) \/ RxNothing(g) \/ RxError(g) \/ RxAccept(g)
    BY <1>0, <1>2 DEF RxArm, RxCheck, RxNothing, RxError, RxAccept
  <1>3. CASE RxRecoverCheck(g) \/ RxRecover(g) \/ RxInput(g) \/ RxReport(g) \/ RxWatchdog(g)
    BY <1>0, <1>3 DEF RxRecoverCheck, RxRecover, RxInput, RxReport, RxWatchdog
  <1>4. CASE RxIocsGood(g)
    BY <1>0, <1>1, <1>4, BuilderIocs DEF RxIocsGood, Iocs
  <1>5. CASE RxIocsBad(g)
    BY <1>0, <1>1, <1>5, BuilderIocs DEF RxIocsBad, Iocs
  <1>6. CASE RxTimeout(g) \/ RxFaultCheck(g) \/ RxErrorCheck(g) \/ RxErrorState(g)
    BY <1>0, <1>6 DEF RxTimeout, RxFaultCheck, RxErrorCheck, RxErrorState
  <1>7. CASE RxFault(g)
    BY <1>0, <1>7 DEF RxFault, after_fault
  <1>8. CASE RxRecord(g)
    BY <1>0, <1>8 DEF RxRecord, after_fault
  <1> QED BY <1>2, <1>3, <1>4, <1>5, <1>6, <1>7, <1>8 DEF Rx

LEMMA NextIocsInv == StopInv /\ IocsInv /\ [Next]_vars => IocsInv'
  <1> SUFFICES ASSUME StopInv, IocsInv, [Next]_vars PROVE IocsInv'
    OBVIOUS
  <1>1. CASE Owner
    BY <1>1, OwnerIocsInv
  <1>2. ASSUME NEW g \in Generations, Tx(g) PROVE IocsInv'
    BY <1>2, TxKeeps, BuilderIocs DEF IocsInv, RxAlive, StopInv, TypeOK, SharedOK
  <1>3. ASSUME NEW g \in Generations, Rx(g) PROVE IocsInv'
    BY <1>3, RxIocsInv
  <1>4. CASE Elapse \/ LinkDies \/ UNCHANGED vars
    BY <1>4 DEF Elapse, LinkDies, vars, sharedVars, ownerVars, rxVars, IocsInv, RxAlive
  <1> QED BY <1>1, <1>2, <1>3, <1>4 DEF Next, Dropped

(* The step that builds a frame in the watchdog's FAULT gives it a BAD status. *)
LEMMA NextFaultFrameIsBad == StopInv /\ IocsInv /\ [Next]_vars => FaultFrameIsBad
  <1> SUFFICES ASSUME StopInv, IocsInv, [Next]_vars,
                      NEW g \in Generations, NEW h \in Generations,
                      txpc[g] = "build", txpc'[g] = "send", state = "fault",
                      RxAlive(h), rxpc[h] # "error_record"
               PROVE  txFrame'[g].iocs = "bad"
    BY DEF FaultFrameIsBad
  <1>0. txpc \in [Generations -> TxPcs] /\ txFrame \in [Generations -> Frame] /\ out \in Builder
    BY DEF StopInv, TypeOK, TxOK, SharedOK
  <1>1. CASE Owner
    <2>1. \A k \in Generations : txpc'[k] \in {txpc[k], "check"}
      BY <1>0, <1>1 DEF Owner, StartCheck, StartTransition, StartRun, StartReset, StartClear,
        StartOpen, StartSpawnTx, StartSpawnRx, StartSpawnFails, StartRunning, SetOutputCheck,
        SetOutputWrite, SetSafeOutput, StopApply, StopCheck, StopTransition, StopSignal,
        StopJoinTx, StopCount, StopBuild, StopSend, StopJoinRx, StopDone, txVars
    <2> QED BY <2>1
  <1>2. ASSUME NEW k \in Generations, Tx(k) PROVE txFrame'[g].iocs = "bad"
    <2>1. TxBuild(g)
      BY <1>0, <1>2 DEF Tx, TxCheck, TxCount, TxBuild, TxSend, TxTo
    <2>2. out.write.iocs = "bad"
      BY DEF IocsInv
    <2>3. frame_of("run", swap(out)).iocs = "bad"
      BY <1>0, <2>2, BuilderIocs DEF frame_of, IocsInv
    <2> QED BY <1>0, <2>1, <2>3 DEF TxBuild, frame_of
  <1>3. ASSUME NEW k \in Generations, Rx(k) PROVE FALSE
    BY <1>3, RxEffect DEF StopInv
  <1>4. CASE Elapse \/ LinkDies \/ UNCHANGED vars
    BY <1>4 DEF Elapse, LinkDies, vars, txVars
  <1> QED BY <1>1, <1>2, <1>3, <1>4 DEF Next, Dropped

(* In the watchdog's FAULT no frame claims that the device's data is consumed, *)
(* whatever the owner writes and whenever the buffers are swapped.             *)
THEOREM FaultFramesAreBad ==
  ASSUME FaultRestart = FALSE
  PROVE  Spec => FaultFramesBad
  <1>1. Init => IocsInv
    BY DEF Init, IocsInv, Pending, RxAlive
  <1> QED
    BY <1>1, NextIocsInv, NextFaultFrameIsBad, StopInvariant, PTL DEF Spec, FaultFramesBad

-----------------------------------------------------------------------------
(* The provider status listener *)

LEMMA RxListenerInv ==
  ASSUME StopInv, ListenerInv, NEW g \in Generations, Rx(g)
  PROVE  ListenerInv'
  <1>0. /\ rxpc \in [Generations -> RxPcs]
        /\ \A h \in Generations : h # g => rxpc[h] \in {"none", "exited"} /\ rxpc'[h] = rxpc[h]
    BY RxAlone
  <1>1. told \in BOOLEAN /\ rxFlip \in [Generations -> {"none", "good", "bad"}]
    BY DEF StopInv, TypeOK, FlagsOK, RxOK
  <1> USE DEF RxTo, sharedVars, historyVars, ListenerInv, ListenerInSync
  <1>2. CASE RxInput(g)
    <2>1. PICK iops \in InputStatuses :
            /\ input' = iops
            /\ rxFlip' = [rxFlip EXCEPT ![g] =
                            IF (iops = "good") # (input = "good") THEN iops ELSE "none"]
      BY <1>2 DEF RxInput
    <2>2. told = (input = "good") /\ told' = told
      BY <1>0, <1>2 DEF RxInput
    <2>3. rxpc'[g] = "report"
      BY <1>0, <1>2 DEF RxInput
    <2>4. rxFlip'[g] = IF (iops = "good") # (input = "good") THEN iops ELSE "none"
      BY <1>1, <2>1
    <2>5. (input' = "good") = IF rxFlip'[g] = "none" THEN told' ELSE rxFlip'[g] = "good"
      <3>1. CASE (iops = "good") # (input = "good")
        BY <2>1, <2>4, <3>1, ConstantsAssumption
      <3>2. CASE (iops = "good") = (input = "good")
        BY <2>1, <2>2, <2>4, <3>2
      <3> QED BY <3>1, <3>2
    <2> QED BY <1>0, <2>3, <2>5
  <1>3. CASE RxReport(g)
    <2>1. told' = (input' = "good")
      BY <1>3 DEF RxReport
    <2> QED BY <1>0, <1>3, <2>1 DEF RxReport
  <1>4. CASE RxArm(g) \/ RxCheck(g) \/ RxNothing(g) \/ RxError(g) \/ RxAccept(g)
    BY <1>0, <1>4 DEF RxArm, RxCheck, RxNothing, RxError, RxAccept
  <1>5. CASE RxRecoverCheck(g) \/ RxRecover(g) \/ RxIocsGood(g) \/ RxWatchdog(g) \/ RxTimeout(g)
    BY <1>0, <1>5 DEF RxRecoverCheck, RxRecover, RxIocsGood, RxWatchdog, RxTimeout
  <1>6. CASE RxIocsBad(g) \/ RxFaultCheck(g) \/ RxErrorCheck(g) \/ RxErrorState(g)
    BY <1>0, <1>6 DEF RxIocsBad, RxFaultCheck, RxErrorCheck, RxErrorState
  <1>7. CASE RxFault(g) \/ RxRecord(g)
    BY <1>0, <1>7 DEF RxFault, RxRecord, after_fault
  <1> QED BY <1>2, <1>3, <1>4, <1>5, <1>6, <1>7 DEF Rx

LEMMA NextListenerInv == StopInv /\ ListenerInv /\ [Next]_vars => ListenerInv'
  <1> SUFFICES ASSUME StopInv, ListenerInv, [Next]_vars PROVE ListenerInv'
    OBVIOUS
  <1>1. CASE Owner
    <2>1. CASE StartSpawnRx
      <3>1. NoRx
        BY <2>1 DEF StartSpawnRx, StopInv, QuietPhases
      <3>2. \A g \in Generations : rxpc'[g] \in {rxpc[g], "arm"}
        BY <2>1 DEF StartSpawnRx, StopInv, TypeOK, RxOK
      <3>3. \A g \in Generations : rxpc[g] # "report" /\ rxpc'[g] # "report"
        BY <3>1, <3>2 DEF NoRx, RxAlive
      <3> QED BY <1>1, <3>3, OwnerKeeps DEF ListenerInv, ListenerInSync
    <2>2. CASE UNCHANGED rxpc
      BY <1>1, <2>2, OwnerKeeps DEF ListenerInv, ListenerInSync
    <2> QED BY <1>1, <2>1, <2>2, OwnerKeeps
  <1>2. ASSUME NEW g \in Generations, Tx(g) PROVE ListenerInv'
    BY <1>2, TxKeeps DEF ListenerInv, ListenerInSync
  <1>3. ASSUME NEW g \in Generations, Rx(g) PROVE ListenerInv'
    BY <1>3, RxListenerInv
  <1>4. CASE Elapse \/ LinkDies \/ UNCHANGED vars
    BY <1>4 DEF Elapse, LinkDies, vars, sharedVars, rxVars, historyVars, ListenerInv,
      ListenerInSync
  <1> QED BY <1>1, <1>2, <1>3, <1>4 DEF Next, Dropped

(* The listener never misses a flip of the provider status, through restarts too. *)
THEOREM ListenerIsInSync ==
  ASSUME FaultRestart = FALSE
  PROVE  Spec => []ListenerInSync
  <1>1. Init => ListenerInv
    BY DEF Init, ListenerInv, ListenerInSync
  <1>2. ListenerInv => ListenerInSync
    BY DEF ListenerInv
  <1> QED BY <1>1, <1>2, NextListenerInv, StopInvariant, PTL DEF Spec

-----------------------------------------------------------------------------
(* The cycle counter *)

(* While a TX thread takes a step no other one is alive, and stop() sends nothing. *)
LEMMA TxAlone ==
  ASSUME StopInv, NEW g \in Generations, Tx(g)
  PROVE  /\ txpc \in [Generations -> TxPcs] /\ txFrame \in [Generations -> Frame]
         /\ \A h \in Generations : h # g => txpc[h] \in {"none", "exited"} /\ txpc'[h] = txpc[h]
         /\ opc' = opc /\ opc \notin {"stop_count", "stop_build", "stop_send"}
  <1>1. /\ txpc \in [Generations -> TxPcs] /\ txFrame \in [Generations -> Frame]
        /\ \E pc \in TxPcs : txpc' = [txpc EXCEPT ![g] = pc]
    BY DEF Tx, TxCheck, TxCount, TxBuild, TxSend, TxTo, StopInv, TypeOK, TxOK, TxPcs
  <1>2. TxAlive(g) /\ opc' = opc
    BY TxEffect DEF StopInv, ownerVars
  <1>3. \A h \in Generations : h # g => ~TxAlive(h)
    BY <1>2 DEF StopInv, ThreadsOwned
  <1>4. opc \notin {"stop_count", "stop_build", "stop_send"}
    BY <1>2 DEF StopInv, QuietPhases, NoTx
  <1> QED BY <1>1, <1>2, <1>3, <1>4 DEF TxAlive

LEMMA TxCounterInv ==
  ASSUME SendErrors = FALSE, StopInv, CounterInv, NEW g \in Generations, Tx(g)
  PROVE  CounterInv' /\ (wire' # wire => wire'.counter = next_counter(wire.counter))
  <1>0. /\ txpc \in [Generations -> TxPcs] /\ txFrame \in [Generations -> Frame]
        /\ \A h \in Generations : h # g => txpc[h] \in {"none", "exited"} /\ txpc'[h] = txpc[h]
        /\ opc' = opc /\ opc \notin {"stop_count", "stop_build", "stop_send"}
    BY TxAlone
  <1> USE DEF TxTo, sharedVars, historyVars, CounterInv, Sending
  <1>1. CASE TxCheck(g)
    BY <1>0, <1>1 DEF TxCheck
  <1>2. CASE TxCount(g)
    BY <1>0, <1>2, NoFrameType DEF TxCount, Frame
  <1>3. CASE TxBuild(g)
    BY <1>0, <1>3 DEF TxBuild, frame_of
  <1>4. CASE TxSend(g)
    BY <1>0, <1>4 DEF TxSend
  <1> QED BY <1>1, <1>2, <1>3, <1>4 DEF Tx

LEMMA OwnerCounterInv ==
  ASSUME SendErrors = FALSE, StopInv, CounterInv, Owner
  PROVE  CounterInv' /\ (wire' # wire => wire'.counter = next_counter(wire.counter))
  <1>0. /\ txpc \in [Generations -> TxPcs] /\ txFrame \in [Generations -> Frame]
        /\ out \in Builder /\ counter \in Counters
    BY DEF StopInv, TypeOK, TxOK, SharedOK
  <1>1. opc \in {"stop_count", "stop_build", "stop_send"} =>
          \A g \in Generations : txpc[g] \in {"none", "exited"}
    BY DEF StopInv, QuietPhases, NoTx, TxAlive
  <1> USE DEF OwnerTo, sharedVars, txVars, historyVars, CounterInv, Sending
  <1>2. CASE StopCount
    BY <1>0, <1>1, <1>2 DEF StopCount
  <1>3. CASE StopBuild
    <2>1. stopFrame'.counter = counter
      BY <1>0, <1>3, SwapType, FrameType DEF StopBuild
    <2> QED BY <1>0, <1>1, <1>3, <2>1 DEF StopBuild
  <1>4. CASE StopSend
    BY <1>0, <1>1, <1>4 DEF StopSend
  <1>5. CASE StartSpawnTx
    <2>1. \A g \in Generations : txpc[g] \in {"none", "exited"}
      BY <1>5 DEF StartSpawnTx, StopInv, QuietPhases, NoTx, TxAlive
    <2> QED BY <1>0, <1>5, <2>1 DEF StartSpawnTx
  <1>6. CASE StartCheck \/ StartTransition \/ StartRun \/ StartReset \/ StartClear \/ StartOpen
             \/ StartSpawnRx \/ StartSpawnFails \/ StartRunning
    BY <1>6 DEF StartCheck, StartTransition, StartRun, StartReset, StartClear, StartOpen,
      StartSpawnRx, StartSpawnFails, StartRunning
  <1>7. CASE SetOutputCheck \/ SetOutputWrite \/ SetSafeOutput
    BY <1>7 DEF SetOutputCheck, SetOutputWrite, SetSafeOutput
  <1>8. CASE StopApply \/ StopCheck \/ StopTransition \/ StopSignal
    BY <1>8 DEF StopApply, StopCheck, Returned, StopTransition, StopSignal
  <1>9. CASE StopJoinTx \/ StopJoinRx \/ StopDone
    BY <1>9 DEF StopJoinTx, StopJoinRx, StopDone, Returned
  <1> QED BY <1>2, <1>3, <1>4, <1>5, <1>6, <1>7, <1>8, <1>9 DEF Owner

LEMMA NextCounterInv ==
  ASSUME SendErrors = FALSE, StopInv, CounterInv, [Next]_vars
  PROVE  CounterInv' /\ [wire'.counter = next_counter(wire.counter)]_wire
  <1>1. CASE Owner
    BY <1>1, OwnerCounterInv
  <1>2. ASSUME NEW g \in Generations, Tx(g)
        PROVE  CounterInv' /\ (wire' # wire => wire'.counter = next_counter(wire.counter))
    BY <1>2, TxCounterInv
  <1>3. ASSUME NEW g \in Generations, Rx(g) PROVE CounterInv' /\ wire' = wire
    <2>1. UNCHANGED <<counter, txpc, txFrame, wire, opc, stopFrame>>
      BY <1>3 DEF Rx, RxArm, RxCheck, RxNothing, RxError, RxAccept, RxRecoverCheck,
        RxRecover, RxIocsGood, RxInput, RxReport, RxWatchdog, RxTimeout, RxIocsBad,
        RxFaultCheck, RxErrorCheck, RxErrorState, RxFault, RxRecord, sharedVars, ownerVars,
        txVars, historyVars
    <2> QED BY <2>1 DEF CounterInv, Sending
  <1>4. CASE Elapse \/ LinkDies \/ UNCHANGED vars
    BY <1>4 DEF Elapse, LinkDies, vars, sharedVars, ownerVars, txVars, historyVars, CounterInv,
      Sending
  <1> QED BY <1>1, <1>2, <1>3, <1>4 DEF Next, Dropped

(* While no send fails the cycle counter of the frames on the wire never skips or *)
(* repeats a step, whichever of the TX threads and stop() sends them, for every   *)
(* send clock, reduction ratio and counter width.                                 *)
THEOREM FramesInSequence ==
  ASSUME FaultRestart = FALSE, SendErrors = FALSE
  PROVE  Spec => WireInSequence
  <1>1. Init => CounterInv
    BY DEF Init, CounterInv, Sending, NoFrame
  <1>2. StopInv /\ CounterInv /\ [Next]_vars =>
          CounterInv' /\ [wire'.counter = next_counter(wire.counter)]_wire
    BY NextCounterInv
  <1> QED BY <1>1, <1>2, StopInvariant, PTL DEF Spec, WireInSequence
=============================================================================
