-------------------------- MODULE RpcSessionProofs --------------------------
(***************************************************************************)
(* Proofs about RpcSession for every number of requests, every deadline    *)
(* and every number of losses, repetitions and delays, on either           *)
(* transport.                                                              *)
(***************************************************************************)
EXTENDS RpcSession, TLAPS

(* Requests *)

(* What the device was or will be asked: the requests under way and the ones done. *)
Asked == {r \in toDev : r.op # "done"} \union dev.done

(* Numbers are given once, and the outstanding request is the last one. *)
NumberInv ==
    /\ \A r \in Asked : r.seq < conn.seq
    /\ \A r, q \in Asked : r.seq = q.seq => r = q
    /\ conn.pc = "await" =>
         conn.seq > 0 /\ \A r \in Asked : r.seq = Awaited => r.op = conn.op

(* What the types need beside themselves: a number is left for the release. *)
BoundInv ==
    /\ phase # "released" => conn.seq < MaxSeq
    /\ conn.connected => phase # "released" /\ conn.seq > 0
    /\ conn.pc \in {"await", "ready_wait"} => phase # "released" /\ conn.seq > 0

(* A positive answer, in the network or kept for a repetition, was earned. *)
AnswerInv ==
    /\ \A d \in net : d.kind = "response" /\ d.mine =>
         /\ d.seq < dev.next
         /\ d.status = "ok" => \E q \in dev.done : q.seq = d.seq
    /\ dev.answer = "ok" /\ dev.next > 0 => \E q \in dev.done : q.seq + 1 = dev.next

SessionInv == TypeOK /\ BoundInv /\ NumberInv /\ AnswerInv /\ OkMeansDone

-----------------------------------------------------------------------------
(* Types *)

LEMMA FaultsType ==
    ASSUME faults \in 0 .. FaultBudget, Faulty \/ NotFaulty
    PROVE  faults' \in 0 .. FaultBudget
  BY SessionAssumption DEF Faulty, NotFaulty

(* Where a connection can be, and what a device's AR can be. *)
Places == {"idle", "await", "ready_wait", "dropped"}
ARStates == {"none", "parm", "ended", "ready", "data"}
Verdicts == {"ok", "refused", "withheld", "fault"}
Histories == SUBSET [op : Ops, seq : Seqs]

(* The updates of an RpcConn the actions make; the intervals stay closed. *)
LEMMA ConnUpdate ==
    ASSUME NEW c \in Conns
    PROVE  /\ \A p \in Places, o \in Ops, s \in 0 .. MaxSeq, l \in 0 .. Patience :
                [c EXCEPT !.pc = p, !.op = o, !.seq = s, !.left = l] \in Conns
           /\ \A o \in Ops, s \in 0 .. MaxSeq :
                [c EXCEPT !.op = o, !.seq = s] \in Conns
           /\ \A p \in Places, l \in 0 .. Patience :
                [c EXCEPT !.pc = p, !.left = l] \in Conns
           /\ \A l \in 0 .. Patience :
                [c EXCEPT !.left = l] \in Conns
           /\ \A p \in Places :
                [c EXCEPT !.pc = p] \in Conns
           /\ \A p \in Places, l \in 0 .. Patience, k \in BOOLEAN :
                [c EXCEPT !.pc = p, !.left = l, !.connected = k] \in Conns
           /\ \A p \in Places, s \in 0 .. MaxSeq, k \in BOOLEAN :
                [c EXCEPT !.pc = p, !.seq = s, !.connected = k] \in Conns
  <1> DEFINE S == 0 .. MaxSeq
             L == 0 .. Patience
  <1>1. c \in [pc : Places, op : Ops, seq : S, left : L, connected : BOOLEAN]
    BY DEF Conns, Places
  <1>2. Conns = [pc : Places, op : Ops, seq : S, left : L, connected : BOOLEAN]
    BY DEF Conns, Places
  <1> HIDE DEF S, L
  <1>3. \A p \in Places, o \in Ops, s \in S, l \in L :
           [c EXCEPT !.pc = p, !.op = o, !.seq = s, !.left = l] \in Conns
    BY <1>1, <1>2
  <1>4. \A o \in Ops, s \in S :
           [c EXCEPT !.op = o, !.seq = s] \in Conns
    BY <1>1, <1>2
  <1>5. \A p \in Places, l \in L :
           [c EXCEPT !.pc = p, !.left = l] \in Conns
    BY <1>1, <1>2
  <1>6. \A l \in L :
           [c EXCEPT !.left = l] \in Conns
    BY <1>1, <1>2
  <1>7. \A p \in Places :
           [c EXCEPT !.pc = p] \in Conns
    BY <1>1, <1>2
  <1>8. \A p \in Places, l \in L, k \in BOOLEAN :
           [c EXCEPT !.pc = p, !.left = l, !.connected = k] \in Conns
    BY <1>1, <1>2
  <1>9. \A p \in Places, s \in S, k \in BOOLEAN :
           [c EXCEPT !.pc = p, !.seq = s, !.connected = k] \in Conns
    BY <1>1, <1>2
  <1> QED BY <1>3, <1>4, <1>5, <1>6, <1>7, <1>8, <1>9 DEF S, L

(* The same for the device. *)
LEMMA DeviceUpdate ==
    ASSUME NEW v \in Devices
    PROVE  /\ \A a \in ARStates, n \in 0 .. MaxSeq, w \in Verdicts, c \in Seqs, D \in Histories :
                [v EXCEPT !.ar = a, !.next = n, !.answer = w, !.call = c, !.done = D] \in Devices
           /\ \A a \in ARStates, i \in 0 .. Retries : [v EXCEPT !.ar = a, !.resends = i] \in Devices
           /\ \A i \in 0 .. Retries : [v EXCEPT !.resends = i] \in Devices
           /\ \A a \in ARStates : [v EXCEPT !.ar = a] \in Devices
  <1> DEFINE N == 0 .. MaxSeq
             R == 0 .. Retries
  <1>1. Devices = [ar : ARStates, next : N, answer : Verdicts, done : Histories, resends : R,
                   call : Seqs]
    BY DEF Devices, ARStates, Verdicts, Histories
  <1> HIDE DEF N, R
  <1>2. \A a \in ARStates, n \in N, w \in Verdicts, c \in Seqs, D \in Histories :
          [v EXCEPT !.ar = a, !.next = n, !.answer = w, !.call = c, !.done = D] \in Devices
    BY <1>1
  <1>3. \A a \in ARStates, i \in R : [v EXCEPT !.ar = a, !.resends = i] \in Devices
    BY <1>1
  <1>4. \A i \in R : [v EXCEPT !.resends = i] \in Devices
    BY <1>1
  <1>5. \A a \in ARStates : [v EXCEPT !.ar = a] \in Devices
    BY <1>1
  <1> QED BY <1>2, <1>3, <1>4, <1>5 DEF N, R

(* What the types say of the fields. *)
LEMMA Fields ==
    ASSUME TypeOK
    PROVE  /\ conn.pc \in Places /\ conn.op \in Ops
           /\ conn.seq \in 0 .. MaxSeq /\ conn.left \in 0 .. Patience /\ conn.connected \in BOOLEAN
           /\ dev.ar \in ARStates /\ dev.next \in 0 .. MaxSeq
           /\ dev.answer \in Verdicts
           /\ dev.done \subseteq [op : Ops, seq : Seqs] /\ dev.resends \in 0 .. Retries
           /\ dev.call \in Seqs
           /\ \A r \in toDev : r.op \in Ops \union {"done"} /\ r.seq \in Seqs
           /\ \A d \in net : d.seq \in Seqs
  BY DEF TypeOK, Conns, Devices, Datagrams, Requests, Places, ARStates, Verdicts

(* What a call's request does: it is sent, or the send fails. *)
LEMMA RequestEffect ==
    ASSUME TypeOK, NEW op \in Ops, Request(op)
    PROVE  /\ conn' \in Conns
           /\ conn.pc = "idle" /\ conn.seq \in Seqs /\ conn.seq + 1 < MaxSeq
           /\ conn'.op = op /\ conn'.seq = conn.seq + 1 /\ conn'.connected = conn.connected
           /\ UNCHANGED <<net, dev, returned, misled>>
           /\ \/ /\ conn'.pc = "await" /\ conn'.left = Patience
                 /\ toDev' = toDev \union {[op |-> op, seq |-> conn.seq]}
                 /\ outcome' = "none" /\ UNCHANGED <<faults, phase>>
              \/ /\ conn'.pc = "idle"
                 /\ phase' = IF Essential(op) THEN "failed" ELSE phase
                 /\ outcome' = "error" /\ UNCHANGED toDev /\ Faulty
  <1>1. /\ conn.pc = "idle" /\ conn.seq \in Seqs /\ conn.seq + 1 < MaxSeq
        /\ conn.seq + 1 \in 0 .. MaxSeq /\ Patience \in 0 .. Patience
    BY Fields, SessionAssumption DEF Request, Seqs
  <1>2. conn' \in Conns
    <2>1. "await" \in Places
      BY DEF Places
    <2>2. [conn EXCEPT !.pc = "await", !.op = op, !.seq = conn.seq + 1, !.left = Patience] \in Conns
      BY <1>1, <2>1, ConnUpdate DEF TypeOK
    <2>3. [conn EXCEPT !.op = op, !.seq = conn.seq + 1] \in Conns
      BY <1>1, ConnUpdate DEF TypeOK
    <2> QED BY <2>2, <2>3, Zenon DEF Request
  <1>3. conn \in [pc : Places, op : Ops,
                  seq : 0 .. MaxSeq, left : 0 .. Patience, connected : BOOLEAN]
    BY DEF TypeOK, Conns, Places
  <1>4. /\ conn'.op = op /\ conn'.seq = conn.seq + 1 /\ conn'.connected = conn.connected
        /\ UNCHANGED <<net, dev, returned, misled>>
    BY <1>3 DEF Request
  <1>5. \/ /\ conn'.pc = "await" /\ conn'.left = Patience
           /\ toDev' = toDev \union {[op |-> op, seq |-> conn.seq]}
           /\ outcome' = "none" /\ UNCHANGED <<faults, phase>>
        \/ /\ conn'.pc = "idle"
           /\ phase' = IF Essential(op) THEN "failed" ELSE phase
           /\ outcome' = "error" /\ UNCHANGED toDev /\ Faulty
    BY <1>1, <1>3 DEF Request, Sent, NotFaulty
  <1> QED BY <1>1, <1>2, <1>4, <1>5

(* What a release does: nothing without an AR, else one number is used. *)
LEMMA ReleaseEffect ==
    ASSUME TypeOK, BoundInv, NEW pc \in {"idle", "dropped"}, release(pc)
    PROVE  /\ conn' \in Conns
           /\ conn'.pc = pc /\ conn'.connected = FALSE /\ conn'.op = conn.op /\ conn'.left = conn.left
           /\ \/ conn.connected /\ conn.seq \in Seqs /\ conn'.seq = conn.seq + 1
                 /\ \/ toDev' = toDev \union {[op |-> "release", seq |-> conn.seq]} /\ NotFaulty
                    \/ UNCHANGED toDev /\ Faulty
              \/ ~conn.connected /\ conn'.seq = conn.seq /\ UNCHANGED toDev /\ NotFaulty
  <1>1. conn.connected => conn.seq \in Seqs /\ conn.seq + 1 \in 0 .. MaxSeq
    BY Fields, SessionAssumption DEF BoundInv, Seqs
  <1>2. conn' \in Conns
    <2>1. pc \in Places /\ FALSE \in BOOLEAN
      BY DEF Places
    <2>2. CASE conn.connected
      <3>1. [conn EXCEPT !.pc = pc, !.seq = conn.seq + 1, !.connected = FALSE] \in Conns
        BY <1>1, <2>1, <2>2, ConnUpdate DEF TypeOK
      <3> QED BY <2>2, <3>1, Zenon DEF release
    <2>3. CASE ~conn.connected
      <3>1. [conn EXCEPT !.pc = pc] \in Conns
        BY <2>1, ConnUpdate DEF TypeOK
      <3> QED BY <2>3, <3>1, Zenon DEF release
    <2> QED BY <2>2, <2>3
  <1>3. conn \in [pc : Places, op : Ops,
                  seq : 0 .. MaxSeq, left : 0 .. Patience, connected : BOOLEAN]
    BY DEF TypeOK, Conns, Places
  <1>4. CASE conn.connected
    BY <1>1, <1>2, <1>3, <1>4 DEF release, Sent
  <1>5. CASE ~conn.connected
    BY <1>2, <1>3, <1>5 DEF release
  <1> QED BY <1>4, <1>5

(* What the end of a call does, a failure and a success. *)
LEMMA EndsEffect ==
    ASSUME TypeOK, NEW result \in {"refused", "error", "timeout"}, Ends(result)
    PROVE  /\ conn' \in Conns
           /\ conn'.pc = "idle" /\ conn'.left = 0 /\ conn'.op = conn.op /\ conn'.seq = conn.seq
           /\ conn'.connected = conn.connected
           /\ phase' = IF Essential(conn.op) THEN "failed" ELSE phase
           /\ outcome' \in {"refused", "error", "timeout"} /\ UNCHANGED returned
  <1>1. conn' \in Conns
    <2>1. "idle" \in Places /\ 0 \in 0 .. Patience
      BY SessionAssumption DEF Places
    <2> QED BY <2>1, ConnUpdate DEF Ends, TypeOK
  <1>2. conn \in [pc : Places, op : Ops,
                  seq : 0 .. MaxSeq, left : 0 .. Patience, connected : BOOLEAN]
    BY DEF TypeOK, Conns, Places
  <1> QED BY <1>1, <1>2 DEF Ends

LEMMA SucceedsEffect ==
    ASSUME TypeOK, Succeeds
    PROVE  /\ conn' \in Conns
           /\ conn'.pc = "idle" /\ conn'.left = 0 /\ conn'.op = conn.op /\ conn'.seq = conn.seq
           /\ conn'.connected <=> conn.connected \/ conn.op = "connect"
           /\ outcome' = "ok"
           /\ phase' = CASE conn.op \in {"connect", "prm_begin"} -> "connected"
                         [] conn.op = "prm_end" -> "param_ended"
                         [] OTHER -> phase
           /\ returned' = returned \union {[op |-> conn.op, seq |-> Awaited]}
  <1>1. (conn.connected \/ conn.op = "connect") \in BOOLEAN
    OBVIOUS
  <1>2. conn' \in Conns
    <2>1. "idle" \in Places /\ 0 \in 0 .. Patience
      BY SessionAssumption DEF Places
    <2> QED BY <1>1, <2>1, ConnUpdate DEF Succeeds, TypeOK
  <1>3. conn \in [pc : Places, op : Ops,
                  seq : 0 .. MaxSeq, left : 0 .. Patience, connected : BOOLEAN]
    BY DEF TypeOK, Conns, Places
  <1>4. conn'.connected <=> conn.connected \/ conn.op = "connect"
    BY <1>3 DEF Succeeds
  <1> QED BY <1>2, <1>3, <1>4 DEF Succeeds

(* The steps that change nothing of the session but where it waits. *)
LEMMA WaitEffect ==
    ASSUME TypeOK, NEW p \in Places, NEW l \in 0 .. Patience,
           \/ conn' = [conn EXCEPT !.pc = p, !.left = l]
           \/ conn' = [conn EXCEPT !.left = l] /\ p = conn.pc
    PROVE  /\ conn' \in Conns
           /\ conn'.pc = p /\ conn'.left = l /\ conn'.op = conn.op /\ conn'.seq = conn.seq
           /\ conn'.connected = conn.connected
  <1>1. conn' \in Conns
    <2>1. p \in Places
      BY Fields DEF Places
    <2>2. /\ [conn EXCEPT !.pc = p, !.left = l] \in Conns
          /\ [conn EXCEPT !.left = l] \in Conns
      BY <2>1, ConnUpdate DEF TypeOK
    <2> QED BY <2>2, Zenon
  <1>2. conn \in [pc : Places, op : Ops,
                  seq : 0 .. MaxSeq, left : 0 .. Patience, connected : BOOLEAN]
    BY DEF TypeOK, Conns, Places
  <1> QED BY <1>1, <1>2

(* What a device's answer is. *)
LEMMA AnswerType ==
    ASSUME NEW s \in Seqs, NEW a \in Verdicts
    PROVE  /\ Answer(s, a) \in Datagrams
           /\ Answer(s, a).mine = TRUE /\ Answer(s, a).seq = s
           /\ Answer(s, a).kind = IF a = "fault" THEN "fault" ELSE "response"
           /\ a # "fault" => Answer(s, a).status = a
  BY DEF Answer, Datagram, Datagrams, Verdicts

LEMMA ResultsType ==
    ASSUME TypeOK, NEW op \in Ops \ {"release"}, NEW res \in Results(op)
    PROVE  /\ res[1] \in {"none", "parm", "ended", "ready", "data"}
           /\ res[2] \in {"ok", "refused", "withheld", "fault"}
  BY Fields DEF Results, ARStates, Ops

LEMMA InitTypeOK == Init => TypeOK /\ BoundInv
  <1> SUFFICES ASSUME Init PROVE TypeOK /\ BoundInv
    OBVIOUS
  <1>1. conn \in Conns /\ conn.seq = 0 /\ conn.connected = FALSE /\ conn.pc = "idle"
    BY SessionAssumption DEF Init, Conns, Ops
  <1>2. dev \in Devices
    BY SessionAssumption DEF Init, Devices, Seqs
  <1>3. misled \in BOOLEAN
    BY DEF Init
  <1>4. /\ phase = "new" /\ outcome = "none" /\ net = {} /\ toDev = {} /\ faults = 0
        /\ returned = {}
    BY DEF Init
  <1> QED BY <1>1, <1>2, <1>3, <1>4, SessionAssumption DEF TypeOK, BoundInv, Phases

LEMMA RequestTypeOK ==
    ASSUME TypeOK, BoundInv, NEW op \in Ops, phase # "released", Request(op)
    PROVE  TypeOK' /\ BoundInv'
  <1>1. faults' \in 0 .. FaultBudget
    BY FaultsType, RequestEffect DEF TypeOK, NotFaulty
  <1>2. toDev' \subseteq Requests
    BY RequestEffect DEF TypeOK, Requests
  <1>3. phase' \in {phase, "failed"} /\ outcome' \in {"none", "error"}
    BY RequestEffect
  <1>4. conn.seq \in Nat
    BY Fields
  <1>5. /\ conn' \in Conns /\ conn'.seq = conn.seq + 1 /\ conn.seq + 1 < MaxSeq
        /\ conn'.connected = conn.connected /\ UNCHANGED <<net, dev, returned, misled>>
    BY RequestEffect
  <1> QED BY <1>1, <1>2, <1>3, <1>4, <1>5 DEF TypeOK, BoundInv, Phases

LEMMA CallerTypeOK == TypeOK /\ BoundInv /\ Caller => TypeOK' /\ BoundInv'
  <1> SUFFICES ASSUME TypeOK, BoundInv, Caller PROVE TypeOK' /\ BoundInv'
    OBVIOUS
  <1>1. CASE connect \/ prm_end \/ prm_begin \/ read_raw \/ write
    <2>1. phase # "released" /\ \E op \in Ops : Request(op)
      BY <1>1 DEF connect, prm_end, prm_begin, read_raw, write, RecordsAllowed, Ops
    <2> QED BY <2>1, RequestTypeOK
  <1>2. CASE application_ready
    <2>1. Patience \in 0 .. Patience /\ "ready_wait" \in Places
      BY SessionAssumption DEF Places
    <2>2. conn' = [conn EXCEPT !.pc = "ready_wait", !.left = Patience]
      BY <1>2 DEF application_ready
    <2>3. /\ conn' \in Conns /\ conn'.pc = "ready_wait" /\ conn'.seq = conn.seq
          /\ conn'.connected = conn.connected
      BY <2>1, <2>2, WaitEffect
    <2> QED BY <1>2, <2>3 DEF application_ready, TypeOK, BoundInv
  <1>3. CASE Release \/ Drop
    <2>1. PICK pc \in {"idle", "dropped"} : release(pc)
      BY <1>3 DEF Release, Drop
    <2>2. conn' \in Conns /\ conn'.pc = pc /\ conn'.connected = FALSE
      BY <2>1, ReleaseEffect
    <2>3. faults' \in 0 .. FaultBudget
      BY <2>1, FaultsType, ReleaseEffect DEF TypeOK
    <2>4. toDev' \subseteq Requests
      <3>1. conn.seq \in Seqs => [op |-> "release", seq |-> conn.seq] \in Requests
        BY DEF Requests, Ops
      <3> QED BY <2>1, <3>1, ReleaseEffect DEF TypeOK
    <2>5. phase' = "released" /\ UNCHANGED <<outcome, net, dev, returned, misled>>
      BY <1>3 DEF Release, Drop
    <2> QED BY <2>2, <2>3, <2>4, <2>5 DEF TypeOK, BoundInv, Phases
  <1> QED BY <1>1, <1>2, <1>3 DEF Caller

LEMMA ReceiveTypeOK == TypeOK /\ BoundInv /\ Receive => TypeOK' /\ BoundInv'
  <1> SUFFICES ASSUME TypeOK, BoundInv, Receive PROVE TypeOK' /\ BoundInv'
    OBVIOUS
  <1>0. conn.pc = "await" => Awaited \in Seqs
    BY Fields, SessionAssumption DEF BoundInv, Awaited, Seqs
  <1>1. ASSUME NEW d \in net, RecvSkip(d) \/ ReadySkip(d) PROVE TypeOK' /\ BoundInv'
    BY <1>1 DEF RecvSkip, ReadySkip, TypeOK, BoundInv
  <1>2. ASSUME NEW d \in net, RecvAnswer(d), d.status = "ok" PROVE TypeOK' /\ BoundInv'
    <2>1. Succeeds /\ Receiving
      BY <1>2 DEF RecvAnswer
    <2>2. conn.op \in Ops /\ phase # "released" /\ conn.seq > 0 /\ conn.seq < MaxSeq
      BY <2>1, Fields DEF Receiving, BoundInv
    <2>3. returned' \subseteq [op : Ops, seq : Seqs]
      BY <1>0, <2>1, <2>2, SucceedsEffect DEF Receiving, TypeOK
    <2>4. /\ phase' \in {phase, "connected", "param_ended"} /\ conn' \in Conns
          /\ conn'.seq = conn.seq /\ conn'.pc = "idle" /\ outcome' = "ok"
      BY <2>1, SucceedsEffect
    <2>5. UNCHANGED <<toDev, dev, faults, misled>> /\ net' \subseteq net
      BY <1>2 DEF RecvAnswer
    <2> QED BY <2>2, <2>3, <2>4, <2>5 DEF TypeOK, BoundInv, Phases
  <1>3. ASSUME NEW result \in {"refused", "error", "timeout"}, Ends(result), conn.pc = "await",
               net' \subseteq net, UNCHANGED <<toDev, dev, misled>>, Faulty \/ NotFaulty
        PROVE  TypeOK' /\ BoundInv'
    <2>1. faults' \in 0 .. FaultBudget
      BY <1>3, FaultsType DEF TypeOK
    <2>2. phase' \in {phase, "failed"}
      BY <1>3, EndsEffect
    <2>3. /\ conn' \in Conns /\ conn'.pc = "idle" /\ conn'.seq = conn.seq
          /\ conn'.connected = conn.connected /\ UNCHANGED returned
          /\ outcome' \in {"refused", "error", "timeout"}
      BY <1>3, EndsEffect
    <2> QED BY <1>3, <2>1, <2>2, <2>3 DEF TypeOK, BoundInv, Phases
  <1>4. ASSUME NEW d \in net, RecvAnswer(d), d.status # "ok" PROVE TypeOK' /\ BoundInv'
    BY <1>3, <1>4 DEF RecvAnswer, Receiving, NotFaulty
  <1>5. ASSUME NEW d \in net, RecvError(d) PROVE TypeOK' /\ BoundInv'
    BY <1>3, <1>5 DEF RecvError, Receiving, NotFaulty
  <1>6. CASE RecvFails \/ Timeout
    BY <1>3, <1>6 DEF RecvFails, Timeout, Receiving, NotFaulty
  <1>7. ASSUME conn.pc = "ready_wait", conn' = [conn EXCEPT !.pc = "idle", !.left = 0]
        PROVE  /\ conn' \in Conns /\ conn'.pc = "idle" /\ conn'.seq = conn.seq
               /\ conn'.connected = conn.connected
    <2>1. 0 \in 0 .. Patience /\ "idle" \in Places
      BY SessionAssumption DEF Places
    <2> QED BY <1>7, <2>1, WaitEffect
  <1>8. ASSUME NEW d \in net, ReadyConfirm(d) PROVE TypeOK' /\ BoundInv'
    <2>1. /\ conn' \in Conns /\ conn'.pc = "idle" /\ conn'.seq = conn.seq
          /\ conn'.connected = conn.connected
      BY <1>7, <1>8 DEF ReadyConfirm, ReadyTaken, ReadyReceiving
    <2>2. toDev' \subseteq Requests
      BY <1>8, Fields DEF ReadyConfirm, TypeOK, Requests
    <2>3. misled' \in BOOLEAN
      BY <1>8, Zenon DEF ReadyConfirm, ReadyTaken
    <2>4. faults' \in 0 .. FaultBudget
      BY <1>8, FaultsType DEF ReadyConfirm, ReadyTaken, TypeOK
    <2>5. /\ conn.pc = "ready_wait" /\ phase' = "ready" /\ outcome' = "ok" /\ net' \subseteq net
          /\ UNCHANGED <<dev, returned>>
      BY <1>8 DEF ReadyConfirm, ReadyTaken, ReadyReceiving
    <2> QED BY <2>1, <2>2, <2>3, <2>4, <2>5 DEF TypeOK, BoundInv, Phases
  <1>9. CASE ReadyFails
    <2>1. faults' \in 0 .. FaultBudget
      BY <1>9, FaultsType DEF ReadyFails, TypeOK
    <2>2. /\ conn' \in Conns /\ conn'.pc = "idle" /\ conn'.seq = conn.seq
          /\ conn'.connected = conn.connected
      BY <1>7, <1>9 DEF ReadyFails
    <2> QED BY <1>9, <2>1, <2>2 DEF ReadyFails, TypeOK, BoundInv, Phases
  <1> QED BY <1>1, <1>2, <1>4, <1>5, <1>6, <1>8, <1>9 DEF Receive

(* What executing a request does to the device: nothing, or it is the next one. *)
LEMMA ExecuteEffect ==
    ASSUME TypeOK, NEW r \in toDev, DevExecute(r)
    PROVE  /\ r.op \in Ops /\ r.seq \in Seqs /\ r \in [op : Ops, seq : Seqs]
           /\ toDev' \in {toDev, toDev \ {r}} /\ (Faulty \/ NotFaulty)
           /\ UNCHANGED <<conn, phase, outcome, returned, misled>>
           /\ \/ r.seq + 1 < dev.next /\ UNCHANGED <<dev, net>>
              \/ /\ r.seq + 1 = dev.next /\ UNCHANGED dev
                 /\ net' = net \union {Answer(r.seq, dev.answer)}
              \/ /\ r.seq >= dev.next /\ dev' \in Devices
                 /\ dev'.next = r.seq + 1 /\ dev'.resends = dev.resends
                 /\ \E res \in IF r.op = "release" THEN {<<"none", "ok">>} ELSE Results(r.op) :
                      dev'.ar = res[1] /\ dev'.answer = res[2]
                 /\ dev'.done = IF dev'.answer = "ok" THEN dev.done \union {r} ELSE dev.done
                 /\ net' = net \union {Answer(r.seq, dev'.answer)}
  <1>1. r.op \in Ops /\ r.seq \in Seqs /\ r \in [op : Ops, seq : Seqs]
    BY DEF DevExecute, TypeOK, Requests
  <1>2. /\ toDev' \in {toDev, toDev \ {r}} /\ (Faulty \/ NotFaulty)
        /\ UNCHANGED <<conn, phase, outcome, returned, misled>>
    BY DEF DevExecute
  <1>3. ASSUME r.seq >= dev.next,
               NEW res, res \in IF r.op = "release" THEN {<<"none", "ok">>} ELSE Results(r.op),
               dev' = [dev EXCEPT !.ar = res[1], !.next = r.seq + 1, !.answer = res[2],
                                  !.call = IF r.op = "prm_end" /\ res[2] = "ok"
                                           THEN r.seq ELSE @,
                                  !.done = IF res[2] = "ok" THEN @ \union {r} ELSE @]
        PROVE  /\ dev' \in Devices
               /\ dev'.next = r.seq + 1 /\ dev'.resends = dev.resends
               /\ dev'.ar = res[1] /\ dev'.answer = res[2]
               /\ dev'.done = IF dev'.answer = "ok" THEN dev.done \union {r} ELSE dev.done
    <2>1. res[1] \in ARStates /\ res[2] \in Verdicts
      BY <1>1, <1>3, ResultsType DEF ARStates, Verdicts
    <2>2. r.seq + 1 \in 0 .. MaxSeq
      BY <1>1, SessionAssumption DEF Seqs
    <2> DEFINE D == IF res[2] = "ok" THEN dev.done \union {r} ELSE dev.done
               c == IF r.op = "prm_end" /\ res[2] = "ok" THEN r.seq ELSE dev.call
    <2>3. D \in Histories /\ c \in Seqs
      BY <1>1, Fields DEF Histories
    <2>4. dev' = [dev EXCEPT !.ar = res[1], !.next = r.seq + 1, !.answer = res[2], !.call = c,
                             !.done = D]
      BY <1>3, Zenon
    <2> HIDE DEF D, c
    <2>5. dev \in Devices
      BY DEF TypeOK
    <2>6. [dev EXCEPT !.ar = res[1], !.next = r.seq + 1, !.answer = res[2], !.call = c,
                      !.done = D] \in Devices
      BY <2>1, <2>2, <2>3, <2>5, DeviceUpdate
    <2>7. /\ dev'.next = r.seq + 1 /\ dev'.resends = dev.resends
          /\ dev'.ar = res[1] /\ dev'.answer = res[2] /\ dev'.done = D
      BY <2>4, <2>5 DEF Devices
    <2> QED BY <2>4, <2>6, <2>7 DEF D
  <1>4. CASE r.seq >= dev.next
    <2>1. dev.next \in Nat /\ r.seq \in Nat
      BY <1>1, Fields DEF Seqs
    <2>2. PICK res \in IF r.op = "release" THEN {<<"none", "ok">>} ELSE Results(r.op) :
            /\ dev' = [dev EXCEPT !.ar = res[1], !.next = r.seq + 1, !.answer = res[2],
                                  !.call = IF r.op = "prm_end" /\ res[2] = "ok"
                                           THEN r.seq ELSE @,
                                  !.done = IF res[2] = "ok" THEN @ \union {r} ELSE @]
            /\ net' = net \union {Answer(r.seq, res[2])}
      <3>1. ~(r.seq + 1 = dev.next) /\ ~(r.seq + 1 < dev.next)
        BY <1>4, <2>1
      <3> QED BY <1>4, <3>1, Zenon DEF DevExecute
    <2> QED BY <1>1, <1>2, <1>3, <1>4, <2>2
  <1>5. CASE ~(r.seq >= dev.next)
    BY <1>1, <1>2, <1>5 DEF DevExecute
  <1> QED BY <1>4, <1>5

LEMMA DeviceTypeOK == TypeOK /\ BoundInv /\ Device => TypeOK' /\ BoundInv'
  <1> SUFFICES ASSUME TypeOK, BoundInv, Device PROVE TypeOK' /\ BoundInv'
    OBVIOUS
  <1>1. ASSUME NEW r \in toDev, DevExecute(r) PROVE TypeOK' /\ BoundInv'
    <2>1. faults' \in 0 .. FaultBudget /\ toDev' \subseteq toDev
      BY <1>1, ExecuteEffect, FaultsType DEF TypeOK
    <2>2. UNCHANGED <<conn, phase, outcome, returned, misled>> /\ r.seq \in Seqs
      BY <1>1, ExecuteEffect
    <2>3. dev' \in Devices /\ dev'.answer \in Verdicts
      BY <1>1, ExecuteEffect DEF TypeOK, Devices, Verdicts
    <2>4. net' \subseteq net \union {Answer(r.seq, dev'.answer)}
      BY <1>1, ExecuteEffect
    <2>5. net' \subseteq Datagrams
      <3>1. Answer(r.seq, dev'.answer) \in Datagrams
        BY <2>2, <2>3, AnswerType
      <3> QED BY <2>4, <3>1 DEF TypeOK
    <2> QED BY <2>1, <2>2, <2>3, <2>5 DEF TypeOK, BoundInv
  <1>2. ASSUME NEW r \in toDev, DevDone(r) PROVE TypeOK' /\ BoundInv'
    <2>1. "data" \in ARStates
      BY DEF ARStates
    <2>2. [dev EXCEPT !.ar = "data"] \in Devices
      BY <2>1, DeviceUpdate DEF TypeOK
    <2> QED BY <1>2, <2>2 DEF DevDone, TypeOK, BoundInv
  <1>3. CASE DevReady \/ DevRepeat \/ DevAbort
    <2>1. Announcement \in Datagrams
      BY Fields DEF Announcement, Datagram, Datagrams
    <2>2. faults' \in 0 .. FaultBudget
      BY <1>3, FaultsType DEF DevReady, DevRepeat, DevAbort, DevTimer, TypeOK, NotFaulty
    <2>3. {"ready", "none"} \subseteq ARStates /\ 0 \in 0 .. Retries
      BY SessionAssumption DEF ARStates
    <2>4. DevReady => dev' \in Devices
      <3>1. [dev EXCEPT !.ar = "ready", !.resends = 0] \in Devices
        BY <2>3, DeviceUpdate DEF TypeOK
      <3> QED BY <3>1 DEF DevReady
    <2>5. DevRepeat => dev' \in Devices
      <3>1. ASSUME DevRepeat PROVE [dev EXCEPT !.resends = dev.resends + 1] \in Devices
        <4>1. dev.resends + 1 \in 0 .. Retries
          BY <3>1, Fields, SessionAssumption DEF DevRepeat
        <4> QED BY <4>1, DeviceUpdate DEF TypeOK
      <3> QED BY <3>1 DEF DevRepeat
    <2>6. DevAbort => dev' \in Devices
      <3>1. [dev EXCEPT !.ar = "none"] \in Devices
        BY <2>3, DeviceUpdate DEF TypeOK
      <3> QED BY <3>1 DEF DevAbort
    <2>7. net' \subseteq net \union {Announcement} /\ UNCHANGED <<conn, phase, outcome, toDev, returned, misled>>
      BY <1>3 DEF DevReady, DevRepeat, DevAbort
    <2> QED BY <1>3, <2>1, <2>2, <2>4, <2>5, <2>6, <2>7 DEF TypeOK, BoundInv
  <1> QED BY <1>1, <1>2, <1>3 DEF Device

LEMMA NextTypeOK == TypeOK /\ BoundInv /\ [Next]_vars => TypeOK' /\ BoundInv'
  <1> SUFFICES ASSUME TypeOK, BoundInv, [Next]_vars PROVE TypeOK' /\ BoundInv'
    OBVIOUS
  <1>1. CASE Tick
    <2>1. faults' \in 0 .. FaultBudget
      BY <1>1, FaultsType DEF Tick, TypeOK
    <2>2. conn.left - 1 \in 0 .. Patience /\ conn.pc \in Places
      BY <1>1, Fields, SessionAssumption DEF Tick, Places
    <2>3. conn' = [conn EXCEPT !.left = conn.left - 1]
      BY <1>1 DEF Tick
    <2>4. /\ conn' \in Conns /\ conn'.pc = conn.pc /\ conn'.seq = conn.seq
          /\ conn'.connected = conn.connected
      BY <2>2, <2>3, WaitEffect
    <2> QED BY <1>1, <2>1, <2>4 DEF Tick, TypeOK, BoundInv
  <1>2. CASE Lose
    <2>1. faults' \in 0 .. FaultBudget
      BY <1>2, FaultsType DEF Lose, TypeOK
    <2> QED BY <1>2, <2>1 DEF Lose, TypeOK, BoundInv
  <1>3. ASSUME NEW k \in {"response", "echo", "fault", "appready"}, Foreign(k) PROVE TypeOK' /\ BoundInv'
    <2>1. faults' \in 0 .. FaultBudget
      BY <1>3, FaultsType DEF Foreign, TypeOK
    <2>2. Awaited \in Seqs
      BY <1>3, Fields, SessionAssumption DEF Foreign, BoundInv, Awaited, Seqs
    <2>3. Datagram(k, FALSE, Awaited, "ok") \in Datagrams
      BY <2>2 DEF Datagram, Datagrams
    <2> QED BY <1>3, <2>1, <2>3 DEF Foreign, TypeOK, BoundInv
  <1>4. CASE UNCHANGED vars
    BY <1>4 DEF vars, TypeOK, BoundInv
  <1> QED BY <1>1, <1>2, <1>3, <1>4, CallerTypeOK, ReceiveTypeOK, DeviceTypeOK DEF Next

(* Every field of RpcConn, every datagram and the device's AR keep their types, and *)
(* the request numbers last for the release of every connection.                    *)
THEOREM TypeCorrect == Spec => []TypeOK
  <1> QED BY InitTypeOK, NextTypeOK, PTL DEF Spec

-----------------------------------------------------------------------------
(* The remaining steps, field by field *)

Same == conn'.op = conn.op /\ conn'.seq = conn.seq /\ conn'.connected = conn.connected
DevSame == dev'.next = dev.next /\ dev'.answer = dev.answer /\ dev'.done = dev.done

LEMMA WaitSteps ==
    ASSUME TypeOK
    PROVE  /\ application_ready => Same /\ conn'.pc = "ready_wait" /\ conn'.left = Patience
           /\ \A d : ReadyConfirm(d) => Same /\ conn'.pc = "idle"
           /\ ReadyFails => Same /\ conn'.pc = "idle"
           /\ Tick => Same /\ conn'.pc = conn.pc /\ conn'.left = conn.left - 1
  <1>1. conn \in [pc : Places, op : Ops, seq : 0 .. MaxSeq, left : 0 .. Patience, connected : BOOLEAN]
    BY DEF TypeOK, Conns, Places
  <1>2. application_ready => Same /\ conn'.pc = "ready_wait" /\ conn'.left = Patience
    BY <1>1 DEF application_ready, Same
  <1>3. \A d : ReadyConfirm(d) => Same /\ conn'.pc = "idle"
    BY <1>1 DEF ReadyConfirm, ReadyTaken, Same
  <1>4. ReadyFails => Same /\ conn'.pc = "idle"
    BY <1>1 DEF ReadyFails, Same
  <1>5. Tick => Same /\ conn'.pc = conn.pc /\ conn'.left = conn.left - 1
    BY <1>1 DEF Tick, Same
  <1> QED BY <1>2, <1>3, <1>4, <1>5

LEMMA DeviceSteps ==
    ASSUME TypeOK
    PROVE  /\ DevReady => DevSame /\ dev'.ar = "ready"
           /\ DevRepeat => DevSame /\ dev'.ar = "ready"
           /\ DevAbort => DevSame /\ dev'.ar = "none"
           /\ \A r : DevDone(r) =>
                DevSame /\ (dev.ar = "none" => dev'.ar = "none")
  <1>1. dev \in [ar : ARStates, next : 0 .. MaxSeq, answer : Verdicts, done : Histories,
                 resends : 0 .. Retries, call : Seqs]
    BY DEF TypeOK, Devices, ARStates, Verdicts, Histories
  <1>2. DevReady => DevSame /\ dev'.ar = "ready"
    BY <1>1 DEF DevReady, DevSame
  <1>3. DevRepeat => DevSame /\ dev'.ar = "ready"
    BY <1>1 DEF DevRepeat, DevSame
  <1>4. DevAbort => DevSame /\ dev'.ar = "none"
    BY <1>1 DEF DevAbort, DevSame
  <1>5. \A r : DevDone(r) => DevSame /\ (dev.ar = "none" => dev'.ar = "none")
    BY <1>1 DEF DevDone, DevSame
  <1> QED BY <1>2, <1>3, <1>4, <1>5

(* The steps that take part in no call: no number given, nothing executed, nothing *)
(* answered, nothing returned.                                                     *)
Quiet ==
    /\ conn'.seq = conn.seq
    /\ conn'.pc = "await" => conn.pc = "await" /\ conn'.op = conn.op
    /\ DevSame
    /\ \A r \in toDev' : r \in toDev \/ r.op = "done"
    /\ \A d \in net' : d \in net \/ ~(d.kind = "response" /\ d.mine)
    /\ returned' = returned

(* Every step is quiet or is one of four: a request, a release, the answer that *)
(* ends a call well, the execution of a request.                                *)
LEMMA StepKinds ==
    ASSUME TypeOK, [Next]_vars
    PROVE  \/ Quiet
           \/ \E op \in Ops : Request(op)
           \/ \E pc \in {"idle", "dropped"} : release(pc) /\ UNCHANGED <<net, dev, returned, misled>>
           \/ \E d \in net : RecvAnswer(d) /\ Succeeds
           \/ \E r \in toDev : DevExecute(r)
  <1>1. CASE connect \/ prm_end \/ prm_begin \/ read_raw \/ write
    BY <1>1 DEF connect, prm_end, prm_begin, read_raw, write, Ops
  <1>2. CASE application_ready
    BY <1>2, WaitSteps DEF Quiet, Same, DevSame, application_ready
  <1>3. CASE Release \/ Drop
    BY <1>3 DEF Release, Drop
  <1>4. ASSUME NEW d \in net, RecvSkip(d) \/ ReadySkip(d) PROVE Quiet
    BY <1>4 DEF RecvSkip, ReadySkip, Quiet, DevSame
  <1>5. ASSUME NEW result \in {"refused", "error", "timeout"}, Ends(result),
               net' \subseteq net, UNCHANGED <<toDev, dev>>
        PROVE  Quiet
    BY <1>5, EndsEffect DEF Quiet, DevSame
  <1>6. ASSUME NEW d \in net, RecvAnswer(d) \/ RecvError(d), ~(RecvAnswer(d) /\ Succeeds)
        PROVE  Quiet
    BY <1>5, <1>6 DEF RecvAnswer, RecvError
  <1>7. CASE RecvFails \/ Timeout
    BY <1>5, <1>7 DEF RecvFails, Timeout
  <1>8. ASSUME NEW d \in net, ReadyConfirm(d) PROVE Quiet
    <2>1. Same /\ conn'.pc = "idle"
      BY <1>8, WaitSteps
    <2> QED BY <1>8, <2>1 DEF Quiet, Same, DevSame, ReadyConfirm, ReadyTaken
  <1>9. CASE ReadyFails
    BY <1>9, WaitSteps DEF Quiet, Same, DevSame, ReadyFails
  <1>10. CASE DevReady \/ DevRepeat \/ DevAbort
    <2>1. ~(Announcement.kind = "response")
      BY DEF Announcement, Datagram
    <2> QED BY <1>10, <2>1, DeviceSteps DEF Quiet, DevReady, DevRepeat, DevAbort
  <1>11. ASSUME NEW r \in toDev, DevDone(r) PROVE Quiet
    <2>1. DevSame
      BY <1>11, DeviceSteps
    <2> QED BY <1>11, <2>1 DEF Quiet, DevDone
  <1>12. CASE Tick
    BY <1>12, WaitSteps DEF Quiet, Same, DevSame, Tick
  <1>13. CASE Lose
    BY <1>13 DEF Lose, Quiet, DevSame
  <1>14. ASSUME NEW k \in {"response", "echo", "fault", "appready"}, Foreign(k) PROVE Quiet
    BY <1>14 DEF Foreign, Quiet, DevSame, Datagram
  <1>15. CASE UNCHANGED vars
    BY <1>15 DEF vars, Quiet, DevSame
  <1> QED
    BY <1>1, <1>2, <1>3, <1>4, <1>6, <1>7, <1>8, <1>9, <1>10, <1>11, <1>12, <1>13, <1>14, <1>15
    DEF Next, Caller, Receive, Device

-----------------------------------------------------------------------------
(* Ok means done *)

LEMMA InitSession == Init => SessionInv
  BY InitTypeOK DEF Init, SessionInv, NumberInv, AnswerInv, OkMeansDone, Asked

LEMMA NextSession == SessionInv /\ [Next]_vars => SessionInv'
  <1> SUFFICES ASSUME SessionInv, [Next]_vars PROVE NumberInv' /\ AnswerInv' /\ OkMeansDone'
    BY NextTypeOK DEF SessionInv
  <1>a. TypeOK /\ BoundInv /\ NumberInv /\ AnswerInv /\ OkMeansDone
    BY DEF SessionInv
  <1>b. /\ conn.seq \in Nat /\ dev.next \in Nat /\ dev.done \subseteq [op : Ops, seq : Seqs]
        /\ \A r \in Asked : r.seq \in Nat /\ r.seq < conn.seq
        /\ \A d \in net : d.seq \in Nat
    BY <1>a, Fields DEF Seqs, Asked, NumberInv
  <1>1. CASE Quiet
    <2>1. Asked' \subseteq Asked
      BY <1>1 DEF Quiet, DevSame, Asked
    <2>2. NumberInv'
      BY <1>1, <1>a, <2>1 DEF Quiet, NumberInv, Awaited
    <2>3. AnswerInv'
      BY <1>1, <1>a DEF Quiet, DevSame, AnswerInv
    <2> QED BY <1>1, <1>a, <2>2, <2>3 DEF Quiet, DevSame, OkMeansDone
  <1>2. ASSUME NEW op \in Ops, Request(op) PROVE NumberInv' /\ AnswerInv' /\ OkMeansDone'
    <2>1. /\ conn'.seq = conn.seq + 1 /\ conn'.op = op /\ UNCHANGED <<net, dev, returned, misled>>
          /\ \/ toDev' = toDev \union {[op |-> op, seq |-> conn.seq]}
             \/ toDev' = toDev /\ conn'.pc = "idle"
      BY <1>2, <1>a, RequestEffect
    <2>2. \A r \in Asked' : \/ r \in Asked
                            \/ r = [op |-> op, seq |-> conn.seq]
      BY <2>1 DEF Asked
    <2>3. NumberInv'
      BY <1>a, <1>b, <2>1, <2>2 DEF NumberInv, Awaited
    <2> QED BY <1>a, <2>1, <2>3 DEF AnswerInv, OkMeansDone
  <1>3. ASSUME NEW pc \in {"idle", "dropped"}, release(pc), UNCHANGED <<net, dev, returned, misled>>
        PROVE  NumberInv' /\ AnswerInv' /\ OkMeansDone'
    <2>1. /\ conn'.pc = pc
          /\ \/ conn'.seq = conn.seq + 1
                /\ toDev' \subseteq toDev \union {[op |-> "release", seq |-> conn.seq]}
             \/ conn'.seq = conn.seq /\ toDev' = toDev
      BY <1>3, <1>a, ReleaseEffect
    <2>2. \A r \in Asked' : \/ r \in Asked
                            \/ r = [op |-> "release", seq |-> conn.seq] /\ conn'.seq = conn.seq + 1
      BY <1>3, <2>1 DEF Asked
    <2>3. NumberInv'
      BY <1>3, <1>a, <1>b, <2>1, <2>2 DEF NumberInv, Awaited
    <2> QED BY <1>a, <1>3, <2>3 DEF AnswerInv, OkMeansDone
  <1>4. ASSUME NEW d \in net, RecvAnswer(d), Succeeds
        PROVE  NumberInv' /\ AnswerInv' /\ OkMeansDone'
    <2>1. /\ conn.pc = "await" /\ d.kind = "response" /\ d.mine /\ d.seq = Awaited
          /\ net' \subseteq net /\ UNCHANGED <<toDev, dev>>
      BY <1>4 DEF RecvAnswer, Receiving, IsAnswer
    <2>2. /\ conn'.pc = "idle" /\ conn'.seq = conn.seq
          /\ returned' = returned \union {[op |-> conn.op, seq |-> Awaited]}
      BY <1>4, <1>a, SucceedsEffect
    <2>3. d.status = "ok"
      <3>1. outcome' = "ok"
        BY <1>4 DEF Succeeds
      <3> QED BY <1>4, <3>1 DEF RecvAnswer, Ends
    <2>4. PICK q \in dev.done : q.seq = Awaited
      BY <1>a, <2>1, <2>3 DEF AnswerInv
    <2>5. q.op = conn.op /\ q \in [op : Ops, seq : Seqs]
      BY <1>a, <1>b, <2>1, <2>4 DEF NumberInv, Asked
    <2>6. [op |-> conn.op, seq |-> Awaited] = q
      BY <2>4, <2>5
    <2>7. OkMeansDone'
      BY <1>a, <2>1, <2>2, <2>6 DEF OkMeansDone
    <2>8. Asked' = Asked
      BY <2>1 DEF Asked
    <2> QED BY <1>a, <2>1, <2>2, <2>7, <2>8 DEF NumberInv, AnswerInv
  <1>5. ASSUME NEW r \in toDev, DevExecute(r) PROVE NumberInv' /\ AnswerInv' /\ OkMeansDone'
    <2>1. /\ r.op \in Ops /\ r.seq \in Seqs /\ toDev' \subseteq toDev
          /\ UNCHANGED <<conn, phase, outcome, returned, misled>>
      BY <1>5, <1>a, ExecuteEffect
    <2>2. r \in Asked /\ r.seq \in Nat
      BY <2>1 DEF Asked, Ops, Seqs
    <2>3. Asked' \subseteq Asked /\ dev.done \subseteq dev'.done
      BY <1>5, <1>a, <2>1, <2>2, ExecuteEffect DEF Asked
    <2>4. NumberInv'
      BY <1>a, <2>1, <2>3 DEF NumberInv, Awaited
    <2>5. OkMeansDone'
      BY <1>a, <2>1, <2>3 DEF OkMeansDone
    <2>6. CASE UNCHANGED dev /\ (UNCHANGED net \/ (r.seq + 1 = dev.next
                                   /\ net' = net \union {Answer(r.seq, dev.answer)}))
      <3>1. dev.answer \in Verdicts
        BY <1>a, Fields
      <3>2. /\ Answer(r.seq, dev.answer).seq = r.seq
            /\ Answer(r.seq, dev.answer).kind = "response" /\ Answer(r.seq, dev.answer).status = "ok"
                 => dev.answer = "ok"
        BY <3>1 DEF Answer, Datagram, Verdicts
      <3>3. r.seq + 1 = dev.next /\ dev.answer = "ok" => \E q \in dev.done : q.seq = r.seq
        BY <1>a, <1>b, <2>2 DEF AnswerInv, Seqs
      <3> QED BY <1>a, <1>b, <2>2, <2>4, <2>5, <2>6, <3>2, <3>3 DEF AnswerInv
    <2>7. CASE /\ r.seq >= dev.next /\ dev'.next = r.seq + 1 /\ dev' \in Devices
               /\ dev'.done = IF dev'.answer = "ok" THEN dev.done \union {r} ELSE dev.done
               /\ net' = net \union {Answer(r.seq, dev'.answer)}
      <3>1. dev'.answer \in Verdicts
        BY <2>7 DEF Devices, Verdicts
      <3>2. /\ Answer(r.seq, dev'.answer).seq = r.seq
            /\ Answer(r.seq, dev'.answer).kind = "response" /\ Answer(r.seq, dev'.answer).status = "ok"
                 => dev'.answer = "ok"
        BY <3>1 DEF Answer, Datagram, Verdicts
      <3>3. dev'.answer = "ok" => r \in dev'.done
        BY <2>7
      <3> QED BY <1>a, <1>b, <2>2, <2>3, <2>4, <2>5, <2>7, <3>2, <3>3 DEF AnswerInv
    <2> QED BY <1>5, <1>a, <2>6, <2>7, ExecuteEffect
  <1> QED BY <1>1, <1>2, <1>3, <1>4, <1>5, <1>a, StepKinds

LEMMA SessionInvariant == Spec => []SessionInv
  <1> QED BY InitSession, NextSession, PTL DEF Spec

(* A call of RpcConn that returned Ok is a call the device executed with success:   *)
(* next_rpc_response never takes a late, a repeated or somebody else's answer for   *)
(* it, however many datagrams are lost, repeated or delayed.                        *)
THEOREM OkIsEarned == Spec => []OkMeansDone
  <1>1. SessionInv => OkMeansDone
    BY DEF SessionInv
  <1> QED BY <1>1, SessionInvariant, PTL

-----------------------------------------------------------------------------
(* The phases of an AR *)

(* Only the end of a connection sends a release, and a caller that waits for     *)
(* ApplicationReady has ended the parameter phase.                               *)
PhaseInv ==
    /\ phase # "released" => \A r \in toDev : r.op # "release"
    /\ conn.pc = "ready_wait" => phase = "param_ended"

LEMMA NextPhase == SessionInv /\ PhaseInv /\ [Next]_vars => PhaseInv'
  <1> SUFFICES ASSUME SessionInv, PhaseInv, [Next]_vars PROVE PhaseInv'
    OBVIOUS
  <1>a. TypeOK /\ BoundInv
    BY DEF SessionInv
  <1> USE DEF PhaseInv
  <1>1. CASE connect \/ prm_end \/ prm_begin \/ read_raw \/ write
    <2>1. PICK op \in Ops \ {"release"} : Request(op) /\ phase # "released"
      BY <1>1 DEF connect, prm_end, prm_begin, read_raw, write, RecordsAllowed, Ops
    <2>2. /\ conn'.pc \in {"await", "idle"}
          /\ toDev' \subseteq toDev \union {[op |-> op, seq |-> conn.seq]}
      BY <1>a, <2>1, RequestEffect
    <2> QED BY <2>1, <2>2
  <1>2. CASE application_ready
    BY <1>2 DEF application_ready
  <1>3. CASE Release \/ Drop
    <2>1. PICK pc \in {"idle", "dropped"} : release(pc) /\ phase' = "released"
      BY <1>3 DEF Release, Drop
    <2>2. conn'.pc = pc
      BY <1>a, <2>1, ReleaseEffect
    <2> QED BY <2>1, <2>2
  <1>4. ASSUME NEW d \in net, RecvSkip(d) \/ ReadySkip(d) PROVE PhaseInv'
    BY <1>4 DEF RecvSkip, ReadySkip
  <1>5. ASSUME NEW d \in net, RecvAnswer(d) \/ RecvError(d) PROVE PhaseInv'
    <2>1. UNCHANGED toDev /\ phase # "released" /\ (Succeeds \/ Ends("refused") \/ Ends("error"))
      BY <1>5, <1>a DEF RecvAnswer, RecvError, Receiving, BoundInv
    <2>2. conn'.pc = "idle"
      BY <1>a, <2>1, SucceedsEffect, EndsEffect
    <2> QED BY <2>1, <2>2
  <1>6. CASE RecvFails \/ Timeout
    <2>1. UNCHANGED toDev /\ phase # "released" /\ (Ends("error") \/ Ends("timeout"))
      BY <1>6, <1>a DEF RecvFails, Timeout, Receiving, BoundInv
    <2>2. conn'.pc = "idle"
      BY <1>a, <2>1, EndsEffect
    <2> QED BY <2>1, <2>2
  <1>7. ASSUME NEW d \in net, ReadyConfirm(d) PROVE PhaseInv'
    <2>1. conn.pc = "ready_wait" /\ conn'.pc = "idle"
      BY <1>7, <1>a, WaitSteps DEF ReadyConfirm, ReadyTaken, ReadyReceiving
    <2>2. \A r \in toDev' : r \in toDev \/ r.op = "done"
      BY <1>7 DEF ReadyConfirm
    <2> QED BY <2>1, <2>2
  <1>8. CASE ReadyFails
    <2>1. conn.pc = "ready_wait" /\ conn'.pc = "idle" /\ UNCHANGED toDev
      BY <1>8, <1>a, WaitSteps DEF ReadyFails
    <2> QED BY <2>1
  <1>9. CASE Device
    <2>1. UNCHANGED <<conn, phase>> /\ toDev' \subseteq toDev
      BY <1>9 DEF Device, DevExecute, DevDone, DevReady, DevRepeat, DevAbort
    <2> QED BY <2>1
  <1>10. CASE Tick
    BY <1>10, <1>a, WaitSteps DEF Tick
  <1>11. CASE Lose \/ \E k : Foreign(k)
    BY <1>11 DEF Lose, Foreign
  <1>12. CASE UNCHANGED vars
    BY <1>12 DEF vars
  <1> QED
    BY <1>1, <1>2, <1>3, <1>4, <1>5, <1>6, <1>7, <1>8, <1>9, <1>10, <1>11, <1>12
    DEF Next, Caller, Receive

LEMMA PhaseInvariant == Spec => [](SessionInv /\ PhaseInv)
  <1>1. Init => PhaseInv
    BY DEF Init, PhaseInv
  <1> QED BY <1>1, NextPhase, InitSession, NextSession, PTL DEF Spec

-----------------------------------------------------------------------------
(* What is left in the device when nothing went wrong *)

(* The answers of the device under way, and the one to the outstanding request. *)
Replies == {d \in net : d.mine /\ d.kind \in {"response", "fault"}}
Expected == Answer(Awaited, dev.answer)

(* A call that waits has its request under way or its answer, never both, and *)
(* nothing of an earlier call is left.                                        *)
CallClean ==
    conn.pc = "await" =>
      /\ conn.left > 0 /\ phase \in {"new", "connected", "ready"}
      /\ \/ /\ dev.next < conn.seq /\ Replies = {}
            /\ \E r \in toDev : r.op # "done" /\ r.seq = Awaited
         \/ dev.next = conn.seq /\ Replies = {Expected} /\ \A r \in toDev : r.op = "done"
      /\ \A r \in toDev : r.op # "done" => r.seq = Awaited

(* Between two calls only a confirmation or the release is under way. *)
RestClean ==
    conn.pc # "await" =>
      /\ \A r \in toDev : r.op \in {"done", "release"}
      /\ \A r \in toDev : r.op = "release" => r.seq >= dev.next
      /\ phase # "released" => Replies = {}
      /\ conn.pc = "dropped" => phase = "released"

(* An AR the device holds is one the session knows of, is about to learn of, has *)
(* given back, or was told of in an answer that withholds submodules.            *)
HeldClean ==
    /\ dev.ar # "none" =>
         \/ conn.connected
         \/ \E r \in toDev : r.op = "release"
         \/ conn.pc = "await" /\ conn.op = "connect" /\ dev.next = conn.seq
            /\ dev.answer \in {"ok", "withheld"}
         \/ dev.answer = "withheld" /\ phase \in {"failed", "released"}
    /\ phase = "new" => dev.ar = "none" \/ (conn.pc = "await" /\ conn.op = "connect")

OrderClean ==
    /\ dev.next <= conn.seq
    /\ \A d \in net : d.mine \/ d.kind # "fault"
    /\ \A r, q \in toDev : r.op = "release" /\ q.op = "release" => r = q

CleanInv == faults = 0 => CallClean /\ RestClean /\ HeldClean /\ OrderClean

LEMMA NoFault ==
    ASSUME TypeOK, faults' = 0, Faulty \/ NotFaulty
    PROVE  faults = 0 /\ ~Faulty
  BY DEF TypeOK, Faulty, NotFaulty

LEMMA ExpectedReply ==
    ASSUME TypeOK
    PROVE  /\ Expected.seq = Awaited /\ Expected.mine
           /\ dev.answer = "fault" => Expected.kind = "fault"
           /\ dev.answer # "fault" => Expected.kind = "response" /\ Expected.status = dev.answer
  BY DEF Expected, Answer, Datagram

(* Steps that take no part in a call and leave its datagrams alone. *)
LEMMA CleanFrame ==
    ASSUME CallClean, RestClean, HeldClean, OrderClean, Same,
           dev'.next = dev.next, dev'.answer = dev.answer, dev.ar = "none" => dev'.ar = "none",
           \A r : r.op # "done" => (r \in toDev' <=> r \in toDev),
           Replies' = Replies,
           \A d \in net' : d \in net \/ d.mine \/ d.kind # "fault",
           \/ UNCHANGED phase /\ conn'.pc = conn.pc /\ (conn.pc = "await" => conn'.left = conn.left)
           \/ /\ phase = "param_ended" /\ phase' \in {"param_ended", "ready", "failed"}
              /\ {conn.pc, conn'.pc} \subseteq {"idle", "ready_wait"}
    PROVE  CallClean' /\ RestClean' /\ HeldClean' /\ OrderClean'
  <1>1. Awaited' = Awaited /\ Expected' = Expected
    BY DEF Same, Awaited, Expected, Answer
  <1>2. CallClean'
    BY <1>1 DEF CallClean, Same
  <1>3. RestClean'
    BY DEF RestClean
  <1>4. HeldClean'
    BY DEF HeldClean, Same
  <1>5. OrderClean'
    BY DEF OrderClean, Same
  <1> QED BY <1>2, <1>3, <1>4, <1>5

LEMMA CleanCaller ==
    ASSUME SessionInv, PhaseInv, CleanInv, Caller PROVE CleanInv'
  <1> SUFFICES ASSUME faults' = 0 PROVE CallClean' /\ RestClean' /\ HeldClean' /\ OrderClean'
    BY DEF CleanInv
  <1>a. TypeOK /\ BoundInv /\ NumberInv
    BY DEF SessionInv
  <1>b. conn.seq \in Nat /\ dev.next \in Nat /\ \A r \in toDev : r.seq \in Nat
    BY <1>a, Fields DEF Seqs
  <1>1. CASE connect \/ prm_end \/ prm_begin \/ read_raw \/ write
    <2>1. PICK op \in Ops \ {"release"} :
            Request(op) /\ phase \in {"new", "connected", "ready"} /\ (op = "connect" => phase = "new")
      BY <1>1 DEF connect, prm_end, prm_begin, read_raw, write, RecordsAllowed, Ops
    <2>2. /\ conn.pc = "idle" /\ conn'.op = op /\ conn'.seq = conn.seq + 1
          /\ conn'.connected = conn.connected /\ UNCHANGED <<net, dev>> /\ op # "done"
          /\ \/ /\ conn'.pc = "await" /\ conn'.left = Patience /\ UNCHANGED <<faults, phase>>
                /\ toDev' = toDev \union {[op |-> op, seq |-> conn.seq]}
             \/ Faulty
      BY <1>a, <2>1, RequestEffect DEF Ops
    <2>3. /\ faults = 0 /\ conn'.pc = "await" /\ conn'.left > 0 /\ UNCHANGED phase
          /\ toDev' = toDev \union {[op |-> op, seq |-> conn.seq]}
      BY <1>a, <2>2, NoFault, SessionAssumption DEF NotFaulty
    <2>4. CallClean /\ RestClean /\ HeldClean /\ OrderClean
      BY <2>3 DEF CleanInv
    <2>5. Replies' = {} /\ \A r \in toDev : r.op = "done"
      BY <2>1, <2>2, <2>4 DEF RestClean, Replies, PhaseInv
    <2>6. Awaited' = conn.seq
      BY <1>b, <2>2 DEF Awaited
    <2>7. CallClean' /\ RestClean'
      <3>1. \E r \in toDev' : r.op # "done" /\ r.seq = Awaited'
        <4>1. [op |-> op, seq |-> conn.seq] \in toDev'
          BY <2>3
        <4> QED BY <2>2, <2>6, <4>1
      <3>2. dev'.next < conn'.seq
        BY <1>b, <2>2, <2>4 DEF OrderClean
      <3>3. \A r \in toDev' : r.op # "done" => r.seq = Awaited'
        BY <2>3, <2>5, <2>6
      <3> QED BY <2>1, <2>3, <2>5, <3>1, <3>2, <3>3 DEF CallClean, RestClean
    <2>8. HeldClean'
      BY <2>1, <2>2, <2>3, <2>4, <2>5 DEF HeldClean
    <2>9. OrderClean'
      BY <1>b, <2>1, <2>2, <2>3, <2>4, <2>5 DEF OrderClean
    <2> QED BY <2>7, <2>8, <2>9
  <1>2. CASE application_ready
    <2>1. faults = 0 /\ UNCHANGED <<net, toDev, dev>> /\ conn.pc = "idle" /\ phase = "param_ended"
          /\ UNCHANGED phase
      BY <1>2 DEF application_ready
    <2>2. Same /\ conn'.pc = "ready_wait"
      BY <1>2, <1>a, WaitSteps
    <2>3. Replies' = Replies
      BY <2>1 DEF Replies
    <2> QED BY <2>1, <2>2, <2>3, CleanFrame DEF CleanInv
  <1>3. CASE Release \/ Drop
    <2>1. PICK pc \in {"idle", "dropped"} : release(pc)
      BY <1>3 DEF Release, Drop
    <2>2. phase' = "released" /\ conn.pc = "idle" /\ UNCHANGED <<net, dev>>
      BY <1>3 DEF Release, Drop
    <2>3. /\ conn'.pc = pc /\ conn'.connected = FALSE
          /\ \/ /\ conn.connected /\ conn'.seq = conn.seq + 1 /\ NotFaulty
                /\ toDev' = toDev \union {[op |-> "release", seq |-> conn.seq]}
             \/ Faulty
             \/ ~conn.connected /\ conn'.seq = conn.seq /\ UNCHANGED toDev /\ NotFaulty
      BY <1>a, <2>1, ReleaseEffect
    <2>4. faults = 0 /\ ~Faulty
      BY <1>a, <2>3, NoFault
    <2>5. CallClean /\ RestClean /\ HeldClean /\ OrderClean
      BY <2>4 DEF CleanInv
    <2>6. CASE conn.connected
      <3>1. /\ conn'.seq = conn.seq + 1
            /\ toDev' = toDev \union {[op |-> "release", seq |-> conn.seq]}
        BY <2>3, <2>4, <2>6
      <3>2. \A r \in toDev : r.op # "release"
        BY <1>a, <2>6 DEF BoundInv, PhaseInv
      <3>3. CallClean' /\ RestClean'
        <4>1. dev'.next <= conn.seq
          BY <2>2, <2>5 DEF OrderClean
        <4>2. \A r \in toDev' : r.op \in {"done", "release"} /\ (r.op = "release" => r.seq >= dev'.next)
          BY <1>b, <2>2, <2>5, <3>1, <4>1 DEF RestClean
        <4> QED BY <2>1, <2>2, <2>3, <4>2 DEF CallClean, RestClean
      <3>4. HeldClean'
        <4>1. [op |-> "release", seq |-> conn.seq] \in toDev'
          BY <3>1
        <4>2. \E r \in toDev' : r.op = "release"
          BY <4>1
        <4> QED BY <2>2, <4>2 DEF HeldClean
      <3>5. OrderClean'
        BY <1>b, <2>2, <2>5, <3>1, <3>2 DEF OrderClean
      <3> QED BY <3>3, <3>4, <3>5
    <2>7. CASE ~conn.connected
      <3>1. conn'.seq = conn.seq /\ UNCHANGED toDev
        BY <2>3, <2>4, <2>7
      <3>2. CallClean' /\ RestClean'
        BY <2>1, <2>2, <2>3, <2>5, <3>1 DEF CallClean, RestClean
      <3>3. HeldClean' /\ OrderClean'
        BY <2>2, <2>5, <2>7, <3>1 DEF HeldClean, OrderClean
      <3> QED BY <3>2, <3>3
    <2> QED BY <2>6, <2>7
  <1> QED BY <1>1, <1>2, <1>3 DEF Caller

LEMMA CleanReceive ==
    ASSUME SessionInv, PhaseInv, CleanInv, Receive PROVE CleanInv'
  <1> SUFFICES ASSUME faults' = 0 PROVE CallClean' /\ RestClean' /\ HeldClean' /\ OrderClean'
    BY DEF CleanInv
  <1>a. TypeOK /\ BoundInv
    BY DEF SessionInv
  <1>b. faults = 0 => CallClean /\ RestClean /\ HeldClean /\ OrderClean
    BY DEF CleanInv
  <1>1. ASSUME NEW d \in net, RecvSkip(d) \/ ReadySkip(d)
        PROVE  CallClean' /\ RestClean' /\ HeldClean' /\ OrderClean'
    <2>1. /\ UNCHANGED <<conn, phase, toDev, dev>> /\ faults = 0 /\ net' = net \ {d}
          /\ conn.pc = "await" => ~IsError(d) /\ ~IsAnswer(d)
          /\ conn.pc = "await" \/ conn.pc = "ready_wait"
      BY <1>1 DEF RecvSkip, ReadySkip, Receiving, ReadyReceiving
    <2>2. conn.pc = "await" => d # Expected
      BY <1>a, <2>1, ExpectedReply DEF IsError, IsAnswer
    <2>3. Replies' = Replies
      <3>1. d \notin Replies
        <4>1. CASE conn.pc = "await"
          BY <1>b, <2>1, <2>2, <4>1 DEF CallClean
        <4>2. CASE conn.pc = "ready_wait"
          BY <1>a, <1>b, <2>1, <4>2 DEF RestClean, BoundInv
        <4> QED BY <2>1, <4>1, <4>2
      <3> QED BY <2>1, <3>1 DEF Replies
    <2> QED BY <1>b, <2>1, <2>3, CleanFrame DEF Same
  <1>2. ASSUME NEW d \in net, RecvAnswer(d) \/ RecvError(d)
        PROVE  /\ conn.pc = "await" /\ UNCHANGED <<toDev, dev>> /\ faults = 0
               /\ d = Expected /\ Replies' = {} /\ dev.next = conn.seq
               /\ net' \subseteq net /\ \A r \in toDev : r.op = "done"
    <2>1. /\ conn.pc = "await" /\ UNCHANGED <<toDev, dev>> /\ faults = 0 /\ net' = net \ {d}
          /\ IsAnswer(d) \/ IsError(d)
      BY <1>2 DEF RecvAnswer, RecvError, Receiving
    <2>2. d \in Replies
      BY <1>b, <2>1 DEF Replies, OrderClean, IsAnswer, IsError
    <2>3. Replies = {Expected} /\ dev.next = conn.seq /\ \A r \in toDev : r.op = "done"
      BY <1>b, <2>1, <2>2 DEF CallClean
    <2>4. Replies' = Replies \ {d}
      BY <2>1 DEF Replies
    <2> QED BY <2>1, <2>2, <2>3, <2>4
  <1>3. ASSUME NEW d \in net, RecvAnswer(d), d.status = "ok"
        PROVE  CallClean' /\ RestClean' /\ HeldClean' /\ OrderClean'
    <2>1. Succeeds
      BY <1>3 DEF RecvAnswer
    <2>2. /\ conn.pc = "await" /\ UNCHANGED <<toDev, dev>> /\ faults = 0 /\ d = Expected
          /\ Replies' = {} /\ dev.next = conn.seq /\ net' \subseteq net
          /\ \A r \in toDev : r.op = "done"
      BY <1>2, <1>3
    <2>3. dev.answer = "ok"
      <3>1. d.kind = "response"
        BY <1>3 DEF RecvAnswer, IsAnswer
      <3> QED BY <1>3, <1>a, <2>2, <3>1, ExpectedReply
    <2>4. /\ conn'.pc = "idle" /\ conn'.seq = conn.seq
          /\ conn'.connected <=> conn.connected \/ conn.op = "connect"
      BY <1>a, <2>1, SucceedsEffect
    <2>5. phase' = "new" => phase = "new" /\ conn.op # "connect"
      BY <1>a, <2>1, SucceedsEffect
    <2>6. CallClean' /\ RestClean'
      BY <2>2, <2>4 DEF CallClean, RestClean
    <2>7. HeldClean'
      BY <1>b, <2>2, <2>3, <2>4, <2>5 DEF HeldClean
    <2>8. OrderClean'
      BY <1>b, <2>2, <2>4 DEF OrderClean
    <2> QED BY <2>6, <2>7, <2>8
  <1>4. ASSUME NEW d \in net, RecvAnswer(d) \/ RecvError(d), ~(RecvAnswer(d) /\ d.status = "ok")
        PROVE  CallClean' /\ RestClean' /\ HeldClean' /\ OrderClean'
    <2>1. PICK result \in {"refused", "error"} : Ends(result)
      BY <1>4 DEF RecvAnswer, RecvError
    <2>2. /\ conn.pc = "await" /\ UNCHANGED <<toDev, dev>> /\ faults = 0 /\ d = Expected
          /\ Replies' = {} /\ dev.next = conn.seq /\ net' \subseteq net
          /\ \A r \in toDev : r.op = "done"
      BY <1>2, <1>4
    <2>3. dev.answer # "ok"
      <3>1. (IsAnswer(d) /\ d.status # "ok") \/ IsError(d)
        BY <1>4 DEF RecvAnswer, RecvError
      <3> QED BY <1>a, <2>2, <3>1, ExpectedReply DEF IsError
    <2>4. /\ conn'.pc = "idle" /\ conn'.seq = conn.seq /\ conn'.connected = conn.connected
          /\ phase' = IF Essential(conn.op) THEN "failed" ELSE phase
      BY <1>a, <2>1, EndsEffect
    <2>5. CallClean' /\ RestClean'
      BY <2>2, <2>4 DEF CallClean, RestClean
    <2>6. HeldClean'
      BY <1>b, <2>2, <2>3, <2>4 DEF HeldClean, Essential
    <2>7. OrderClean'
      BY <1>b, <2>2, <2>4 DEF OrderClean
    <2> QED BY <2>5, <2>6, <2>7
  <1>5. CASE RecvFails \/ Timeout
    <2>1. Timeout /\ faults = 0
      BY <1>5, <1>a, NoFault DEF RecvFails, Timeout
    <2> QED BY <1>a, <1>b, <2>1, Fields DEF Timeout, CallClean
  <1>6. ASSUME NEW d \in net, ReadyConfirm(d)
        PROVE  CallClean' /\ RestClean' /\ HeldClean' /\ OrderClean'
    <2>1. /\ conn.pc = "ready_wait" /\ UNCHANGED dev /\ faults = 0 /\ net' = net \ {d}
          /\ toDev' \in {toDev, toDev \union {[op |-> "done", seq |-> d.seq]}}
          /\ d.kind = "appready" /\ phase' = "ready"
      BY <1>6, <1>a, NoFault DEF ReadyConfirm, ReadyTaken, ReadyReceiving, IsAppReady
    <2>2. Same /\ conn'.pc = "idle" /\ phase = "param_ended"
      BY <1>6, <1>a, <2>1, WaitSteps DEF PhaseInv
    <2>3. Replies' = Replies
      BY <2>1 DEF Replies
    <2> QED BY <1>b, <2>1, <2>2, <2>3, CleanFrame
  <1>7. CASE ReadyFails
    <2>1. /\ conn.pc = "ready_wait" /\ UNCHANGED <<net, toDev, dev>> /\ faults = 0
          /\ phase' = "failed"
      BY <1>7, <1>a, NoFault DEF ReadyFails
    <2>2. Same /\ conn'.pc = "idle" /\ phase = "param_ended"
      BY <1>7, <1>a, <2>1, WaitSteps DEF PhaseInv
    <2>3. Replies' = Replies
      BY <2>1 DEF Replies
    <2> QED BY <1>b, <2>1, <2>2, <2>3, CleanFrame
  <1> QED BY <1>1, <1>3, <1>4, <1>5, <1>6, <1>7 DEF Receive

LEMMA CleanExecute ==
    ASSUME SessionInv, PhaseInv, CleanInv, NEW r \in toDev, DevExecute(r) PROVE CleanInv'
  <1> SUFFICES ASSUME faults' = 0 PROVE CallClean' /\ RestClean' /\ HeldClean' /\ OrderClean'
    BY DEF CleanInv
  <1>a. TypeOK /\ BoundInv /\ NumberInv
    BY DEF SessionInv
  <1>1. r.op \in Ops /\ r.seq \in Seqs /\ UNCHANGED <<conn, phase>> /\ r.op # "done"
    BY <1>a, ExecuteEffect DEF DevExecute
  <1>2. conn.seq \in Nat /\ dev.next \in Nat /\ r.seq \in Nat /\ \A q \in toDev : q.seq \in Nat
    BY <1>a, <1>1, Fields DEF Seqs
  <1>3. faults = 0 /\ toDev' = toDev \ {r}
    <2>1. faults = 0 /\ ~Faulty
      BY <1>a, ExecuteEffect, NoFault
    <2> QED BY <2>1 DEF DevExecute
  <1>4. CallClean /\ RestClean /\ HeldClean /\ OrderClean
    BY <1>3 DEF CleanInv
  <1>5. r.seq >= dev.next /\ r.seq < conn.seq
    <2>1. r.seq < conn.seq
      BY <1>a, <1>1 DEF NumberInv, Asked
    <2>2. CASE conn.pc = "await"
      BY <1>1, <1>2, <1>4, <2>2 DEF CallClean, Awaited
    <2>3. CASE conn.pc # "await"
      BY <1>1, <1>4, <2>1, <2>3 DEF RestClean
    <2> QED BY <2>1, <2>2, <2>3
  <1>6. PICK res \in IF r.op = "release" THEN {<<"none", "ok">>} ELSE Results(r.op) :
          /\ dev'.next = r.seq + 1 /\ dev'.ar = res[1] /\ dev'.answer = res[2]
          /\ net' = net \union {Answer(r.seq, dev'.answer)}
    <2>1. ~(r.seq + 1 < dev.next) /\ ~(r.seq + 1 = dev.next)
      BY <1>2, <1>5
    <2> QED BY <1>a, <2>1, ExecuteEffect
  <1>7. Answer(r.seq, dev'.answer).mine /\ Answer(r.seq, dev'.answer).kind \in {"response", "fault"}
    BY DEF Answer, Datagram
  <1>8. Replies' = Replies \union {Answer(r.seq, dev'.answer)}
    BY <1>6, <1>7 DEF Replies
  <1>9. OrderClean'
    BY <1>1, <1>2, <1>3, <1>4, <1>5, <1>6, <1>7 DEF OrderClean
  <1>10. CASE conn.pc = "await"
    <2>1. r.seq = Awaited /\ dev.next < conn.seq /\ Replies = {} /\ Awaited + 1 = conn.seq
      BY <1>1, <1>2, <1>4, <1>10 DEF CallClean, Awaited
    <2>2. r.op = conn.op /\ r.op # "release" /\ phase \in {"new", "connected", "ready"}
      BY <1>a, <1>1, <1>4, <1>10, <2>1 DEF NumberInv, Asked, CallClean, PhaseInv
    <2>3. \A q \in toDev' : q.op = "done"
      <3>1. ASSUME NEW q \in toDev, q.op # "done" PROVE q = r
        BY <1>a, <1>1, <1>4, <1>10, <2>1, <3>1 DEF CallClean, NumberInv, Asked
      <3> QED BY <1>3, <3>1
    <2>4. Awaited' = Awaited /\ Replies' = {Expected'}
      BY <1>1, <1>8, <2>1 DEF Awaited, Expected
    <2>5. CallClean' /\ RestClean'
      BY <1>1, <1>4, <1>6, <1>10, <2>1, <2>2, <2>3, <2>4 DEF CallClean, RestClean
    <2>6. dev.ar # "none" => conn.connected
      BY <1>2, <1>4, <1>10, <2>1, <2>2 DEF HeldClean, PhaseInv
    <2>7. \/ dev'.ar = dev.ar
          \/ dev.ar # "none"
          \/ r.op = "connect" /\ dev'.answer \in {"ok", "withheld"}
      BY <1>6, <2>2 DEF Results, Ops
    <2>8. HeldClean'
      <3>1. phase = "new" /\ r.op # "connect" => dev.ar = "none"
        BY <1>4, <2>2 DEF HeldClean
      <3> QED BY <1>1, <1>6, <1>10, <2>1, <2>2, <2>6, <2>7, <3>1 DEF HeldClean
    <2> QED BY <1>9, <2>5, <2>8
  <1>11. CASE conn.pc # "await"
    <2>1. r.op = "release" /\ phase = "released"
      BY <1>1, <1>4, <1>11 DEF RestClean, PhaseInv
    <2>2. dev'.ar = "none"
      BY <1>6, <2>1
    <2>3. \A q \in toDev' : q.op = "done"
      BY <1>3, <1>4, <1>11, <2>1 DEF RestClean, OrderClean
    <2>4. CallClean' /\ RestClean'
      BY <1>1, <1>4, <1>11, <2>1, <2>3 DEF CallClean, RestClean
    <2> QED BY <1>1, <1>9, <2>1, <2>2, <2>4 DEF HeldClean
  <1> QED BY <1>10, <1>11

LEMMA CleanDevice ==
    ASSUME SessionInv, PhaseInv, CleanInv, Device PROVE CleanInv'
  <1>a. TypeOK
    BY DEF SessionInv
  <1>1. ASSUME NEW r \in toDev, DevExecute(r) PROVE CleanInv'
    BY <1>1, CleanExecute
  <1>2. ASSUME \/ DevReady \/ DevRepeat \/ DevAbort
               \/ \E r \in toDev : DevDone(r)
        PROVE  CleanInv'
    <2> SUFFICES ASSUME faults' = 0 PROVE CallClean' /\ RestClean' /\ HeldClean' /\ OrderClean'
      BY DEF CleanInv
    <2>1. faults = 0 /\ UNCHANGED <<conn, phase>>
      BY <1>2, <1>a, NoFault DEF DevReady, DevRepeat, DevAbort, DevTimer, DevDone
    <2>2. dev'.next = dev.next /\ dev'.answer = dev.answer /\ (dev.ar = "none" => dev'.ar = "none")
      BY <1>2, <1>a, DeviceSteps DEF DevSame, DevReady, DevRepeat
    <2>3. \A r : r.op # "done" => (r \in toDev' <=> r \in toDev)
      BY <1>2 DEF DevReady, DevRepeat, DevAbort, DevDone
    <2>4. Announcement.mine /\ Announcement.kind = "appready"
      BY DEF Announcement, Datagram
    <2>5. net' = net \/ net' = net \union {Announcement}
      BY <1>2 DEF DevReady, DevRepeat, DevAbort, DevDone
    <2>6. Replies' = Replies /\ \A d \in net' : d \in net \/ d.mine \/ d.kind # "fault"
      BY <2>4, <2>5 DEF Replies
    <2> QED BY <2>1, <2>2, <2>3, <2>6, CleanFrame DEF CleanInv, Same
  <1> QED BY <1>1, <1>2 DEF Device

LEMMA CleanInvariant == Spec => [](SessionInv /\ PhaseInv /\ CleanInv)
  <1>1. Init => CleanInv
    BY DEF Init, CleanInv, CallClean, RestClean, HeldClean, OrderClean, Replies
  <1>2. SessionInv /\ PhaseInv /\ CleanInv /\ [Next]_vars => CleanInv'
    <2> SUFFICES ASSUME SessionInv, PhaseInv, CleanInv, [Next]_vars PROVE CleanInv'
      OBVIOUS
    <2>a. TypeOK
      BY DEF SessionInv
    <2>1. ASSUME faults' = 0, Tick PROVE CallClean' /\ RestClean' /\ HeldClean' /\ OrderClean'
      <3>1. faults = 0 /\ ~Faulty
        BY <2>1, <2>a, NoFault DEF Tick
      <3>2. CallClean /\ RestClean /\ HeldClean /\ OrderClean
        BY <3>1 DEF CleanInv
      <3>3. conn.pc # "await"
        <4>1. conn.pc = "await" => UnderWay
          <5>1. Expected.mine /\ Expected.seq = Awaited /\ ~IsRequest(Expected)
            BY <2>a, ExpectedReply DEF IsRequest
          <5>2. Expected \in Replies => Expected \in net
            BY DEF Replies
          <5> QED BY <3>2, <5>1, <5>2 DEF CallClean, UnderWay
        <4> QED BY <2>1, <3>1, <4>1 DEF Tick
      <3>4. Same /\ conn'.pc = conn.pc /\ UNCHANGED <<phase, net, toDev, dev>>
        BY <2>1, <2>a, WaitSteps DEF Tick
      <3>5. Replies' = Replies
        BY <3>4 DEF Replies
      <3> QED BY <3>2, <3>3, <3>4, <3>5, CleanFrame
    <2>2. ASSUME faults' = 0, Lose PROVE CallClean' /\ RestClean' /\ HeldClean' /\ OrderClean'
      BY <2>2, <2>a, NoFault DEF Lose
    <2>3. ASSUME faults' = 0, NEW k \in {"response", "echo", "fault", "appready"}, Foreign(k)
          PROVE  CallClean' /\ RestClean' /\ HeldClean' /\ OrderClean'
      <3>1. faults = 0 /\ k # "fault"
        BY <2>3, <2>a, NoFault DEF Foreign
      <3>2. /\ UNCHANGED <<conn, phase, toDev, dev>>
            /\ net' = net \union {Datagram(k, FALSE, Awaited, "ok")}
        BY <2>3 DEF Foreign
      <3>3. ~Datagram(k, FALSE, Awaited, "ok").mine /\ Datagram(k, FALSE, Awaited, "ok").kind = k
        BY DEF Datagram
      <3>4. Replies' = Replies /\ \A d \in net' : d \in net \/ d.mine \/ d.kind # "fault"
        BY <3>1, <3>2, <3>3 DEF Replies
      <3> QED BY <3>1, <3>2, <3>4, CleanFrame DEF CleanInv, Same
    <2>4. ASSUME faults' = 0, UNCHANGED vars PROVE CallClean' /\ RestClean' /\ HeldClean' /\ OrderClean'
      <3>1. faults = 0 /\ UNCHANGED <<conn, phase, toDev, dev, net>>
        BY <2>4 DEF vars
      <3>2. Replies' = Replies
        BY <3>1 DEF Replies
      <3> QED BY <3>1, <3>2, CleanFrame DEF CleanInv, Same
    <2>5. CASE Caller
      BY <2>5, CleanCaller
    <2>6. CASE Receive
      BY <2>6, CleanReceive
    <2>7. CASE Device
      BY <2>7, CleanDevice
    <2> QED BY <2>1, <2>2, <2>3, <2>4, <2>5, <2>6, <2>7 DEF Next, CleanInv
  <1> QED BY <1>1, <1>2, PhaseInvariant, PTL DEF Spec

(* Drop's promise: once an RpcConn is gone and its last datagrams have arrived, no  *)
(* exit path of any call has left an AR of ours in the device, as long as nothing   *)
(* was lost, late or failed, with the one exception of a Connect that is granted    *)
(* with submodules withheld.                                                        *)
THEOREM DropReleases == Spec => []NoDeadAR
  <1>1. SessionInv /\ PhaseInv /\ CleanInv => NoDeadAR
    <2> SUFFICES ASSUME SessionInv, CleanInv, conn.pc = "dropped", toDev = {}, faults = 0,
                        dev.ar # "none"
                 PROVE  dev.answer = "withheld"
      BY DEF NoDeadAR
    <2>1. phase = "released" /\ HeldClean
      BY DEF CleanInv, RestClean
    <2>2. ~conn.connected
      BY <2>1 DEF SessionInv, BoundInv
    <2> QED BY <2>1, <2>2 DEF HeldClean
  <1> QED BY <1>1, CleanInvariant, PTL

=============================================================================
