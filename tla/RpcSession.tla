------------------------------ MODULE RpcSession ------------------------------
(***************************************************************************)
(* One RpcConn of src/src/transport.rs: the DCE/RPC session that sets up   *)
(* an application relation (AR) with an IO-Device, carries the acyclic     *)
(* record calls and releases the AR.  Every call is synchronous: it sends  *)
(* one request and loops on receive under one wall-clock deadline until    *)
(* the matching response, an error packet or the deadline ends it.         *)
(*                                                                         *)
(* The network loses, duplicates and reorders datagrams, answers arrive    *)
(* after their call timed out, and datagrams that belong to nobody here    *)
(* (another tool's exchange with the same device, an ApplicationReady for  *)
(* another AR, our own request looped back) land on the same receive       *)
(* channel.  The device is external: it is modelled from what the session  *)
(* expects of it.                                                          *)
(***************************************************************************)
EXTENDS Naturals, FiniteSets

CONSTANTS
    RawL2,          \* TRUE: RawL2Transport, one capture for both channels;
                    \* FALSE: UdpTransport, a socket per channel
    MaxSeq,         \* bound on the requests of one connection, the release included
    Patience,       \* clock ticks in a call's deadline
    Retries,        \* times the device repeats an unconfirmed ApplicationReady
    FaultBudget,    \* bound: how often something goes wrong (see Faulty)
    Records,        \* record calls the caller makes, of {"read", "write"}
    RecordBound     \* bound: record calls are among the first so many requests

ASSUME SessionAssumption ==
    /\ RawL2 \in BOOLEAN
    /\ {MaxSeq, Patience} \subseteq Nat \ {0}
    /\ {Retries, FaultBudget, RecordBound} \subseteq Nat
    /\ Records \subseteq {"read", "write"}

VARIABLES
    conn,       \* RpcConn: where it is, the call it makes, its counters
    phase,      \* how far its caller has brought the AR
    outcome,    \* what the last call returned, "none" while a call is under way
    net,        \* datagrams under way to the controller
    toDev,      \* datagrams under way to the device
    dev,        \* the device: its AR, the last request it executed
    faults,     \* what went wrong so far
    returned,   \* history: the calls that returned Ok
    misled      \* history: application_ready took another announcement than the device's

vars == <<conn, phase, outcome, net, toDev, dev, faults, returned, misled>>

Ops == {"connect", "prm_end", "prm_begin", "read", "write", "release"}
Phases == {"new", "connected", "param_ended", "ready", "failed", "released"}
Seqs == 0 .. MaxSeq - 1

Datagrams ==
    [kind : {"response", "fault", "echo", "appready"}, mine : BOOLEAN,
     seq : Seqs, status : {"ok", "refused", "withheld"}]
Requests == [op : Ops \union {"done"}, seq : Seqs]
Conns ==
    [pc : {"idle", "await", "ready_wait", "dropped"}, op : Ops,
     seq : 0 .. MaxSeq, left : 0 .. Patience, connected : BOOLEAN]
Devices ==
    [ar : {"none", "parm", "ended", "ready", "data"}, next : 0 .. MaxSeq,
     answer : {"ok", "refused", "withheld", "fault"},
     done : SUBSET [op : Ops, seq : Seqs], resends : 0 .. Retries, call : Seqs]

Datagram(k, m, s, st) == [kind |-> k, mine |-> m, seq |-> s, status |-> st]

\* A datagram lost, repeated or late, an error packet that answers somebody
\* else, a send or receive that fails locally.
Faulty == faults < FaultBudget /\ faults' = faults + 1
NotFaulty == UNCHANGED faults

\* The sequence number of the outstanding request.
Awaited == conn.seq - 1

\* The device opens ApplicationReady with a number of its own, which stands for
\* the PrmEnd that it answers.
Announcement == Datagram("appready", TRUE, dev.call, "ok")

TypeOK ==
    /\ conn \in Conns
    /\ phase \in Phases
    /\ outcome \in {"none", "ok", "refused", "error", "timeout"}
    /\ net \subseteq Datagrams
    /\ toDev \subseteq Requests
    /\ dev \in Devices
    /\ faults \in 0 .. FaultBudget
    /\ returned \subseteq [op : Ops, seq : Seqs]
    /\ misled \in BOOLEAN

Init ==
    /\ conn = [pc |-> "idle", op |-> "read", seq |-> 0, left |-> 0,
               connected |-> FALSE]
    /\ phase = "new"
    /\ outcome = "none"
    /\ net = {} /\ toDev = {}
    /\ dev = [ar |-> "none", next |-> 0, answer |-> "ok", done |-> {},
              resends |-> 0, call |-> 0]
    /\ faults = 0
    /\ returned = {} /\ misled = FALSE

-----------------------------------------------------------------------------
(* The caller's side of a call. *)

\* The calls after whose failure every caller gives the connection up.
Essential(op) == op \in {"connect", "prm_end", "prm_begin"}

Sent(op) == toDev' = toDev \union {[op |-> op, seq |-> conn.seq]}

\* A call numbers its request, sends it and starts its deadline.  When the
\* send fails the number is used and nothing has left the host.
Request(op) ==
    /\ conn.pc = "idle" /\ conn.seq < MaxSeq - 1
    /\ \/ /\ Sent(op)
          /\ conn' = [conn EXCEPT !.pc = "await", !.op = op, !.seq = @ + 1,
                                  !.left = Patience]
          /\ outcome' = "none"
          /\ NotFaulty
          /\ UNCHANGED phase
       \/ /\ Faulty
          /\ conn' = [conn EXCEPT !.op = op, !.seq = @ + 1]
          /\ outcome' = "error"
          /\ phase' = IF Essential(op) THEN "failed" ELSE phase
          /\ UNCHANGED toDev
    /\ UNCHANGED <<net, dev, returned, misled>>

\* The order in which cmd_cyclic, start_cyclic_tier and ProfinetDevice make
\* the calls: one connect per RpcConn, PrmEnd and at once ApplicationReady,
\* records before and after, none once the AR is given up.
connect == phase = "new" /\ Request("connect")

\* send_control refuses locally when no AR is held.
prm_end == conn.connected /\ phase = "connected" /\ Request("prm_end")
prm_begin == conn.connected /\ phase = "ready" /\ Request("prm_begin")

\* Record calls do not look at `connected`: without an AR a read is implicit
\* and a write is for the device to refuse.
RecordsAllowed == phase \in {"new", "connected", "ready"} /\ conn.seq < RecordBound
read_raw == "read" \in Records /\ RecordsAllowed /\ Request("read")
write == "write" \in Records /\ RecordsAllowed /\ Request("write")

-----------------------------------------------------------------------------
(* send_receive: one receive loop under one deadline. *)

\* Which datagrams a receive on a channel can deliver.
OnReplyChannel(d) == RawL2 \/ d.kind # "appready"
OnControlChannel(d) == RawL2 \/ d.kind \in {"appready", "echo"}

\* parse_rpc_response: REQUEST packets are skipped, FAULT, REJECT, unknown
\* types and runts are errors, a RESPONSE is handed on.
IsRequest(d) == d.kind \in {"echo", "appready"}
IsError(d) == d.kind = "fault"

\* Variant: any response of ours will do.
IsAnswer_AnySeq(d) == d.kind = "response" /\ d.mine

\* next_rpc_response: activity UUID (in normalised form) and sequence number.
IsAnswer(d) == d.kind = "response" /\ d.mine /\ d.seq = Awaited

Receiving == conn.pc = "await" /\ conn.left > 0

\* Variant: every receive starts a timeout of its own.
RecvSkip_Rearms(d) ==
    /\ Receiving /\ OnReplyChannel(d)
    /\ ~IsError(d) /\ ~IsAnswer(d)
    /\ net' = net \ {d}
    /\ conn' = [conn EXCEPT !.left = Patience]
    /\ UNCHANGED <<phase, outcome, toDev, dev, faults, returned, misled>>

\* An echoed request, or a response to somebody else or to an earlier call,
\* is dropped; the deadline keeps running.
RecvSkip(d) ==
    /\ Receiving /\ OnReplyChannel(d)
    /\ ~IsError(d) /\ ~IsAnswer(d)
    /\ net' = net \ {d}
    /\ UNCHANGED <<conn, phase, outcome, toDev, dev, faults, returned, misled>>

Ends(result) ==
    /\ outcome' = result
    /\ conn' = [conn EXCEPT !.pc = "idle", !.left = 0]
    /\ phase' = IF Essential(conn.op) THEN "failed" ELSE phase
    /\ UNCHANGED returned

\* The session fields a successful call changes.
Succeeds ==
    /\ outcome' = "ok"
    /\ conn' = [conn EXCEPT !.pc = "idle", !.left = 0,
                            !.connected = @ \/ conn.op = "connect"]
    /\ phase' = CASE conn.op \in {"connect", "prm_begin"} -> "connected"
                  [] conn.op = "prm_end" -> "param_ended"
                  [] OTHER -> phase
    /\ returned' = returned \union {[op |-> conn.op, seq |-> Awaited]}

\* The matching response: parse_connect_response, parse_read_response or
\* parse_status_response turn its status into the call's result.
RecvAnswer(d) ==
    /\ Receiving /\ OnReplyChannel(d) /\ IsAnswer(d)
    /\ net' = net \ {d}
    /\ IF d.status = "ok" THEN Succeeds ELSE Ends("refused")
    /\ UNCHANGED <<toDev, dev, faults, misled>>

\* An error packet ends the call at once.
RecvError(d) ==
    /\ Receiving /\ OnReplyChannel(d) /\ IsError(d)
    /\ net' = net \ {d}
    /\ Ends("error")
    /\ UNCHANGED <<toDev, dev, faults, misled>>

\* The receive itself fails.
RecvFails ==
    /\ Receiving /\ Faulty
    /\ Ends("error")
    /\ UNCHANGED <<net, toDev, dev, misled>>

Timeout ==
    /\ conn.pc = "await" /\ conn.left = 0
    /\ Ends("timeout")
    /\ UNCHANGED <<net, toDev, dev, faults, misled>>

-----------------------------------------------------------------------------
(* application_ready: the device calls us. *)

application_ready ==
    /\ conn.pc = "idle" /\ conn.connected /\ phase = "param_ended"
    /\ conn' = [conn EXCEPT !.pc = "ready_wait", !.left = Patience]
    /\ outcome' = "none"
    /\ UNCHANGED <<phase, net, toDev, dev, faults, returned, misled>>

\* extract_app_ready: a REQUEST with opnum CONTROL and block type 0x0112.  No
\* AR UUID is compared, so anybody's announcement will do, an old one too.
IsAppReady(d) == d.kind = "appready"

ReadyReceiving == conn.pc = "ready_wait" /\ conn.left > 0

ReadySkip(d) ==
    /\ ReadyReceiving /\ OnControlChannel(d) /\ ~IsAppReady(d)
    /\ net' = net \ {d}
    /\ UNCHANGED <<conn, phase, outcome, toDev, dev, faults, returned, misled>>

\* The announcement is taken from the channel, where a repetition may be left.
ReadyTaken(d) ==
    /\ ReadyReceiving /\ OnControlChannel(d) /\ IsAppReady(d)
    /\ \/ net' = net \ {d} /\ NotFaulty
       \/ UNCHANGED net /\ Faulty
    /\ conn' = [conn EXCEPT !.pc = "idle", !.left = 0]
    /\ phase' = "ready"
    /\ outcome' = "ok"
    /\ misled' = (misled \/ d # Announcement)
    /\ UNCHANGED <<dev, returned>>

\* Variant: the confirmation is forgotten.
ReadyConfirm_Silent(d) == ReadyTaken(d) /\ UNCHANGED toDev

\* The confirmation DONE goes back to where the datagram came from.
ReadyConfirm(d) ==
    /\ ReadyTaken(d)
    /\ toDev' = IF d.mine THEN toDev \union {[op |-> "done", seq |-> d.seq]} ELSE toDev

\* The deadline, or a receive or reply that fails.
ReadyFails ==
    /\ conn.pc = "ready_wait"
    /\ IF conn.left = 0 THEN NotFaulty ELSE Faulty
    /\ conn' = [conn EXCEPT !.pc = "idle", !.left = 0]
    /\ phase' = "failed"
    /\ outcome' = IF conn.left = 0 THEN "timeout" ELSE "error"
    /\ UNCHANGED <<net, toDev, dev, returned, misled>>

-----------------------------------------------------------------------------
(* release and Drop. *)

\* Variant: only the local state is cleared.
release_Local(pc) ==
    /\ conn' = [conn EXCEPT !.pc = pc, !.connected = FALSE]
    /\ UNCHANGED <<toDev, faults>>

\* release: fire and forget when connected, no answer is awaited; `pc` is
\* where the connection is afterwards.
release(pc) ==
    IF conn.connected
    THEN /\ \/ Sent("release") /\ NotFaulty
            \/ UNCHANGED toDev /\ Faulty
         /\ conn' = [conn EXCEPT !.pc = pc, !.seq = @ + 1, !.connected = FALSE]
    ELSE conn' = [conn EXCEPT !.pc = pc] /\ UNCHANGED toDev /\ NotFaulty

\* An explicit release; the error paths of the callers take it too.
Release ==
    /\ conn.pc = "idle" /\ phase # "released"
    /\ release("idle")
    /\ phase' = "released"
    /\ UNCHANGED <<outcome, net, dev, returned, misled>>

\* The connection goes out of scope, in any state between two calls.
Drop ==
    /\ conn.pc = "idle"
    /\ release("dropped")
    /\ phase' = "released"
    /\ UNCHANGED <<outcome, net, dev, returned, misled>>

-----------------------------------------------------------------------------
(* Time, the network and the device. *)

\* Is the answer to the current call, or the device's call, under way?
UnderWay ==
    \/ /\ conn.pc = "await"
       /\ \/ \E r \in toDev : r.seq = Awaited /\ r.op # "done"
          \/ \E d \in net : d.mine /\ d.seq = Awaited /\ ~IsRequest(d)
    \/ /\ conn.pc = "ready_wait"
       /\ \/ dev.ar = "ended" \/ Announcement \in net
          \/ dev.ar = "ready" /\ dev.resends < Retries

\* A deadline outlasts an answer that is under way, unless that is late.
Tick ==
    /\ conn.left > 0
    /\ IF UnderWay THEN Faulty ELSE NotFaulty
    /\ conn' = [conn EXCEPT !.left = @ - 1]
    /\ UNCHANGED <<phase, outcome, net, toDev, dev, returned, misled>>

Lose ==
    /\ Faulty
    /\ \/ \E d \in net : net' = net \ {d} /\ UNCHANGED toDev
       \/ \E r \in toDev : toDev' = toDev \ {r} /\ UNCHANGED net
    /\ UNCHANGED <<conn, phase, outcome, dev, returned, misled>>

\* Somebody else's datagram reaches a waiting call, as often as it likes, and
\* in the worst case it carries the sequence number the call waits for.
Foreign(k) ==
    /\ conn.pc \in {"await", "ready_wait"}
    /\ \A d \in net : d.mine
    /\ net' = net \union {Datagram(k, FALSE, Awaited, "ok")}
    /\ IF k = "fault" THEN Faulty ELSE NotFaulty
    /\ UNCHANGED <<conn, phase, outcome, toDev, dev, returned, misled>>

\* What executing a request can do to the AR, with the answer it gets.
Results(op) ==
    {<<dev.ar, "refused">>, <<dev.ar, "fault">>} \union
    CASE op = "connect" /\ dev.ar = "none" ->
             {<<"parm", "ok">>, <<"parm", "withheld">>}
      [] op = "prm_end" /\ dev.ar = "parm" -> {<<"ended", "ok">>}
      [] op = "prm_begin" /\ dev.ar = "data" -> {<<"parm", "ok">>}
      [] op = "write" /\ dev.ar # "none" -> {<<dev.ar, "ok">>}
      [] op = "read" -> {<<dev.ar, "ok">>}
      [] OTHER -> {}

Answer(s, a) ==
    IF a = "fault" THEN Datagram("fault", TRUE, s, "refused")
                   ELSE Datagram("response", TRUE, s, a)

\* A request is executed once; the last one is answered again when it comes
\* twice, an overtaken one is ignored.
DevExecute(r) ==
    /\ r.op # "done"
    /\ \/ toDev' = toDev \ {r} /\ NotFaulty
       \/ UNCHANGED toDev /\ Faulty
    /\ \/ /\ r.seq >= dev.next
          /\ \E res \in IF r.op = "release" THEN {<<"none", "ok">>}
                                            ELSE Results(r.op) :
                /\ dev' = [dev EXCEPT !.ar = res[1], !.next = r.seq + 1,
                                      !.answer = res[2],
                                      !.call = IF r.op = "prm_end" /\ res[2] = "ok"
                                               THEN r.seq ELSE @,
                                      !.done = IF res[2] = "ok"
                                               THEN @ \union {r} ELSE @]
                /\ net' = net \union {Answer(r.seq, res[2])}
       \/ /\ r.seq + 1 = dev.next
          /\ net' = net \union {Answer(r.seq, dev.answer)}
          /\ UNCHANGED dev
       \/ r.seq + 1 < dev.next /\ UNCHANGED <<dev, net>>
    /\ UNCHANGED <<conn, phase, outcome, returned, misled>>

\* The device announces that its application is ready ...
DevReady ==
    /\ dev.ar = "ended"
    /\ dev' = [dev EXCEPT !.ar = "ready", !.resends = 0]
    /\ net' = net \union {Announcement}
    /\ UNCHANGED <<conn, phase, outcome, toDev, faults, returned, misled>>

\* ... whose timer outlasts the exchange that is under way, unless it is late ...
DevTimer ==
    /\ Announcement \notin net
    /\ \A r \in toDev : r.op # "done"
    /\ IF conn.pc = "await" /\ conn.op = "prm_end" THEN Faulty ELSE NotFaulty

\* ... repeats it while no DONE arrives ...
DevRepeat ==
    /\ dev.ar = "ready" /\ dev.resends < Retries /\ DevTimer
    /\ dev' = [dev EXCEPT !.resends = @ + 1]
    /\ net' = net \union {Announcement}
    /\ UNCHANGED <<conn, phase, outcome, toDev, returned, misled>>

\* ... gives the AR up when the repeats are used ...
DevAbort ==
    /\ dev.ar = "ready" /\ dev.resends = Retries /\ DevTimer
    /\ dev' = [dev EXCEPT !.ar = "none"]
    /\ UNCHANGED <<conn, phase, outcome, net, toDev, returned, misled>>

\* ... and exchanges data once its DONE is in.
DevDone(r) ==
    /\ r.op = "done"
    /\ toDev' = toDev \ {r}
    /\ dev' = IF dev.ar = "ready" /\ r.seq = dev.call
              THEN [dev EXCEPT !.ar = "data"] ELSE dev
    /\ UNCHANGED <<conn, phase, outcome, net, faults, returned, misled>>

-----------------------------------------------------------------------------
Caller ==
    \/ connect \/ prm_end \/ prm_begin \/ read_raw \/ write
    \/ application_ready
    \/ Release
    \/ Drop

Receive ==
    \/ \E d \in net : \/ RecvSkip(d) \/ RecvAnswer(d) \/ RecvError(d)
                      \/ ReadySkip(d) \/ ReadyConfirm(d)
    \/ RecvFails
    \/ Timeout
    \/ ReadyFails

Device ==
    \/ \E r \in toDev : DevExecute(r) \/ DevDone(r)
    \/ DevReady
    \/ DevRepeat
    \/ DevAbort

Next ==
    \/ Caller
    \/ Receive
    \/ Device
    \/ Tick
    \/ Lose
    \/ \E k \in {"response", "echo", "fault", "appready"} : Foreign(k)

Spec == Init /\ [][Next]_vars

\* What is ours in the receive queue is reached, behind however much else.
TakeOurs ==
    \E d \in net : d.mine /\ (RecvAnswer(d) \/ RecvError(d) \/ ReadyConfirm(d))

\* A call in progress keeps receiving, time passes, the device works, and a
\* caller that ended the parameter phase goes on to wait for ApplicationReady.
FairSpec ==
    /\ Spec
    /\ WF_vars(Receive) /\ WF_vars(TakeOurs) /\ WF_vars(Tick) /\ WF_vars(Device)
    /\ WF_vars(application_ready)

-----------------------------------------------------------------------------
(* Properties *)

\* A call that returned Ok is a call the device executed with success: no
\* late answer to an earlier request, no answer to somebody else's call and
\* no repeated datagram is ever taken for it.
OkMeansDone == returned \subseteq dev.done

\* Drop's promise: once the connection is gone and its last datagrams have
\* arrived, the device holds no AR of ours, whichever call failed or was
\* refused, and also when a stray ApplicationReady made the caller believe
\* that the device was ready, unless something went wrong between the two.
\* One answer is excepted: a Connect that is granted with submodules withheld is an error
\* to connect(), which returns before `connected` is set.
NoDeadAR ==
    conn.pc = "dropped" /\ toDev = {} /\ faults = 0 =>
        dev.ar = "none" \/ dev.answer = "withheld"

\* Every call returns, whatever arrives in the meantime: a stream of foreign
\* datagrams cannot keep it in its receive loop past the deadline.
CallReturns ==
    /\ conn.pc = "await" ~> conn.pc # "await"
    /\ conn.pc = "ready_wait" ~> conn.pc # "ready_wait"

\* As long as nothing goes wrong, ending a parameter phase, the first or a later
\* one, leads to data exchange unless the caller gives the AR up: also when
\* ApplicationReady overtakes the PrmEnd response and is taken off the channel
\* with it.  A caller that took an announcement which was not this device's for
\* this phase is excepted: application_ready then confirms nothing to the device.
TakeoverCompletes ==
    phase = "param_ended" ~>
        (dev.ar = "data" \/ phase = "released" \/ faults > 0 \/ misled)
=============================================================================
