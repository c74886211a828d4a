------------------------------ MODULE RtaAlarm ------------------------------
(***************************************************************************)
(* The alarm listener of src/src/alarm_listener.rs on one alarm priority:  *)
(* the RTA sequence counters (RtaSequencer), the AlarmAck send window      *)
(* (AlarmChannel) and the listener thread, against a device that speaks    *)
(* the same window-of-one protocol over a network that loses frames.       *)
(*                                                                         *)
(* The device raises alarms 1, 2, ...; each is a DATA PDU that the         *)
(* listener transport-acknowledges (ACK PDU) and then answers with an      *)
(* AlarmAck, a DATA PDU of its own that the device transport-acknowledges. *)
(* One pass of the listener's loop touches no state shared with another    *)
(* thread but the run flag, so a pass is one step per frame.               *)
(***************************************************************************)
EXTENDS Naturals, Sequences, FiniteSets

CONSTANTS
  MaxAlarms,     \* bound: the device raises alarms 1..MaxAlarms
  Malformed,     \* alarms whose notification block does not parse
  SeqMod,        \* SEQ_NUM_MASK + 1 (2^15 in the code)
  Retries,       \* endpoint.rta_retries
  DeviceRetries, \* the device's own retransmissions before it aborts the AR
  ChannelCap,    \* bound: frames in flight in one direction; the next is lost
  LossBudget,    \* bound: how often the network loses or delays a frame
  MaxOvertakes,  \* bound: how often a frame overtakes the one before it
  OwnerStops,    \* does the owner stop the listener?
  RecvErrors     \* may the capture report a receive error?

ASSUME RtaAssumption ==
  /\ MaxAlarms \in Nat /\ Malformed \subseteq 1..MaxAlarms
  /\ SeqMod \in Nat \ {0, 1} /\ Retries \in Nat /\ DeviceRetries \in Nat
  /\ ChannelCap \in Nat \ {0} /\ LossBudget \in Nat /\ MaxOvertakes \in Nat
  /\ OwnerStops \in BOOLEAN /\ RecvErrors \in BOOLEAN

VARIABLES
  running,    \* AlarmListener.running
  thread,     \* the listener thread: "none", "up" or "exited"
  send,       \* RtaSequencer.send_seq_num
  sendO,      \* RtaSequencer.send_seq_num_o
  exp,        \* RtaSequencer.exp_seq_num
  expO,       \* RtaSequencer.exp_seq_num_o
  pending,    \* AlarmChannel.pending: at most one, a set of frames with retries
  queued,     \* AlarmChannel.queued: alarms whose AlarmAck waits for the window
  dev,        \* the device's counters, its unacknowledged alarm and retries
  toCtl,      \* frames on their way to the listener
  toDev,      \* frames on their way to the device
  lost,       \* how many frames were lost, or late for a timer, so far
  overtakes,  \* how many frames overtook another so far
  raised,     \* how many alarms the device has raised
  accepted,   \* history: how many DATA PDUs the listener has accepted
  delivered,  \* history: the alarms the callbacks saw
  acked,      \* history: the AlarmAcks the device accepted
  confirmed   \* history: the alarms whose AlarmAck the listener saw acknowledged

listener == <<running, thread>>
sequencer == <<send, sendO, exp, expO>>
window == <<pending, queued>>
network == <<toCtl, toDev, lost, overtakes>>
history == <<accepted, delivered, acked, confirmed>>
vars == <<listener, sequencer, window, dev, network, raised, history>>

-----------------------------------------------------------------------------
Alarms == 1..MaxAlarms

(* The counters start outside the range they then cycle through. *)
SEQ_NUM_INIT   == 2 * SeqMod - 1
SEQ_NUM_INIT_O == 2 * SeqMod - 2
SeqNums        == 0..SEQ_NUM_INIT
advance(n)     == (n + 1) % SeqMod

Pdu == [kind : {"data", "ack", "nack"}, seq : SeqNums, ack : SeqNums, body : 0..MaxAlarms]
pdu(kind, s, a, body) == [kind |-> kind, seq |-> s, ack |-> a, body |-> body]

(* Sending never fails the sender: a frame there is no room for is lost. *)
sent(channel, p) == IF Len(channel) < ChannelCap THEN Append(channel, p) ELSE channel

Init ==
  /\ running = FALSE /\ thread = "none"
  /\ send = SEQ_NUM_INIT /\ sendO = SEQ_NUM_INIT_O
  /\ exp = SEQ_NUM_INIT /\ expO = SEQ_NUM_INIT_O
  /\ pending = {} /\ queued = <<>>
  /\ dev = [send |-> SEQ_NUM_INIT, sendO |-> SEQ_NUM_INIT_O, exp |-> SEQ_NUM_INIT,
            expO |-> SEQ_NUM_INIT_O, alarm |-> 0, left |-> 0, aborted |-> FALSE]
  /\ toCtl = <<>> /\ toDev = <<>> /\ lost = 0 /\ overtakes = 0
  /\ raised = 0 /\ accepted = 0 /\ delivered = <<>> /\ acked = <<>> /\ confirmed = {}

-----------------------------------------------------------------------------
(* The owner: start() and stop() *)

Start ==
  /\ thread = "none" /\ ~running
  /\ running' = TRUE /\ thread' = "up"
  /\ toCtl' = <<>>
  /\ UNCHANGED <<sequencer, window, dev, toDev, lost, overtakes, raised, history>>

(* stop() clears the flag and joins; the thread's channels go with it. *)
Stop ==
  /\ OwnerStops /\ running
  /\ running' = FALSE /\ thread' = "exited"
  /\ pending' = {} /\ queued' = <<>>
  /\ UNCHANGED <<sequencer, dev, network, raised, history>>

(* The listener thread *)

(* sock.recv() fails: the loop breaks, and the run flag stays as it was. *)
RecvError ==
  /\ RecvErrors /\ thread = "up"
  /\ thread' = "exited"
  /\ pending' = {} /\ queued' = <<>>
  /\ UNCHANGED <<running, sequencer, dev, network, raised, history>>

(* A retransmission timer outlasts the round trip, unless the network delays    *)
(* what is still under way.                                                     *)
TimerFires ==
  /\ \/ toCtl = <<>> /\ toDev = <<>> /\ UNCHANGED lost
     \/ (toCtl # <<>> \/ toDev # <<>>) /\ lost < LossBudget /\ lost' = lost + 1
  /\ UNCHANGED overtakes

(* AlarmChannel::service() with the deadline of the pending AlarmAck passed. *)
Retransmit_Never == FALSE
Retransmit ==
  /\ thread = "up" /\ TimerFires
  /\ \E p \in pending :
       /\ p.left > 0
       /\ toDev' = sent(toDev, p.frame)
       /\ pending' = {[p EXCEPT !.left = @ - 1]}
  /\ UNCHANGED <<listener, sequencer, queued, dev, toCtl, raised, history>>

(* The tail of service(): with the window free, the next queued AlarmAck goes  *)
(* out under the current send counter.                                        *)
ServiceQueue_IgnoresWindow(free, q, s, eo, channel) ==
  IF q # <<>>
  THEN LET f == pdu("data", s, eo, Head(q)) IN
       /\ pending' = {[frame |-> f, left |-> Retries]}
       /\ queued' = Tail(q)
       /\ toDev' = sent(channel, f)
  ELSE UNCHANGED window /\ toDev' = channel
ServiceQueue(free, q, s, eo, channel) ==
  IF free /\ q # <<>>
  THEN LET f == pdu("data", s, eo, Head(q)) IN
       /\ pending' = {[frame |-> f, left |-> Retries]}
       /\ queued' = Tail(q)
       /\ toDev' = sent(channel, f)
  ELSE /\ pending' = IF free THEN {} ELSE pending
       /\ queued' = q
       /\ toDev' = channel

(* ... with the retries used up: the AlarmAck is given up silently. *)
GiveUp ==
  /\ thread = "up" /\ TimerFires
  /\ \E p \in pending : p.left = 0
  /\ ServiceQueue(TRUE, queued, send, expO, toDev)
  /\ UNCHANGED <<listener, sequencer, dev, toCtl, raised, history>>

(* ... with nothing pending. *)
Service ==
  /\ thread = "up" /\ pending = {} /\ queued # <<>>
  /\ ServiceQueue(TRUE, queued, send, expO, toDev)
  /\ UNCHANGED <<listener, sequencer, dev, toCtl, lost, overtakes, raised, history>>

Received(kind) == thread = "up" /\ toCtl # <<>> /\ Head(toCtl).kind = kind
Consume == toCtl' = Tail(toCtl) /\ UNCHANGED <<listener, dev, lost, overtakes, raised>>

(* RtaSequencer::on_pdu on an ACK: OurDataAcked, or Ignore for a stale one. *)
RecvAck ==
  /\ Received("ack") /\ Consume
  /\ IF Head(toCtl).ack = send
     THEN /\ send' = advance(send) /\ sendO' = send
          /\ pending' = {}
          /\ confirmed' = confirmed \cup {p.frame.body : p \in pending}
     ELSE UNCHANGED <<send, sendO, pending, confirmed>>
  /\ UNCHANGED <<exp, expO, queued, toDev, accepted, delivered, acked>>

RecvNack ==
  /\ Received("nack") /\ Consume
  /\ UNCHANGED <<sequencer, window, toDev, history>>

(* A DATA PDU already accepted: transport-acknowledge it again, nothing else. *)
RecvAgain_Processes ==
  /\ Received("data") /\ Consume
  /\ Head(toCtl).seq = expO
  /\ ServiceQueue(pending = {}, Append(queued, Head(toCtl).body), send, expO,
                  sent(toDev, pdu("ack", sendO, expO, 0)))
  /\ delivered' = Append(delivered, Head(toCtl).body)
  /\ UNCHANGED <<sequencer, accepted, acked, confirmed>>
RecvAgain ==
  /\ Received("data") /\ Consume
  /\ Head(toCtl).seq = expO
  /\ toDev' = sent(toDev, pdu("ack", sendO, expO, 0))
  /\ UNCHANGED <<sequencer, window, history>>

RecvOutOfSequence ==
  /\ Received("data") /\ Consume
  /\ Head(toCtl).seq \notin {exp, expO}
  /\ toDev' = sent(toDev, pdu("nack", sendO, expO, 0))
  /\ UNCHANGED <<sequencer, window, history>>

(* A DATA PDU in sequence: the counters move, a piggybacked acknowledgment     *)
(* included, the transport ACK goes out before the notification is parsed,     *)
(* then the AlarmAck is queued, the window serviced and the callbacks run.     *)
(* The code picks the AlarmAck's channel by the block type of the notification *)
(* and not by the frame it came in: one channel stands for both as long as a   *)
(* device sends alarms of a priority in frames of that priority.               *)
RecvAccept ==
  /\ Received("data") /\ Consume
  /\ LET p == Head(toCtl)
         piggyback == p.ack = send
         sendN  == IF piggyback THEN advance(send) ELSE send
         sendON == IF piggyback THEN send ELSE sendO
         acks   == sent(toDev, pdu("ack", sendON, exp, 0))
     IN /\ p.seq = exp /\ p.seq # expO
        /\ exp' = advance(exp) /\ expO' = exp
        /\ send' = sendN /\ sendO' = sendON
        /\ accepted' = accepted + 1
        /\ IF p.body \in Malformed
           THEN /\ toDev' = acks
                /\ UNCHANGED <<window, delivered>>
           ELSE /\ ServiceQueue(pending = {}, Append(queued, p.body), sendN, exp, acks)
                /\ delivered' = Append(delivered, p.body)
  /\ UNCHANGED <<acked, confirmed>>

Listener ==
  \/ Retransmit \/ GiveUp \/ Service
  \/ RecvAck \/ RecvNack \/ RecvAgain \/ RecvOutOfSequence \/ RecvAccept

-----------------------------------------------------------------------------
(* The device (external): the peer alarm protocol machines of IEC 61158-6-10,  *)
(* as alarm_listener.rs relies on them.                                       *)

ctlVars == <<listener, sequencer, window>>

DeviceRaise ==
  /\ ~dev.aborted /\ dev.alarm = 0 /\ raised < MaxAlarms
  /\ raised' = raised + 1
  /\ dev' = [dev EXCEPT !.alarm = raised + 1, !.left = DeviceRetries]
  /\ toCtl' = sent(toCtl, pdu("data", dev.send, dev.expO, raised + 1))
  /\ UNCHANGED <<ctlVars, toDev, lost, overtakes, history>>

DeviceRetransmit ==
  /\ ~dev.aborted /\ dev.alarm # 0 /\ dev.left > 0 /\ TimerFires
  /\ dev' = [dev EXCEPT !.left = @ - 1]
  /\ toCtl' = sent(toCtl, pdu("data", dev.send, dev.expO, dev.alarm))
  /\ UNCHANGED <<ctlVars, toDev, raised, history>>

DeviceAbort ==
  /\ ~dev.aborted /\ dev.alarm # 0 /\ dev.left = 0 /\ TimerFires
  /\ dev' = [dev EXCEPT !.aborted = TRUE]
  /\ UNCHANGED <<ctlVars, toCtl, toDev, raised, history>>

device_acked(d) == [d EXCEPT !.sendO = d.send, !.send = advance(d.send), !.alarm = 0]

DeviceRecv ==
  /\ ~dev.aborted /\ toDev # <<>>
  /\ toDev' = Tail(toDev)
  /\ LET p == Head(toDev)
         d == IF p.ack = dev.send /\ dev.alarm # 0 THEN device_acked(dev) ELSE dev
     IN CASE p.kind = "nack" -> UNCHANGED <<dev, toCtl, acked>>
          [] p.kind = "ack"  -> dev' = d /\ UNCHANGED <<toCtl, acked>>
          [] p.kind = "data" /\ p.seq = dev.expO ->
               /\ toCtl' = sent(toCtl, pdu("ack", dev.sendO, dev.expO, 0))
               /\ UNCHANGED <<dev, acked>>
          [] p.kind = "data" /\ p.seq \notin {dev.exp, dev.expO} ->
               /\ toCtl' = sent(toCtl, pdu("nack", dev.sendO, dev.expO, 0))
               /\ UNCHANGED <<dev, acked>>
          [] p.kind = "data" /\ p.seq = dev.exp ->
               /\ dev' = [d EXCEPT !.expO = dev.exp, !.exp = advance(dev.exp)]
               /\ toCtl' = sent(toCtl, pdu("ack", d.sendO, dev.exp, 0))
               /\ acked' = Append(acked, p.body)
  /\ UNCHANGED <<ctlVars, lost, overtakes, raised, accepted, delivered, confirmed>>

Device == DeviceRaise \/ DeviceRetransmit \/ DeviceAbort \/ DeviceRecv

-----------------------------------------------------------------------------
(* The network: frames are lost, a few arrive out of order; nobody reads a      *)
(* frame that arrives while no listener thread or no device is there.           *)

Lose ==
  /\ lost < LossBudget /\ lost' = lost + 1
  /\ \/ toCtl # <<>> /\ toCtl' = Tail(toCtl) /\ UNCHANGED toDev
     \/ toDev # <<>> /\ toDev' = Tail(toDev) /\ UNCHANGED toCtl
  /\ UNCHANGED <<ctlVars, dev, overtakes, raised, history>>

(* The second frame of a channel arrives before the first. *)
swapped(channel) == <<channel[2], channel[1]>> \o SubSeq(channel, 3, Len(channel))
Overtake ==
  /\ overtakes < MaxOvertakes /\ overtakes' = overtakes + 1
  /\ \/ Len(toCtl) > 1 /\ toCtl' = swapped(toCtl) /\ UNCHANGED toDev
     \/ Len(toDev) > 1 /\ toDev' = swapped(toDev) /\ UNCHANGED toCtl
  /\ UNCHANGED <<ctlVars, dev, lost, raised, history>>

Unread ==
  /\ \/ thread # "up" /\ toCtl # <<>> /\ toCtl' = Tail(toCtl) /\ UNCHANGED toDev
     \/ dev.aborted /\ toDev # <<>> /\ toDev' = Tail(toDev) /\ UNCHANGED toCtl
  /\ UNCHANGED <<ctlVars, dev, lost, overtakes, raised, history>>

Next == Start \/ Stop \/ RecvError \/ Listener \/ Device \/ Lose \/ Overtake \/ Unread

(* The listener thread runs, timers fire and the device keeps to its protocol; *)
(* no fairness on the owner, on errors or on losses.                           *)
Fairness == WF_vars(Listener) /\ WF_vars(Device) /\ WF_vars(Unread)

Spec == Init /\ [][Next]_vars
FairSpec == Spec /\ Fairness

-----------------------------------------------------------------------------
(* Correctness *)

(* Counters in range, one AlarmAck in the window, well-formed frames. *)
TypeOK ==
  /\ running \in BOOLEAN /\ thread \in {"none", "up", "exited"}
  /\ {send, sendO, exp, expO} \subseteq SeqNums
  /\ Cardinality(pending) <= 1
  /\ \A p \in pending : p.frame \in Pdu /\ p.left \in 0..Retries
  /\ queued \in Seq(Alarms) /\ toCtl \in Seq(Pdu) /\ toDev \in Seq(Pdu)
  /\ dev \in [send : SeqNums, sendO : SeqNums, exp : SeqNums, expO : SeqNums,
              alarm : 0..MaxAlarms, left : 0..DeviceRetries, aborted : BOOLEAN]
  /\ raised \in 0..MaxAlarms /\ accepted \in Nat /\ lost \in 0..LossBudget
  /\ overtakes \in 0..MaxOvertakes
  /\ delivered \in Seq(Alarms) /\ acked \in Seq(Alarms) /\ confirmed \subseteq Alarms

(* The listener implements AlarmDelivery: ReAck and the sequence check keep     *)
(* every retransmission from reaching the callbacks a second time, and the      *)
(* transport ACK that lets the device go on never skips an alarm.               *)
Abstract == INSTANCE AlarmDelivery WITH
  MaxAlarms <- MaxAlarms, Malformed <- Malformed,
  raised <- raised, accepted <- accepted, delivered <- delivered
DeliversInOrder == Abstract!Spec

(* The device never sees an AlarmAck for an alarm the application was not shown, *)
(* and sees them in the order of delivery, each at most once.                    *)
AcksFollowDelivery ==
  /\ \A i \in 1..Len(acked) : \E j \in 1..Len(delivered) : delivered[j] = acked[i]
  /\ \A i, j \in 1..Len(acked) : i < j => acked[i] < acked[j]

(* "A second AlarmAck sent before the first is acknowledged would carry the same *)
(* sequence number and be discarded as a duplicate" (AlarmChannel.queued): what  *)
(* the listener takes for acknowledged, the device did accept.                   *)
ConfirmedWasAccepted ==
  \A a \in confirmed : \E i \in 1..Len(acked) : acked[i] = a

(* Every alarm that parses is answered: while the listener is up and faults stay  *)
(* within what the retries cover, its AlarmAck reaches the device or the device   *)
(* has aborted the AR.                                                            *)
AlarmsAnswered ==
  \A a \in Alarms \ Malformed :
    (raised >= a /\ thread = "up") ~>
       ((\E i \in 1..Len(acked) : acked[i] = a) \/ dev.aborted \/ thread # "up")
=============================================================================
