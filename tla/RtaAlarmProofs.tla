-------------------------- MODULE RtaAlarmProofs --------------------------
(***************************************************************************)
(* Proofs about RtaAlarm for any number of losses, delays, overtakings and *)
(* retransmissions, any channel capacity and any number of alarms that     *)
(* does not wrap the sequence counters (32768 in the code).                *)
(***************************************************************************)
EXTENDS RtaAlarm, TLAPS

(* The sequence number of the k-th DATA PDU of one direction; the 0-th is the one *)
(* an endpoint acknowledges before it has accepted any.                           *)
Num(k) == IF k = 0 THEN SEQ_NUM_INIT_O ELSE IF k = 1 THEN SEQ_NUM_INIT ELSE k - 2

Peer == [send : SeqNums, sendO : SeqNums, exp : SeqNums, expO : SeqNums,
            alarm : 0..MaxAlarms, left : 0..DeviceRetries, aborted : BOOLEAN]

(* The counters count what was raised, accepted and acknowledged, and the device *)
(* has at most one alarm that was not accepted.                                  *)
CounterInv ==
    /\ raised \in 0..MaxAlarms /\ accepted \in 0..raised
    /\ exp = Num(accepted + 1) /\ expO = Num(accepted)
    /\ dev \in Peer /\ dev.alarm \in {0, raised}
    /\ dev.alarm = 0 => accepted = raised /\ dev.send = Num(raised + 1)
    /\ dev.alarm # 0 => dev.send = Num(raised)
    /\ dev.exp = Num(Len(acked) + 1) /\ dev.expO = Num(Len(acked))
    /\ sendO \in SeqNums /\ \E i \in 1..Len(acked) + 1 : send = Num(i)

Shown(dl) == {dl[j] : j \in DOMAIN dl}

(* AlarmAcks wait in the order of delivery, behind everything acknowledged. *)
Waiting(q, dl, ak) ==
    /\ q \in Seq(Alarms)
    /\ \A i \in DOMAIN q : q[i] \in Shown(dl)
    /\ \A i, j \in DOMAIN q : i < j => q[i] < q[j]
    /\ \A i \in DOMAIN q : \A j \in DOMAIN ak : ak[j] < q[i]

OrderInv ==
    /\ delivered \in Seq(1..accepted) /\ acked \in Seq(Alarms)
    /\ Waiting(queued, delivered, acked)
    /\ \A i \in DOMAIN acked : i <= acked[i] /\ acked[i] \in Shown(delivered)
    /\ \A i, j \in DOMAIN acked : i < j => acked[i] < acked[j]

(* Frames to the listener: the alarms raised under their numbers, and no          *)
(* acknowledgment of an AlarmAck that the device did not accept.                  *)
CtlFrame(r, m) ==
    {p \in Pdu : /\ p.kind = "data" => p.body \in 1..r /\ p.seq = Num(p.body)
                 /\ \E j \in 0..m : p.ack = Num(j)}

(* An AlarmAck under number i is later than those acknowledged under lower        *)
(* numbers and earlier than those that wait.                                      *)
AckFrame(p, dl, ak, q) ==
    /\ p.body \in Shown(dl)
    /\ \A j \in DOMAIN q : p.body < q[j]
    /\ \E i \in 1..Len(ak) + 1 : p.seq = Num(i) /\ \A j \in DOMAIN ak : j < i => ak[j] < p.body

DevFrame(n, dl, ak, q) ==
    {p \in Pdu : /\ p.kind = "data" => AckFrame(p, dl, ak, q)
                 /\ \E j \in 0..n : p.ack = Num(j)}

(* A DATA PDU in the window, with the retransmissions it has left. *)
Slot == [frame : Pdu, left : Nat]

FrameInv ==
    /\ toCtl \in Seq(CtlFrame(raised, Len(acked)))
    /\ toDev \in Seq(DevFrame(accepted, delivered, acked, queued))
    /\ \A p \in pending : p.frame \in DevFrame(accepted, delivered, acked, queued)
                          /\ p.frame.kind = "data" /\ p \in Slot

AlarmInv == CounterInv /\ OrderInv /\ FrameInv

(* No counter wraps: SeqMod is 32768 in the code. *)
NoWrap == MaxAlarms <= SeqMod

-----------------------------------------------------------------------------
(* Sequence numbers *)

LEMMA NumRange == ASSUME NoWrap, NEW k \in 0..MaxAlarms + 1 PROVE Num(k) \in SeqNums
  BY RtaAssumption DEF NoWrap, Num, SeqNums, SEQ_NUM_INIT, SEQ_NUM_INIT_O

LEMMA NumInjective ==
    ASSUME NoWrap, NEW j \in 0..MaxAlarms + 1, NEW k \in 0..MaxAlarms + 1, Num(j) = Num(k)
    PROVE  j = k
  BY RtaAssumption DEF NoWrap, Num, SEQ_NUM_INIT, SEQ_NUM_INIT_O

LEMMA NumAdvance ==
    ASSUME NoWrap, NEW k \in 1..MaxAlarms PROVE advance(Num(k)) = Num(k + 1)
  <1>1. MaxAlarms \in Nat /\ SeqMod \in Nat \ {0, 1}
    BY RtaAssumption
  <1>2. CASE k = 1
    <2>1. (2 * SeqMod) % SeqMod = 0
      BY <1>1
    <2>2. SEQ_NUM_INIT + 1 = 2 * SeqMod
      BY <1>1 DEF SEQ_NUM_INIT
    <2>3. Num(k) = SEQ_NUM_INIT /\ Num(k + 1) = 0
      BY <1>2 DEF Num
    <2> QED BY <2>1, <2>2, <2>3 DEF advance
  <1>3. CASE k # 1
    <2>1. PICK n \in Nat : n = k - 1 /\ n < SeqMod
      BY <1>1, <1>3 DEF NoWrap
    <2>2. n % SeqMod = n
      BY <1>1, <2>1
    <2>3. Num(k) + 1 = n /\ Num(k + 1) = n
      BY <1>1, <1>3, <2>1 DEF Num
    <2> QED BY <2>2, <2>3 DEF advance
  <1> QED BY <1>2, <1>3

-----------------------------------------------------------------------------
(* Channels *)

LEMMA SeqWidens ==
    ASSUME NEW S, NEW T, \A p \in S : p \in T, NEW c \in Seq(S) PROVE c \in Seq(T)
  OBVIOUS

LEMMA SentIn ==
    ASSUME NEW S, NEW c \in Seq(S), NEW p \in S PROVE sent(c, p) \in Seq(S)
  BY DEF sent

LEMMA TailIn ==
    ASSUME NEW S, NEW c \in Seq(S), c # <<>> PROVE Tail(c) \in Seq(S) /\ Head(c) \in S
  OBVIOUS

LEMMA SwappedIn ==
    ASSUME NEW S, NEW c \in Seq(S), Len(c) > 1 PROVE swapped(c) \in Seq(S)
  <1>1. Len(c) \in Nat /\ c[1] \in S /\ c[2] \in S
    OBVIOUS
  <1>2. <<c[2], c[1]>> \in Seq(S)
    BY <1>1
  <1>3. SubSeq(c, 3, Len(c)) \in Seq(S)
    BY <1>1
  <1> QED BY <1>2, <1>3 DEF swapped

LEMMA PduFields ==
    ASSUME NEW kind \in {"data", "ack", "nack"}, NEW s \in SeqNums, NEW a \in SeqNums,
           NEW body \in 0..MaxAlarms, NEW p, p = pdu(kind, s, a, body)
    PROVE  p \in Pdu /\ p.kind = kind /\ p.seq = s /\ p.ack = a /\ p.body = body
  BY DEF pdu, Pdu

LEMMA CtlWidens ==
    ASSUME NEW r \in Nat, NEW m \in Nat, NEW r2 \in Nat, NEW m2 \in Nat, r <= r2, m <= m2,
           NEW c \in Seq(CtlFrame(r, m))
    PROVE  c \in Seq(CtlFrame(r2, m2))
  <1>1. \A p \in CtlFrame(r, m) : p \in CtlFrame(r2, m2)
    <2>1. 1..r \subseteq 1..r2 /\ 0..m \subseteq 0..m2
      OBVIOUS
    <2> QED BY <2>1 DEF CtlFrame
  <1> QED BY <1>1, SeqWidens

-----------------------------------------------------------------------------
(* Frames to the device, as the rest moves on *)

(* AlarmAcks leave the queue. *)
LEMMA DevAfterQueue ==
    ASSUME NEW n, NEW dl, NEW ak, NEW q, NEW q2,
           \A j \in DOMAIN q2 : \E i \in DOMAIN q : q2[j] = q[i],
           NEW p \in DevFrame(n, dl, ak, q)
    PROVE  p \in DevFrame(n, dl, ak, q2)
  BY DEF DevFrame, AckFrame

(* One more alarm is accepted, and shown and queued unless it is malformed. *)
LEMMA DevAfterAccept ==
    ASSUME NEW n \in Nat, NEW dl \in Seq(1..n), NEW ak \in Seq(Alarms), NEW q \in Seq(Alarms),
           NEW dl2, NEW q2,
           \/ dl2 = dl /\ q2 = q
           \/ dl2 = Append(dl, n + 1) /\ q2 = Append(q, n + 1),
           NEW p \in DevFrame(n, dl, ak, q)
    PROVE  p \in DevFrame(n + 1, dl2, ak, q2)
  <1>1. \E j \in 0..n + 1 : p.ack = Num(j)
    BY DEF DevFrame
  <1>2. ASSUME p.kind = "data" PROVE AckFrame(p, dl2, ak, q2)
    <2>1. AckFrame(p, dl, ak, q)
      BY <1>2 DEF DevFrame
    <2>2. CASE dl2 = dl /\ q2 = q
      BY <2>1, <2>2
    <2>3. CASE dl2 = Append(dl, n + 1) /\ q2 = Append(q, n + 1)
      <3>1. PICK k \in DOMAIN dl : p.body = dl[k]
        BY <2>1 DEF AckFrame, Shown
      <3>2. k \in DOMAIN dl2 /\ dl2[k] = dl[k] /\ p.body \in 1..n
        BY <2>3, <3>1
      <3>3. p.body \in Shown(dl2)
        BY <3>1, <3>2 DEF Shown
      <3>4. \A j \in DOMAIN q2 : (j \in DOMAIN q /\ q2[j] = q[j]) \/ q2[j] = n + 1
        BY <2>3
      <3>5. \A j \in DOMAIN q2 : p.body < q2[j]
        BY <2>1, <3>2, <3>4 DEF AckFrame
      <3> QED BY <2>1, <3>3, <3>5 DEF AckFrame
    <2> QED BY <2>2, <2>3
  <1> QED BY <1>1, <1>2 DEF DevFrame

(* The device accepts one more AlarmAck. *)
LEMMA DevAfterAcked ==
    ASSUME NEW n, NEW dl, NEW ak \in Seq(Alarms), NEW q, NEW b \in Alarms,
           NEW p \in DevFrame(n, dl, ak, q)
    PROVE  p \in DevFrame(n, dl, Append(ak, b), q)
  <1>1. ASSUME p.kind = "data" PROVE AckFrame(p, dl, Append(ak, b), q)
    <2>1. AckFrame(p, dl, ak, q)
      BY <1>1 DEF DevFrame
    <2>2. PICK i \in 1..Len(ak) + 1 : p.seq = Num(i) /\ \A j \in DOMAIN ak : j < i => ak[j] < p.body
      BY <2>1 DEF AckFrame
    <2>3. PICK a2 : a2 = Append(ak, b)
      OBVIOUS
    <2>4. i \in 1..Len(a2) + 1
      BY <2>3
    <2>5. ASSUME NEW j \in DOMAIN a2, j < i PROVE a2[j] < p.body
      <3>1. j \in DOMAIN ak /\ a2[j] = ak[j]
        BY <2>3, <2>5
      <3> QED BY <2>2, <2>5, <3>1
    <2>6. AckFrame(p, dl, a2, q)
      BY <2>1, <2>2, <2>4, <2>5 DEF AckFrame
    <2> QED BY <2>3, <2>6
  <1> QED BY <1>1 DEF DevFrame

(* What service() leaves: the next AlarmAck sent, or the queue as it was. *)
Serviced(q, s, eo, channel) ==
    \/ /\ q # <<>>
       /\ \E f : /\ f = pdu("data", s, eo, Head(q))
                 /\ pending' = {[frame |-> f, left |-> Retries]}
                 /\ queued' = Tail(q) /\ toDev' = sent(channel, f)
    \/ pending' \in {{}, pending} /\ queued' = q /\ toDev' = channel

LEMMA ServiceQueueInv ==
    ASSUME NoWrap, NEW n \in 0..MaxAlarms, NEW dl, NEW ak \in Seq(Alarms),
           Len(ak) <= MaxAlarms, NEW q, Waiting(q, dl, ak),
           NEW i \in 1..Len(ak) + 1, NEW s, s = Num(i), NEW eo, eo = Num(n),
           NEW channel \in Seq(DevFrame(n, dl, ak, q)),
           \A p \in pending : p.frame \in DevFrame(n, dl, ak, q) /\ p.frame.kind = "data" /\ p \in Slot,
           Serviced(q, s, eo, channel)
    PROVE  /\ Waiting(queued', dl, ak)
           /\ toDev' \in Seq(DevFrame(n, dl, ak, queued'))
           /\ \A p \in pending' : p.frame \in DevFrame(n, dl, ak, queued') /\ p.frame.kind = "data" /\ p \in Slot
  <1>1. CASE q # <<>> /\ \E f : /\ f = pdu("data", s, eo, Head(q))
                               /\ pending' = {[frame |-> f, left |-> Retries]}
                               /\ queued' = Tail(q) /\ toDev' = sent(channel, f)
    <2>1. PICK f : /\ f = pdu("data", s, eo, Head(q))
                   /\ pending' = {[frame |-> f, left |-> Retries]}
                   /\ queued' = Tail(q) /\ toDev' = sent(channel, f)
      BY <1>1
    <2>2. pending' = {[frame |-> f, left |-> Retries]} /\ queued' = Tail(q) /\ toDev' = sent(channel, f)
      BY <2>1
    <2>3. PICK t : t = Tail(q)
      OBVIOUS
    <2>4. /\ q \in Seq(Alarms) /\ 1 \in DOMAIN q /\ Head(q) = q[1] /\ q[1] \in Alarms
          /\ t \in Seq(Alarms)
          /\ \A j \in DOMAIN t : j \in Nat /\ j > 0 /\ j + 1 \in DOMAIN q /\ t[j] = q[j + 1]
      BY <1>1, <2>3 DEF Waiting
    <2>5. Waiting(t, dl, ak) /\ \A j \in DOMAIN t : q[1] < t[j]
      <3>1. \A j \in DOMAIN t : t[j] \in Shown(dl) /\ \A k \in DOMAIN ak : ak[k] < t[j]
        BY <2>4 DEF Waiting
      <3>2. \A j \in DOMAIN t : q[1] < t[j]
        <4> TAKE j \in DOMAIN t
        <4>1. 1 < j + 1
          BY <2>4
        <4> QED BY <2>4, <4>1 DEF Waiting
      <3>3. \A j, k \in DOMAIN t : j < k => t[j] < t[k]
        <4> TAKE j, k \in DOMAIN t
        <4> HAVE j < k
        <4>1. j + 1 < k + 1
          BY <2>4
        <4> QED BY <2>4, <4>1 DEF Waiting
      <3> QED BY <2>4, <3>1, <3>2, <3>3 DEF Waiting
    <2>6. f \in DevFrame(n, dl, ak, t) /\ f.kind = "data"
      <3>1. s \in SeqNums /\ eo \in SeqNums
        <4>1. i \in 0..MaxAlarms + 1 /\ n \in 0..MaxAlarms + 1
          BY RtaAssumption
        <4> QED BY <4>1, NumRange
      <3>2. /\ f \in Pdu /\ f.kind = "data" /\ f.seq = s /\ f.ack = eo /\ f.body = q[1]
        <4>1. q[1] \in 0..MaxAlarms
          BY <2>4 DEF Alarms
        <4> QED BY <2>1, <2>4, <3>1, <4>1, PduFields
      <3>3. AckFrame(f, dl, ak, t)
        <4>1. f.body \in Shown(dl) /\ \A j \in DOMAIN ak : ak[j] < f.body
          BY <2>4, <3>2 DEF Waiting
        <4> QED BY <2>5, <3>2, <4>1 DEF AckFrame
      <3>4. \E j \in 0..n : f.ack = Num(j)
        BY <3>2
      <3> QED BY <3>2, <3>3, <3>4 DEF DevFrame
    <2>7. channel \in Seq(DevFrame(n, dl, ak, t))
      <3>1. \A j \in DOMAIN t : \E k \in DOMAIN q : t[j] = q[k]
        BY <2>4
      <3>2. \A p \in DevFrame(n, dl, ak, q) : p \in DevFrame(n, dl, ak, t)
        BY <3>1, DevAfterQueue
      <3> QED BY <3>2, SeqWidens
    <2>8. toDev' \in Seq(DevFrame(n, dl, ak, t))
      BY <2>2, <2>6, <2>7, SentIn
    <2>9. \A p \in pending' : p.frame = f /\ p \in Slot
      <3>1. f \in Pdu /\ Retries \in Nat
        BY <2>6, RtaAssumption DEF DevFrame
      <3> QED BY <2>2, <3>1 DEF Slot
    <2> QED BY <2>2, <2>3, <2>5, <2>6, <2>8, <2>9
  <1>2. CASE pending' \in {{}, pending} /\ queued' = q /\ toDev' = channel
    BY <1>2
  <1> QED BY <1>1, <1>2 DEF Serviced

-----------------------------------------------------------------------------
(* The steps.  What was acknowledged is bounded by what was accepted. *)

LEMMA AckedBound ==
    ASSUME AlarmInv
    PROVE  /\ Len(acked) \in 0..accepted /\ Len(acked) \in 0..MaxAlarms /\ accepted \in 0..MaxAlarms
           /\ raised \in 0..MaxAlarms
  <1>1. /\ acked \in Seq(Alarms) /\ delivered \in Seq(1..accepted) /\ accepted \in Nat /\ raised \in Nat
        /\ accepted <= raised /\ raised <= MaxAlarms /\ MaxAlarms \in Nat
    BY RtaAssumption DEF AlarmInv, CounterInv, OrderInv
  <1>2. \A b \in Shown(delivered) : b <= accepted /\ b \in Nat
    BY <1>1 DEF Shown
  <1>3. CASE Len(acked) # 0
    <2>1. PICK m \in Nat : m = Len(acked) /\ m \in DOMAIN acked
      BY <1>1, <1>3
    <2>2. m <= acked[m] /\ acked[m] \in Shown(delivered)
      BY <2>1 DEF AlarmInv, OrderInv
    <2> QED BY <1>1, <1>2, <2>1, <2>2
  <1> QED BY <1>1, <1>3

(* Steps that leave every counter and the order alone. *)
LEMMA OnlyFrames ==
    ASSUME AlarmInv,
           UNCHANGED <<raised, accepted, delivered, acked, sequencer, queued>>,
           dev' \in Peer, dev'.send = dev.send, dev'.exp = dev.exp, dev'.expO = dev.expO,
           dev'.alarm = dev.alarm,
           toCtl' \in Seq(CtlFrame(raised, Len(acked))),
           toDev' \in Seq(DevFrame(accepted, delivered, acked, queued)),
           \A p \in pending' : p.frame \in DevFrame(accepted, delivered, acked, queued)
                               /\ p.frame.kind = "data" /\ p \in Slot
    PROVE  AlarmInv'
  <1>1. CounterInv'
    BY DEF AlarmInv, CounterInv, sequencer
  <1>2. OrderInv'
    BY DEF AlarmInv, OrderInv
  <1>3. FrameInv'
    BY DEF FrameInv
  <1> QED BY <1>1, <1>2, <1>3 DEF AlarmInv

LEMMA InitInv == ASSUME NoWrap, Init PROVE AlarmInv
  <1>1. SEQ_NUM_INIT \in SeqNums /\ SEQ_NUM_INIT_O \in SeqNums /\ MaxAlarms \in Nat
    BY RtaAssumption DEF SEQ_NUM_INIT, SEQ_NUM_INIT_O, SeqNums
  <1>2. Num(0) = SEQ_NUM_INIT_O /\ Num(0 + 1) = SEQ_NUM_INIT /\ Num(1) = SEQ_NUM_INIT
    BY DEF Num
  <1>3. dev \in Peer
    BY <1>1, RtaAssumption DEF Init, Peer
  <1>4. CounterInv
    <2>1. Len(acked) = 0 /\ 1 \in 1..Len(acked) + 1
      BY DEF Init
    <2> QED BY <1>1, <1>2, <1>3, <2>1 DEF Init, CounterInv
  <1>5. OrderInv
    BY DEF Init, OrderInv, Waiting
  <1>6. FrameInv
    BY DEF Init, FrameInv
  <1> QED BY <1>4, <1>5, <1>6 DEF AlarmInv

(* What FrameInv says, and the frames both sides may send at any time. *)
LEMMA Channels ==
    ASSUME NoWrap, AlarmInv
    PROVE  /\ toCtl \in Seq(CtlFrame(raised, Len(acked)))
           /\ toDev \in Seq(DevFrame(accepted, delivered, acked, queued))
           /\ \A p \in pending : p.frame \in DevFrame(accepted, delivered, acked, queued)
                                 /\ p.frame.kind = "data" /\ p \in Slot
           /\ \A kind \in {"ack", "nack"} :
                pdu(kind, sendO, expO, 0) \in DevFrame(accepted, delivered, acked, queued)
           /\ \A kind \in {"ack", "nack"} :
                pdu(kind, dev.sendO, dev.expO, 0) \in CtlFrame(raised, Len(acked))
  <1>1. /\ sendO \in SeqNums /\ dev.sendO \in SeqNums /\ expO = Num(accepted)
        /\ dev.expO = Num(Len(acked))
    BY DEF AlarmInv, CounterInv, Peer
  <1>2. /\ Len(acked) \in 0..MaxAlarms + 1 /\ accepted \in 0..MaxAlarms + 1
        /\ Len(acked) \in 0..Len(acked) /\ accepted \in 0..accepted /\ 0 \in 0..MaxAlarms
    BY AckedBound, RtaAssumption
  <1>3. expO \in SeqNums /\ dev.expO \in SeqNums
    BY <1>1, <1>2, NumRange
  <1>4. ASSUME NEW kind \in {"ack", "nack"}
        PROVE  pdu(kind, sendO, expO, 0) \in DevFrame(accepted, delivered, acked, queued)
    <2>1. PICK p : p = pdu(kind, sendO, expO, 0)
      OBVIOUS
    <2>2. p \in Pdu /\ p.kind # "data" /\ p.ack = expO
      BY <1>1, <1>2, <1>3, <2>1, PduFields
    <2>3. p \in DevFrame(accepted, delivered, acked, queued)
      BY <1>1, <1>2, <2>2 DEF DevFrame
    <2> QED BY <2>1, <2>3
  <1>5. ASSUME NEW kind \in {"ack", "nack"}
        PROVE  pdu(kind, dev.sendO, dev.expO, 0) \in CtlFrame(raised, Len(acked))
    <2>1. PICK p : p = pdu(kind, dev.sendO, dev.expO, 0)
      OBVIOUS
    <2>2. p \in Pdu /\ p.kind # "data" /\ p.ack = dev.expO
      BY <1>1, <1>2, <1>3, <2>1, PduFields
    <2>3. p \in CtlFrame(raised, Len(acked))
      BY <1>1, <1>2, <2>2 DEF CtlFrame
    <2> QED BY <2>1, <2>3
  <1> QED BY <1>4, <1>5 DEF AlarmInv, FrameInv

LEMMA OwnerInv == ASSUME NoWrap, AlarmInv, Start \/ Stop \/ RecvError PROVE AlarmInv'
  <1>1. CASE Start
    <2>1. UNCHANGED <<raised, accepted, delivered, acked, sequencer, queued, dev, toDev, pending>>
          /\ toCtl' = <<>>
      BY <1>1 DEF Start, window, history
    <2>2. toCtl' \in Seq(CtlFrame(raised, Len(acked))) /\ dev \in Peer
      BY <2>1 DEF AlarmInv, CounterInv
    <2> QED BY <2>1, <2>2, Channels, OnlyFrames
  <1>2. CASE Stop \/ RecvError
    <2>1. /\ UNCHANGED <<raised, accepted, delivered, acked, sequencer, dev, toCtl, toDev>>
          /\ pending' = {} /\ queued' = <<>>
      BY <1>2 DEF Stop, RecvError, network, history
    <2>2. CounterInv'
      BY <2>1 DEF AlarmInv, CounterInv, sequencer
    <2>3. OrderInv'
      BY <2>1 DEF AlarmInv, OrderInv, Waiting
    <2>4. toDev \in Seq(DevFrame(accepted, delivered, acked, <<>>))
      <3>1. \A p \in DevFrame(accepted, delivered, acked, queued) :
              p \in DevFrame(accepted, delivered, acked, <<>>)
        BY DevAfterQueue
      <3> QED BY <3>1, Channels, SeqWidens
    <2>5. FrameInv'
      BY <2>1, <2>4, Channels DEF FrameInv
    <2> QED BY <2>2, <2>3, <2>5 DEF AlarmInv
  <1> QED BY <1>1, <1>2

LEMMA NetworkInv == ASSUME NoWrap, AlarmInv, Lose \/ Overtake \/ Unread PROVE AlarmInv'
  <1>1. /\ UNCHANGED <<raised, accepted, delivered, acked, sequencer, queued, dev, pending>>
        /\ \/ toCtl' = toCtl \/ (toCtl # <<>> /\ toCtl' = Tail(toCtl))
           \/ (Len(toCtl) > 1 /\ toCtl' = swapped(toCtl))
        /\ \/ toDev' = toDev \/ (toDev # <<>> /\ toDev' = Tail(toDev))
           \/ (Len(toDev) > 1 /\ toDev' = swapped(toDev))
    BY DEF Lose, Overtake, Unread, ctlVars, window, history
  <1>2. toCtl' \in Seq(CtlFrame(raised, Len(acked)))
    BY <1>1, Channels, TailIn, SwappedIn
  <1>3. toDev' \in Seq(DevFrame(accepted, delivered, acked, queued))
    BY <1>1, Channels, TailIn, SwappedIn
  <1>4. dev \in Peer
    BY DEF AlarmInv, CounterInv
  <1> QED BY <1>1, <1>2, <1>3, <1>4, Channels, OnlyFrames

LEMMA RepeatInv ==
    ASSUME NoWrap, AlarmInv, Retransmit \/ RecvNack \/ RecvAgain \/ RecvOutOfSequence PROVE AlarmInv'
  <1>0. dev \in Peer
    BY DEF AlarmInv, CounterInv
  <1>1. CASE Retransmit
    <2>1. PICK p \in pending : /\ toDev' = sent(toDev, p.frame)
                               /\ p.left > 0 /\ pending' = {[p EXCEPT !.left = @ - 1]}
      BY <1>1 DEF Retransmit
    <2>2. UNCHANGED <<raised, accepted, delivered, acked, sequencer, queued, dev, toCtl>>
      BY <1>1 DEF Retransmit, history
    <2>3. PICK f : f = p.frame
      OBVIOUS
    <2>4. f \in DevFrame(accepted, delivered, acked, queued) /\ f.kind = "data"
      BY <2>3, Channels
    <2>5. toDev' \in Seq(DevFrame(accepted, delivered, acked, queued))
      BY <2>1, <2>3, <2>4, Channels, SentIn
    <2>6. \A x \in pending' : x.frame = f /\ x \in Slot
      <3>1. p \in Slot
        BY Channels
      <3> QED BY <2>1, <2>3, <3>1 DEF Slot
    <2> QED BY <1>0, <2>2, <2>4, <2>5, <2>6, Channels, OnlyFrames
  <1>2. CASE RecvNack \/ RecvAgain \/ RecvOutOfSequence
    <2>1. /\ UNCHANGED <<raised, accepted, delivered, acked, sequencer, queued, dev, pending>>
          /\ toCtl # <<>> /\ toCtl' = Tail(toCtl)
          /\ \/ toDev' = toDev
             \/ \E kind \in {"ack", "nack"} : toDev' = sent(toDev, pdu(kind, sendO, expO, 0))
      BY <1>2 DEF RecvNack, RecvAgain, RecvOutOfSequence, Received, Consume, window, history
    <2>2. toCtl' \in Seq(CtlFrame(raised, Len(acked)))
      BY <2>1, Channels, TailIn
    <2>3. toDev' \in Seq(DevFrame(accepted, delivered, acked, queued))
      BY <2>1, Channels, SentIn
    <2> QED BY <1>0, <2>1, <2>2, <2>3, Channels, OnlyFrames
  <1> QED BY <1>1, <1>2

LEMMA DeviceTimerInv ==
    ASSUME NoWrap, AlarmInv, DeviceRetransmit \/ DeviceAbort PROVE AlarmInv'
  <1>0. /\ dev \in Peer /\ raised \in 0..MaxAlarms /\ Len(acked) \in 0..MaxAlarms
        /\ dev.expO = Num(Len(acked)) /\ dev.alarm \in {0, raised}
        /\ dev.alarm # 0 => dev.send = Num(raised)
    BY AckedBound DEF AlarmInv, CounterInv
  <1>1. CASE DeviceRetransmit
    <2>1. /\ UNCHANGED <<raised, accepted, delivered, acked, sequencer, queued, pending, toDev>>
          /\ dev.alarm # 0 /\ dev.left > 0 /\ dev' = [dev EXCEPT !.left = @ - 1]
          /\ toCtl' = sent(toCtl, pdu("data", dev.send, dev.expO, dev.alarm))
      BY <1>1 DEF DeviceRetransmit, ctlVars, window, history
    <2>2. /\ dev' \in Peer /\ dev'.send = dev.send /\ dev'.exp = dev.exp /\ dev'.expO = dev.expO
          /\ dev'.alarm = dev.alarm
      BY <1>0, <2>1, RtaAssumption DEF Peer
    <2>3. PICK p : p = pdu("data", dev.send, dev.expO, dev.alarm)
      OBVIOUS
    <2>4. p \in CtlFrame(raised, Len(acked))
      <3>1. p \in Pdu /\ p.kind = "data" /\ p.seq = Num(raised) /\ p.ack = Num(Len(acked)) /\ p.body = raised
        BY <1>0, <2>1, <2>3, PduFields DEF Peer
      <3> QED BY <1>0, <2>1, <3>1 DEF CtlFrame
    <2>5. toCtl' \in Seq(CtlFrame(raised, Len(acked)))
      BY <2>1, <2>3, <2>4, Channels, SentIn
    <2> QED BY <2>1, <2>2, <2>5, Channels, OnlyFrames
  <1>2. CASE DeviceAbort
    <2>1. /\ UNCHANGED <<raised, accepted, delivered, acked, sequencer, queued, pending, toDev, toCtl>>
          /\ dev' = [dev EXCEPT !.aborted = TRUE]
      BY <1>2 DEF DeviceAbort, ctlVars, window, history
    <2>2. /\ dev' \in Peer /\ dev'.send = dev.send /\ dev'.exp = dev.exp /\ dev'.expO = dev.expO
          /\ dev'.alarm = dev.alarm
      BY <1>0, <2>1 DEF Peer
    <2> QED BY <2>1, <2>2, Channels, OnlyFrames
  <1> QED BY <1>1, <1>2

LEMMA DeviceRaiseInv == ASSUME NoWrap, AlarmInv, DeviceRaise PROVE AlarmInv'
  <1>1. /\ UNCHANGED <<accepted, delivered, acked, sequencer, queued, pending, toDev>>
        /\ raised < MaxAlarms /\ raised' = raised + 1 /\ dev.alarm = 0
        /\ dev' = [dev EXCEPT !.alarm = raised + 1, !.left = DeviceRetries]
        /\ toCtl' = sent(toCtl, pdu("data", dev.send, dev.expO, raised + 1))
    BY DEF DeviceRaise, ctlVars, window, history
  <1>2. /\ dev \in Peer /\ raised \in 0..MaxAlarms /\ Len(acked) \in 0..MaxAlarms
        /\ dev.expO = Num(Len(acked)) /\ dev.send = Num(raised + 1) /\ accepted = raised
        /\ MaxAlarms \in Nat /\ Len(acked) \in Nat
    BY <1>1, AckedBound, RtaAssumption DEF AlarmInv, CounterInv
  <1>3. PICK r \in 1..MaxAlarms : r = raised + 1
    BY <1>1, <1>2
  <1>4. /\ dev' \in Peer /\ dev'.send = dev.send /\ dev'.exp = dev.exp /\ dev'.expO = dev.expO
        /\ dev'.alarm = r /\ dev'.sendO = dev.sendO
    <2>1. DeviceRetries \in 0..DeviceRetries /\ r \in 0..MaxAlarms
      BY RtaAssumption
    <2> QED BY <1>1, <1>2, <1>3, <2>1 DEF Peer
  <1>5. CounterInv'
    <2>1. raised' = r /\ r # 0 /\ r \in 0..MaxAlarms /\ accepted \in 0..r
      BY <1>1, <1>2, <1>3
    <2> QED BY <1>1, <1>2, <1>3, <1>4, <2>1 DEF AlarmInv, CounterInv, sequencer
  <1>6. OrderInv'
    BY <1>1 DEF AlarmInv, OrderInv
  <1>7. FrameInv'
    <2>1. PICK p : p = pdu("data", dev.send, dev.expO, r)
      OBVIOUS
    <2>2. p \in CtlFrame(r, Len(acked))
      <3>1. p \in Pdu /\ p.kind = "data" /\ p.seq = Num(r) /\ p.ack = Num(Len(acked)) /\ p.body = r
        BY <1>2, <1>3, <2>1, PduFields DEF Peer
      <3> QED BY <1>2, <3>1 DEF CtlFrame
    <2>3. toCtl \in Seq(CtlFrame(r, Len(acked)))
      BY <1>2, <1>3, Channels, CtlWidens
    <2>4. toCtl' \in Seq(CtlFrame(r, Len(acked)))
      BY <1>1, <1>3, <2>1, <2>2, <2>3, SentIn
    <2> QED BY <1>1, <1>3, <2>4, Channels DEF FrameInv
  <1> QED BY <1>5, <1>6, <1>7 DEF AlarmInv

-----------------------------------------------------------------------------
(* The window: AlarmAcks go out, are given up, or are acknowledged *)

(* service() keeps the invariant when it runs on the counters as they are. *)
LEMMA ServiceInv == ASSUME NoWrap, AlarmInv, GiveUp \/ Service PROVE AlarmInv'
  <1>1. /\ UNCHANGED <<raised, accepted, delivered, acked, sequencer, dev, toCtl>>
        /\ ServiceQueue(TRUE, queued, send, expO, toDev)
    BY DEF GiveUp, Service, history
  <1>2. CounterInv'
    BY <1>1 DEF AlarmInv, CounterInv, sequencer
  <1>3. PICK i \in 1..Len(acked) + 1 : send = Num(i)
    BY DEF AlarmInv, CounterInv
  <1>4. /\ Waiting(queued, delivered, acked) /\ acked \in Seq(Alarms) /\ expO = Num(accepted)
        /\ accepted \in 0..MaxAlarms /\ Len(acked) <= MaxAlarms
    BY AckedBound, RtaAssumption DEF AlarmInv, CounterInv, OrderInv
  <1>5. /\ Waiting(queued', delivered, acked)
        /\ toDev' \in Seq(DevFrame(accepted, delivered, acked, queued'))
        /\ \A p \in pending' : /\ p.frame \in DevFrame(accepted, delivered, acked, queued')
                               /\ p.frame.kind = "data" /\ p \in Slot
    <2>1. Serviced(queued, send, expO, toDev)
      BY <1>1 DEF ServiceQueue, Serviced
    <2>2. PICK n \in 0..MaxAlarms : n = accepted
      BY <1>4
    <2>3. PICK q, dl, s, c : q = queued /\ dl = delivered /\ s = send /\ c = toDev
      OBVIOUS
    <2>4. c \in Seq(DevFrame(n, dl, acked, q))
      BY <2>2, <2>3, Channels
    <2>5. \A p \in pending : p.frame \in DevFrame(n, dl, acked, q) /\ p.frame.kind = "data" /\ p \in Slot
      BY <2>2, <2>3, Channels
    <2>6. Serviced(q, s, expO, c)
      BY <2>1, <2>3
    <2>7. acked \in Seq(Alarms) /\ Len(acked) <= MaxAlarms
      BY <1>4
    <2>8. Waiting(q, dl, acked) /\ expO = Num(n) /\ s = Num(i)
      BY <1>3, <1>4, <2>2, <2>3
    <2>9. /\ Waiting(queued', dl, acked)
          /\ toDev' \in Seq(DevFrame(n, dl, acked, queued'))
          /\ \A p \in pending' : /\ p.frame \in DevFrame(n, dl, acked, queued')
                                 /\ p.frame.kind = "data" /\ p \in Slot
      BY <2>4, <2>5, <2>6, <2>7, <2>8, ServiceQueueInv
    <2> QED BY <2>2, <2>3, <2>9
  <1>6. OrderInv'
    BY <1>1, <1>5 DEF AlarmInv, OrderInv
  <1>7. FrameInv'
    BY <1>1, <1>5, Channels DEF FrameInv
  <1> QED BY <1>2, <1>6, <1>7 DEF AlarmInv

(* A frame that acknowledges the AlarmAck in the window: the device accepted it, *)
(* so the next number is one it expects.                                         *)
LEMMA SendAdvances ==
    ASSUME NoWrap, AlarmInv, NEW p \in CtlFrame(raised, Len(acked)), p.ack = send
    PROVE  /\ send \in SeqNums
           /\ \E i \in 1..Len(acked) + 1 : advance(send) = Num(i)
  <1>1. PICK i \in 1..Len(acked) + 1 : send = Num(i)
    BY DEF AlarmInv, CounterInv
  <1>2. PICK j \in 0..Len(acked) : p.ack = Num(j)
    BY DEF CtlFrame
  <1>3. Len(acked) \in Nat /\ Len(acked) <= MaxAlarms /\ MaxAlarms \in Nat
    BY AckedBound, RtaAssumption
  <1>4. i \in 0..MaxAlarms + 1 /\ j \in 0..MaxAlarms + 1
    BY <1>3
  <1>5. i = j
    BY <1>1, <1>2, <1>4, NumInjective
  <1>6. i \in 1..MaxAlarms /\ i + 1 \in 1..Len(acked) + 1
    BY <1>3, <1>5
  <1>7. advance(send) = Num(i + 1)
    BY <1>1, <1>6, NumAdvance
  <1> QED BY <1>1, <1>4, <1>6, <1>7, NumRange

LEMMA RecvAckInv == ASSUME NoWrap, AlarmInv, RecvAck PROVE AlarmInv'
  <1>1. /\ UNCHANGED <<raised, accepted, delivered, acked, exp, expO, queued, dev, toDev>>
        /\ toCtl # <<>> /\ toCtl' = Tail(toCtl)
    BY DEF RecvAck, Received, Consume
  <1>2. /\ Head(toCtl) \in CtlFrame(raised, Len(acked))
        /\ toCtl' \in Seq(CtlFrame(raised, Len(acked)))
    BY <1>1, Channels, TailIn
  <1>3. \/ Head(toCtl).ack = send /\ send' = advance(send) /\ sendO' = send /\ pending' = {}
        \/ UNCHANGED <<send, sendO, pending>>
    BY DEF RecvAck
  <1>4. sendO' \in SeqNums /\ \E i \in 1..Len(acked) + 1 : send' = Num(i)
    BY <1>2, <1>3, SendAdvances DEF AlarmInv, CounterInv
  <1>5. CounterInv'
    BY <1>1, <1>4 DEF AlarmInv, CounterInv
  <1>6. OrderInv'
    BY <1>1 DEF AlarmInv, OrderInv
  <1>7. \A p \in pending' : /\ p.frame \in DevFrame(accepted, delivered, acked, queued)
                            /\ p.frame.kind = "data" /\ p \in Slot
    BY <1>3, Channels
  <1>8. FrameInv'
    BY <1>1, <1>2, <1>7, Channels DEF FrameInv
  <1> QED BY <1>5, <1>6, <1>8 DEF AlarmInv

-----------------------------------------------------------------------------
(* The listener accepts a DATA PDU *)

(* The one in sequence is the alarm after the last accepted. *)
LEMMA InSequence ==
    ASSUME NoWrap, AlarmInv, RecvAccept
    PROVE  Head(toCtl).body = accepted + 1 /\ accepted < raised /\ dev.alarm # 0
  <1>1. toCtl # <<>> /\ Head(toCtl).kind = "data" /\ Head(toCtl).seq = exp
    BY DEF RecvAccept, Received
  <1>2. PICK p \in CtlFrame(raised, Len(acked)) : p = Head(toCtl)
    BY <1>1, Channels, TailIn
  <1>3. p.body \in 1..raised /\ p.seq = Num(p.body)
    BY <1>1, <1>2 DEF CtlFrame
  <1>4. exp = Num(accepted + 1)
    BY DEF AlarmInv, CounterInv
  <1>5. raised \in 0..MaxAlarms /\ accepted \in 0..MaxAlarms /\ MaxAlarms \in Nat
    BY AckedBound, RtaAssumption
  <1>6. p.body \in 0..MaxAlarms + 1 /\ accepted + 1 \in 0..MaxAlarms + 1
    BY <1>3, <1>5
  <1>7. p.body = accepted + 1
    BY <1>1, <1>2, <1>3, <1>4, <1>6, NumInjective
  <1>8. accepted < raised
    BY <1>3, <1>5, <1>7
  <1>9. dev.alarm # 0
    BY <1>5, <1>8 DEF AlarmInv, CounterInv
  <1> QED BY <1>2, <1>7, <1>8, <1>9

(* The counters, and the transport ACK of what was just accepted. *)
LEMMA AcceptCounters ==
    ASSUME NoWrap, AlarmInv, RecvAccept
    PROVE  /\ CounterInv'
           /\ accepted' = accepted + 1 /\ accepted' \in 0..MaxAlarms /\ exp = Num(accepted')
           /\ UNCHANGED <<raised, acked, dev>> /\ toCtl' \in Seq(CtlFrame(raised, Len(acked)))
           /\ \E i \in 1..Len(acked) + 1 : send' = Num(i)
           /\ \A dl, q : pdu("ack", sendO', exp, 0) \in DevFrame(accepted', dl, acked, q)
  <1>1. /\ toCtl # <<>> /\ toCtl' = Tail(toCtl) /\ UNCHANGED <<raised, acked, dev>>
        /\ accepted' = accepted + 1 /\ exp' = advance(exp) /\ expO' = exp
    BY DEF RecvAccept, Received, Consume
  <1>2. /\ Head(toCtl) \in CtlFrame(raised, Len(acked))
        /\ toCtl' \in Seq(CtlFrame(raised, Len(acked)))
    BY <1>1, Channels, TailIn
  <1>3. \/ Head(toCtl).ack = send /\ send' = advance(send) /\ sendO' = send
        \/ send' = send /\ sendO' = sendO
    BY DEF RecvAccept
  <1>4. sendO' \in SeqNums /\ \E i \in 1..Len(acked) + 1 : send' = Num(i)
    BY <1>2, <1>3, SendAdvances DEF AlarmInv, CounterInv
  <1>5. /\ raised \in 0..MaxAlarms /\ accepted \in Nat /\ accepted < raised /\ MaxAlarms \in Nat
        /\ exp = Num(accepted + 1) /\ dev.alarm # 0
    BY AckedBound, InSequence, RtaAssumption DEF AlarmInv, CounterInv
  <1>6. PICK n \in 1..MaxAlarms : n = accepted + 1 /\ n \in 0..raised
    BY <1>5
  <1>7. exp' = Num(n + 1) /\ expO' = Num(n) /\ accepted' = n
    BY <1>1, <1>5, <1>6, NumAdvance
  <1>8. CounterInv'
    BY <1>1, <1>4, <1>5, <1>6, <1>7 DEF AlarmInv, CounterInv
  <1>9. ASSUME NEW dl, NEW q PROVE pdu("ack", sendO', exp, 0) \in DevFrame(n, dl, acked, q)
    <2>1. exp \in SeqNums
      <3>1. n \in 0..MaxAlarms + 1
        BY <1>5
      <3> QED BY <1>1, <1>7, <3>1, NumRange
    <2>2. PICK s : s = sendO'
      OBVIOUS
    <2>3. PICK p : p = pdu("ack", s, exp, 0)
      OBVIOUS
    <2>4. p \in Pdu /\ p.kind = "ack" /\ p.ack = exp
      <3>1. 0 \in 0..MaxAlarms /\ s \in SeqNums
        BY <1>4, <1>5, <2>2
      <3> QED BY <2>1, <2>3, <3>1, PduFields
    <2>5. n \in 0..n
      OBVIOUS
    <2>6. p \in DevFrame(n, dl, acked, q)
      BY <1>1, <1>7, <2>4, <2>5 DEF DevFrame
    <2> QED BY <2>2, <2>3, <2>6
  <1> QED BY <1>1, <1>2, <1>4, <1>5, <1>6, <1>7, <1>8, <1>9

LEMMA RecvAcceptInv == ASSUME NoWrap, AlarmInv, RecvAccept PROVE AlarmInv'
  <1>1. PICK n \in 0..MaxAlarms : n = accepted' /\ n = accepted + 1 /\ accepted \in Nat
    BY AcceptCounters, AckedBound
  <1>2. PICK b : b = Head(toCtl).body /\ b = n
    BY <1>1, InSequence
  <1>3. PICK sn, so : sn = send' /\ so = sendO'
    OBVIOUS
  <1>4. PICK f : f = pdu("ack", so, exp, 0)
    OBVIOUS
  <1>5. /\ UNCHANGED <<raised, acked, dev>> /\ toCtl' \in Seq(CtlFrame(raised, Len(acked)))
        /\ CounterInv' /\ exp = Num(n) /\ \A dl, q : f \in DevFrame(n, dl, acked, q)
    BY <1>1, <1>3, <1>4, AcceptCounters
  <1>6. /\ delivered \in Seq(1..accepted) /\ acked \in Seq(Alarms) /\ queued \in Seq(Alarms)
        /\ Waiting(queued, delivered, acked) /\ Len(acked) \in 0..MaxAlarms
        /\ toDev \in Seq(DevFrame(accepted, delivered, acked, queued))
        /\ \A p \in pending : /\ p.frame \in DevFrame(accepted, delivered, acked, queued)
                              /\ p.frame.kind = "data" /\ p \in Slot
    BY AckedBound, Channels DEF AlarmInv, OrderInv, Waiting
  <1>7. n \in Alarms /\ 1..accepted \subseteq 1..n
    BY <1>1 DEF Alarms
  <1>8. CASE b \in Malformed
    <2>1. toDev' = sent(toDev, f) /\ UNCHANGED <<window, delivered>>
      <3>1. toDev' = sent(toDev, pdu("ack", sendO', exp, 0)) /\ UNCHANGED <<window, delivered>>
        BY <1>2, <1>8 DEF RecvAccept
      <3> QED BY <1>3, <1>4, <3>1
    <2>2. \A p \in DevFrame(accepted, delivered, acked, queued) : p \in DevFrame(n, delivered, acked, queued)
      BY <1>1, <1>6, DevAfterAccept
    <2>3. toDev' \in Seq(DevFrame(n, delivered, acked, queued))
      BY <1>5, <1>6, <2>1, <2>2, SeqWidens, SentIn
    <2>4. OrderInv'
      <3>1. delivered \in Seq(1..n)
        BY <1>6, <1>7, SeqWidens
      <3> QED BY <1>1, <1>5, <2>1, <3>1 DEF AlarmInv, OrderInv, window
    <2>5. FrameInv'
      BY <1>1, <1>5, <1>6, <2>1, <2>2, <2>3 DEF FrameInv, window
    <2> QED BY <1>5, <2>4, <2>5 DEF AlarmInv
  <1>9. CASE b \notin Malformed
    <2>1. PICK c, q, dl : c = sent(toDev, f) /\ q = Append(queued, n) /\ dl = Append(delivered, n)
      OBVIOUS
    <2>2. delivered' = dl /\ Serviced(q, sn, exp, c)
      <3>1. /\ delivered' = Append(delivered, Head(toCtl).body)
            /\ ServiceQueue(pending = {}, Append(queued, Head(toCtl).body), sn, exp,
                            sent(toDev, pdu("ack", so, exp, 0)))
        BY <1>2, <1>3, <1>9 DEF RecvAccept
      <3> QED BY <1>2, <1>4, <2>1, <3>1 DEF ServiceQueue, Serviced
    <2>3. \A p \in DevFrame(accepted, delivered, acked, queued) : p \in DevFrame(n, dl, acked, q)
      BY <1>1, <1>6, <2>1, DevAfterAccept
    <2>4. c \in Seq(DevFrame(n, dl, acked, q))
      BY <1>5, <1>6, <2>1, <2>3, SeqWidens, SentIn
    <2>5. dl \in Seq(1..n) /\ \A x \in Shown(delivered) : x \in Shown(dl) /\ x < n /\ x \in Nat
      <3>1. /\ dl \in Seq(1..n)
            /\ \A k \in DOMAIN delivered : /\ k \in DOMAIN dl /\ dl[k] = delivered[k]
                                           /\ delivered[k] \in 1..accepted
        BY <1>1, <1>6, <1>7, <2>1
      <3> QED BY <1>1, <3>1 DEF Shown
    <2>6. n \in Shown(dl)
      <3>1. Len(dl) \in DOMAIN dl /\ dl[Len(dl)] = n
        BY <1>6, <2>1
      <3> QED BY <3>1 DEF Shown
    <2>7. \A j \in DOMAIN acked : acked[j] \in Shown(delivered)
      BY DEF AlarmInv, OrderInv
    <2>8. Waiting(q, dl, acked)
      <3>1. /\ q \in Seq(Alarms) /\ DOMAIN q = 1..Len(queued) + 1 /\ Len(queued) \in Nat
            /\ DOMAIN queued = 1..Len(queued) /\ q[Len(queued) + 1] = n
            /\ \A i \in DOMAIN queued : q[i] = queued[i]
        BY <1>6, <1>7, <2>1
      <3>2. \A i \in DOMAIN q : i \in DOMAIN queued \/ (i = Len(queued) + 1 /\ q[i] = n)
        BY <3>1
      <3>3. \A i \in DOMAIN q : q[i] \in Shown(dl)
        BY <1>6, <2>5, <2>6, <3>1, <3>2 DEF Waiting
      <3>4. \A i, j \in DOMAIN q : i < j => q[i] < q[j]
        <4> TAKE i, j \in DOMAIN q
        <4> HAVE i < j
        <4>1. i \in DOMAIN queued
          BY <3>1
        <4>2. CASE j \in DOMAIN queued
          BY <1>6, <3>1, <4>1, <4>2 DEF Waiting
        <4>3. CASE q[j] = n
          BY <1>6, <2>5, <3>1, <4>1, <4>3 DEF Waiting
        <4> QED BY <3>2, <4>2, <4>3
      <3>5. \A i \in DOMAIN q : \A j \in DOMAIN acked : acked[j] < q[i]
        BY <1>6, <2>5, <2>7, <3>1, <3>2 DEF Waiting
      <3> QED BY <3>1, <3>3, <3>4, <3>5 DEF Waiting
    <2>9. PICK i \in 1..Len(acked) + 1 : sn = Num(i)
      BY <1>3, AcceptCounters
    <2>10. Len(acked) <= MaxAlarms
      BY <1>6, RtaAssumption
    <2>11. \A p \in pending : p.frame \in DevFrame(n, dl, acked, q) /\ p.frame.kind = "data" /\ p \in Slot
      BY <1>6, <2>3
    <2>12. /\ Waiting(queued', dl, acked)
           /\ toDev' \in Seq(DevFrame(n, dl, acked, queued'))
           /\ \A p \in pending' : /\ p.frame \in DevFrame(n, dl, acked, queued')
                                  /\ p.frame.kind = "data" /\ p \in Slot
      BY <1>5, <1>6, <2>2, <2>4, <2>8, <2>9, <2>10, <2>11, ServiceQueueInv
    <2>13. OrderInv'
      BY <1>1, <1>5, <2>2, <2>5, <2>12 DEF AlarmInv, OrderInv
    <2>14. FrameInv'
      BY <1>1, <1>5, <2>2, <2>12 DEF FrameInv
    <2> QED BY <1>5, <2>13, <2>14 DEF AlarmInv
  <1> QED BY <1>8, <1>9

-----------------------------------------------------------------------------
(* The device receives a frame *)

(* What CounterInv says of the device's unacknowledged alarm. *)
Outstanding(d) ==
    /\ d \in Peer /\ d.alarm \in {0, raised}
    /\ d.alarm = 0 => accepted = raised /\ d.send = Num(raised + 1)
    /\ d.alarm # 0 => d.send = Num(raised)

(* A frame that acknowledges the device's alarm: the listener accepted it. *)
LEMMA AlarmAcknowledged ==
    ASSUME NoWrap, AlarmInv, NEW p \in DevFrame(accepted, delivered, acked, queued), NEW d,
           d = IF p.ack = dev.send /\ dev.alarm # 0 THEN device_acked(dev) ELSE dev
    PROVE  Outstanding(d) /\ d.exp = dev.exp /\ d.expO = dev.expO
  <1>1. Outstanding(dev)
    BY DEF AlarmInv, CounterInv, Outstanding
  <1>2. CASE ~(p.ack = dev.send /\ dev.alarm # 0)
    BY <1>1, <1>2
  <1>3. CASE p.ack = dev.send /\ dev.alarm # 0
    <2>1. PICK j \in 0..accepted : p.ack = Num(j)
      BY DEF DevFrame
    <2>2. /\ raised \in 0..MaxAlarms /\ accepted \in 0..raised /\ MaxAlarms \in Nat
          /\ dev.send = Num(raised) /\ dev.alarm = raised
      BY <1>1, <1>3, RtaAssumption DEF AlarmInv, CounterInv, Outstanding
    <2>3. j \in 0..MaxAlarms + 1 /\ raised \in 0..MaxAlarms + 1
      BY <2>2
    <2>4. j = raised
      BY <1>3, <2>1, <2>2, <2>3, NumInjective
    <2>5. accepted = raised /\ raised \in 1..MaxAlarms /\ raised + 1 \in 0..MaxAlarms + 1
      BY <1>3, <2>2, <2>4
    <2>6. advance(dev.send) = Num(raised + 1) /\ advance(dev.send) \in SeqNums
      BY <2>2, <2>5, NumAdvance, NumRange
    <2>7. d = [dev EXCEPT !.sendO = dev.send, !.send = advance(dev.send), !.alarm = 0]
      BY <1>3 DEF device_acked
    <2>8. /\ d \in Peer /\ d.alarm = 0 /\ d.send = advance(dev.send)
          /\ d.exp = dev.exp /\ d.expO = dev.expO
      <3>1. dev \in Peer /\ 0 \in 0..MaxAlarms
        BY <1>1, <2>2 DEF Outstanding
      <3> QED BY <2>6, <2>7, <3>1 DEF Peer
    <2> QED BY <2>5, <2>6, <2>8 DEF Outstanding
  <1> QED BY <1>2, <1>3

(* The AlarmAck in sequence is later than every one accepted before. *)
LEMMA AckInSequence ==
    ASSUME NoWrap, AlarmInv, NEW p \in DevFrame(accepted, delivered, acked, queued),
           p.kind = "data", p.seq = dev.exp
    PROVE  /\ p.body \in Shown(delivered) /\ p.body \in Alarms
           /\ \A j \in DOMAIN acked : acked[j] < p.body
           /\ \A j \in DOMAIN queued : p.body < queued[j]
           /\ Len(acked) + 1 <= p.body /\ Len(acked) + 1 \in 1..MaxAlarms
  <1>1. AckFrame(p, delivered, acked, queued)
    BY DEF DevFrame
  <1>2. PICK i \in 1..Len(acked) + 1 : p.seq = Num(i) /\ \A j \in DOMAIN acked : j < i => acked[j] < p.body
    BY <1>1 DEF AckFrame
  <1>3. /\ Len(acked) \in Nat /\ Len(acked) <= MaxAlarms /\ MaxAlarms \in Nat
        /\ accepted \in 0..MaxAlarms /\ dev.exp = Num(Len(acked) + 1)
    BY AckedBound, RtaAssumption DEF AlarmInv, CounterInv
  <1>4. i \in 0..MaxAlarms + 1 /\ Len(acked) + 1 \in 0..MaxAlarms + 1
    BY <1>3
  <1>5. i = Len(acked) + 1
    BY <1>2, <1>3, <1>4, NumInjective
  <1>6. acked \in Seq(Alarms) /\ delivered \in Seq(1..accepted) /\ DOMAIN acked = 1..Len(acked)
    BY DEF AlarmInv, OrderInv
  <1>7. \A j \in DOMAIN acked : acked[j] < p.body
    BY <1>2, <1>3, <1>5, <1>6
  <1>8. p.body \in Shown(delivered) /\ \A j \in DOMAIN queued : p.body < queued[j]
    BY <1>1 DEF AckFrame
  <1>9. p.body \in 1..accepted
    <2>1. PICK k \in DOMAIN delivered : p.body = delivered[k]
      BY <1>8 DEF Shown
    <2>2. delivered \in Seq(1..accepted)
      BY <1>6
    <2>3. delivered[k] \in 1..accepted
      BY <1>3, <2>1, <2>2
    <2> QED BY <2>1, <2>3
  <1>10. Len(acked) + 1 <= p.body
    <2>1. CASE Len(acked) = 0
      BY <1>3, <1>9, <2>1
    <2>2. CASE Len(acked) # 0
      <3>1. PICK m \in Nat : m = Len(acked) /\ m \in DOMAIN acked
        <4>1. Len(acked) \in 1..Len(acked)
          BY <1>3, <2>2
        <4> QED BY <1>3, <1>6, <4>1
      <3>2. m <= acked[m]
        BY <3>1 DEF AlarmInv, OrderInv
      <3>3. acked[m] \in Alarms
        BY <1>6, <3>1
      <3>4. acked[m] \in Nat
        BY <1>3, <3>3 DEF Alarms
      <3> QED BY <1>3, <1>7, <1>9, <3>1, <3>2, <3>4
    <2> QED BY <2>1, <2>2
  <1> QED BY <1>3, <1>7, <1>8, <1>9, <1>10 DEF Alarms

(* The device accepts an AlarmAck. *)
LEMMA DeviceAccepts ==
    ASSUME NoWrap, AlarmInv, NEW p \in DevFrame(accepted, delivered, acked, queued),
           p.kind = "data", p.seq = dev.exp, NEW d, Outstanding(d),
           UNCHANGED <<raised, accepted, delivered, sequencer, queued, pending>>,
           toDev # <<>>, toDev' = Tail(toDev),
           dev' = [d EXCEPT !.expO = dev.exp, !.exp = advance(dev.exp)],
           toCtl' = sent(toCtl, pdu("ack", d.sendO, dev.exp, 0)),
           acked' = Append(acked, p.body)
    PROVE  AlarmInv'
  <1>1. PICK b \in Alarms : b = p.body
    BY AckInSequence
  <1>2. PICK ak : ak = Append(acked, b)
    OBVIOUS
  <1>3. acked' = ak /\ acked \in Seq(Alarms)
    BY <1>1, <1>2 DEF AlarmInv, OrderInv
  <1>4. PICK m \in 1..MaxAlarms : m = Len(acked) + 1 /\ m <= b /\ Len(acked) \in Nat
    BY <1>1, AckInSequence, AckedBound
  <1>5. /\ ak \in Seq(Alarms) /\ Len(ak) = m /\ DOMAIN ak = 1..m /\ ak[m] = b
        /\ DOMAIN acked = 1..m - 1 /\ \A j \in DOMAIN acked : ak[j] = acked[j] /\ j < m
        /\ \A j \in DOMAIN ak : j \in DOMAIN acked \/ j = m
    BY <1>2, <1>3, <1>4
  <1>6. /\ MaxAlarms \in Nat /\ m \in 0..MaxAlarms + 1 /\ m + 1 \in 0..MaxAlarms + 1
    BY RtaAssumption
  <1>7. /\ dev.exp = Num(m) /\ advance(dev.exp) = Num(m + 1)
        /\ dev.exp \in SeqNums /\ advance(dev.exp) \in SeqNums
    <2>1. dev.exp = Num(m)
      BY <1>4 DEF AlarmInv, CounterInv
    <2> QED BY <1>6, <2>1, NumAdvance, NumRange
  <1>8. CounterInv'
    <2>1. /\ dev' \in Peer /\ dev'.alarm = d.alarm /\ dev'.send = d.send
          /\ dev'.expO = Num(m) /\ dev'.exp = Num(m + 1)
      BY <1>7 DEF Outstanding, Peer
    <2>2. sendO \in SeqNums /\ \E i \in 1..m + 1 : send = Num(i)
      BY <1>4 DEF AlarmInv, CounterInv
    <2>3. /\ raised' \in 0..MaxAlarms /\ accepted' \in 0..raised'
          /\ exp' = Num(accepted' + 1) /\ expO' = Num(accepted')
      BY DEF AlarmInv, CounterInv, sequencer
    <2> QED BY <1>3, <1>5, <2>1, <2>2, <2>3 DEF CounterInv, Outstanding, sequencer
  <1>9. OrderInv'
    <2>1. /\ \A j \in DOMAIN acked : j <= acked[j] /\ acked[j] \in Shown(delivered) /\ acked[j] < b
          /\ b \in Shown(delivered) /\ \A j \in DOMAIN queued : b < queued[j]
          /\ \A i, j \in DOMAIN acked : i < j => acked[i] < acked[j]
      BY <1>1, AckInSequence DEF AlarmInv, OrderInv
    <2>2. Waiting(queued, delivered, ak)
      BY <1>5, <2>1 DEF AlarmInv, OrderInv, Waiting
    <2>3. \A i \in DOMAIN ak : i <= ak[i] /\ ak[i] \in Shown(delivered)
      BY <1>4, <1>5, <2>1
    <2>4. \A i, j \in DOMAIN ak : i < j => ak[i] < ak[j]
      <3> TAKE i, j \in DOMAIN ak
      <3> HAVE i < j
      <3>1. i \in DOMAIN acked
        BY <1>5
      <3> QED BY <1>5, <2>1, <3>1
    <2> QED BY <1>3, <1>5, <2>2, <2>3, <2>4 DEF AlarmInv, OrderInv
  <1>10. FrameInv'
    <2>1. \A x \in DevFrame(accepted, delivered, acked, queued) :
            x \in DevFrame(accepted, delivered, ak, queued)
      BY <1>2, <1>3, DevAfterAcked
    <2>2. toDev' \in Seq(DevFrame(accepted, delivered, ak, queued))
      BY <2>1, Channels, TailIn, SeqWidens
    <2>3. PICK f : f = pdu("ack", d.sendO, dev.exp, 0)
      OBVIOUS
    <2>4. f \in CtlFrame(raised, m)
      <3>1. d.sendO \in SeqNums /\ 0 \in 0..MaxAlarms /\ m \in 0..m
        BY <1>6 DEF Outstanding, Peer
      <3>2. f \in Pdu /\ f.kind = "ack" /\ f.ack = Num(m)
        BY <1>7, <2>3, <3>1, PduFields
      <3> QED BY <3>1, <3>2 DEF CtlFrame
    <2>5. toCtl \in Seq(CtlFrame(raised, m))
      <3>1. raised \in Nat /\ Len(acked) <= m /\ m \in Nat
        BY <1>4, AckedBound
      <3> QED BY <1>4, <3>1, Channels, CtlWidens
    <2>6. toCtl' \in Seq(CtlFrame(raised, m))
      BY <2>3, <2>4, <2>5, SentIn
    <2> QED BY <1>3, <1>5, <2>1, <2>2, <2>6, Channels DEF FrameInv
  <1> QED BY <1>8, <1>9, <1>10 DEF AlarmInv

LEMMA DeviceRecvInv == ASSUME NoWrap, AlarmInv, DeviceRecv PROVE AlarmInv'
  <1>1. /\ UNCHANGED <<raised, accepted, delivered, sequencer, queued, pending>>
        /\ toDev # <<>> /\ toDev' = Tail(toDev)
    BY DEF DeviceRecv, ctlVars, window
  <1>2. PICK p \in DevFrame(accepted, delivered, acked, queued) : p = Head(toDev)
    BY <1>1, Channels, TailIn
  <1>3. PICK d : d = IF p.ack = dev.send /\ dev.alarm # 0 THEN device_acked(dev) ELSE dev
    OBVIOUS
  <1>4. Outstanding(d) /\ d.exp = dev.exp /\ d.expO = dev.expO
    BY <1>3, AlarmAcknowledged
  <1>5. toDev' \in Seq(DevFrame(accepted, delivered, acked, queued)) /\ dev \in Peer
    BY <1>1, Channels, TailIn DEF AlarmInv, CounterInv
  <1>6. p.kind \in {"data", "ack", "nack"}
    BY DEF DevFrame, Pdu
  <1>7. CASE p.kind = "nack" \/ (p.kind = "data" /\ p.seq # dev.exp) \/ (p.kind = "data" /\ p.seq = dev.expO)
    <2>1. /\ UNCHANGED <<dev, acked>>
          /\ \/ toCtl' = toCtl
             \/ \E kind \in {"ack", "nack"} : toCtl' = sent(toCtl, pdu(kind, dev.sendO, dev.expO, 0))
      <3>1. CASE p.kind = "nack"
        BY <1>2, <3>1 DEF DeviceRecv
      <3>2. CASE p.kind = "data" /\ p.seq = dev.expO
        <4>1. dev.exp # dev.expO
          <5>1. dev.exp = Num(Len(acked) + 1) /\ dev.expO = Num(Len(acked))
            BY DEF AlarmInv, CounterInv
          <5>2. PICK m \in Nat : m = Len(acked) /\ m \in 0..MaxAlarms + 1 /\ m + 1 \in 0..MaxAlarms + 1
            BY AckedBound, RtaAssumption
          <5>3. m # m + 1
            BY <5>2
          <5> QED BY <5>1, <5>2, <5>3, NumInjective
        <4> QED BY <1>2, <3>2, <4>1 DEF DeviceRecv
      <3>3. CASE p.kind = "data" /\ p.seq # dev.exp /\ p.seq # dev.expO
        BY <1>2, <3>3 DEF DeviceRecv
      <3> QED BY <1>7, <3>1, <3>2, <3>3
    <2>2. toCtl' \in Seq(CtlFrame(raised, Len(acked)))
      BY <2>1, Channels, SentIn
    <2> QED BY <1>1, <1>5, <2>1, <2>2, Channels, OnlyFrames
  <1>8. CASE p.kind = "ack"
    <2>1. dev' = d /\ UNCHANGED <<toCtl, acked>>
      BY <1>2, <1>3, <1>8 DEF DeviceRecv
    <2>2. CounterInv'
      BY <1>1, <1>4, <2>1 DEF AlarmInv, CounterInv, Outstanding, sequencer
    <2>3. OrderInv'
      BY <1>1, <2>1 DEF AlarmInv, OrderInv
    <2>4. FrameInv'
      BY <1>1, <1>5, <2>1, Channels DEF FrameInv
    <2> QED BY <2>2, <2>3, <2>4 DEF AlarmInv
  <1>9. CASE p.kind = "data" /\ p.seq = dev.exp /\ p.seq # dev.expO
    <2>1. /\ dev' = [d EXCEPT !.expO = dev.exp, !.exp = advance(dev.exp)]
          /\ toCtl' = sent(toCtl, pdu("ack", d.sendO, dev.exp, 0))
          /\ acked' = Append(acked, p.body)
      BY <1>2, <1>3, <1>9 DEF DeviceRecv
    <2> QED BY <1>1, <1>4, <1>9, <2>1, DeviceAccepts
  <1> QED BY <1>6, <1>7, <1>8, <1>9

-----------------------------------------------------------------------------
(* Results *)

LEMMA StepInv == ASSUME NoWrap, AlarmInv, [Next]_vars PROVE AlarmInv'
  <1>1. CASE Next
    BY <1>1, OwnerInv, NetworkInv, RepeatInv, ServiceInv, RecvAckInv, RecvAcceptInv,
       DeviceTimerInv, DeviceRaiseInv, DeviceRecvInv DEF Next, Listener, Device
  <1>2. CASE UNCHANGED vars
    <2>1. /\ UNCHANGED <<raised, accepted, delivered, acked, sequencer, queued, dev, toCtl, toDev, pending>>
          /\ dev \in Peer
      BY <1>2 DEF AlarmInv, CounterInv, vars, window, network, history
    <2> QED BY <2>1, Channels, OnlyFrames
  <1> QED BY <1>1, <1>2

(* The listener and the device stay in step: an inductive invariant, whatever     *)
(* the network loses, delays or reorders and whoever gives up.                    *)
THEOREM CountersInStep == ASSUME NoWrap PROVE Spec => []AlarmInv
  <1>1. Init => AlarmInv
    BY InitInv
  <1>2. AlarmInv /\ [Next]_vars => AlarmInv'
    BY StepInv
  <1> QED BY <1>1, <1>2, PTL DEF Spec

(* The device never sees an AlarmAck for an alarm the application was not shown,  *)
(* and sees them in the order of delivery, each at most once: the window of one   *)
(* and the queue of AlarmChannel never let a late retransmission, or an AlarmAck  *)
(* sent under a number given up before, pass for a newer one.                     *)
THEOREM AlarmAcksFollow == ASSUME NoWrap PROVE Spec => []AcksFollowDelivery
  <1>1. AlarmInv => AcksFollowDelivery
    <2> SUFFICES ASSUME AlarmInv PROVE AcksFollowDelivery
      OBVIOUS
    <2>1. /\ DOMAIN acked = 1..Len(acked) /\ DOMAIN delivered = 1..Len(delivered)
          /\ \A i \in DOMAIN acked : acked[i] \in Shown(delivered)
          /\ \A i, j \in DOMAIN acked : i < j => acked[i] < acked[j]
      BY DEF AlarmInv, OrderInv
    <2> QED BY <2>1 DEF AcksFollowDelivery, Shown
  <1> QED BY <1>1, CountersInStep, PTL

(* A step of the listener, the device or the network raises an alarm, takes the   *)
(* next one in order, or is invisible to the application.                         *)
LEMMA StepRefines == ASSUME NoWrap, AlarmInv, [Next]_vars PROVE [Abstract!Next]_(Abstract!absVars)
  <1>1. CASE DeviceRaise
    BY <1>1 DEF DeviceRaise, history, Abstract!Next, Abstract!Raise
  <1>2. CASE RecvAccept
    <2>1. /\ accepted' = accepted + 1 /\ accepted < raised /\ raised' = raised
          /\ Head(toCtl).body = accepted + 1
      BY <1>2, InSequence, AcceptCounters
    <2>2. delivered' = IF Head(toCtl).body \in Malformed THEN delivered
                       ELSE Append(delivered, Head(toCtl).body)
      BY <1>2 DEF RecvAccept
    <2> QED BY <2>1, <2>2 DEF Abstract!Next, Abstract!Take
  <1>3. CASE UNCHANGED <<raised, accepted, delivered>>
    BY <1>3 DEF Abstract!absVars
  <1>4. ASSUME Next, ~DeviceRaise, ~RecvAccept PROVE UNCHANGED <<raised, accepted, delivered>>
    <2>1. CASE Start \/ Stop \/ RecvError
      BY <2>1 DEF Start, Stop, RecvError, history
    <2>2. CASE Retransmit \/ GiveUp \/ Service
      BY <2>2 DEF Retransmit, GiveUp, Service, history
    <2>3. CASE RecvAck \/ RecvNack \/ RecvAgain \/ RecvOutOfSequence
      BY <2>3 DEF RecvAck, RecvNack, RecvAgain, RecvOutOfSequence, Consume, history
    <2>4. CASE DeviceRetransmit \/ DeviceAbort \/ DeviceRecv
      BY <2>4 DEF DeviceRetransmit, DeviceAbort, DeviceRecv, history
    <2>5. CASE Lose \/ Overtake \/ Unread
      BY <2>5 DEF Lose, Overtake, Unread, history
    <2> QED BY <1>4, <2>1, <2>2, <2>3, <2>4, <2>5 DEF Next, Listener, Device
  <1>5. CASE UNCHANGED vars
    BY <1>5 DEF vars, history, Abstract!absVars
  <1> QED BY <1>1, <1>2, <1>3, <1>4, <1>5

(* The listener implements AlarmDelivery: whatever is lost, repeated or overtaken *)
(* on the way, every alarm reaches the callbacks in the order it was raised, none *)
(* twice and none passed over.                                                    *)
THEOREM ListenerImplementsDelivery == ASSUME NoWrap PROVE Spec => DeliversInOrder
  <1>1. Init => Abstract!Init
    BY DEF Init, Abstract!Init
  <1>2. AlarmInv /\ [Next]_vars => [Abstract!Next]_(Abstract!absVars)
    BY StepRefines
  <1> QED BY <1>1, <1>2, CountersInStep, PTL DEF Spec, DeliversInOrder, Abstract!Spec

-----------------------------------------------------------------------------
(* What the listener takes for acknowledged *)

Flying(c) == {c[k] : k \in DOMAIN c}

(* The AlarmAck under the current number, of the listener (s, pend), the frames on *)
(* their way (fl) and the device (ak): at most one is pending; one that is on its  *)
(* way, or that the device has accepted, is the pending one; and none is under a   *)
(* number the listener has not come to.                                            *)
Window(s, ak, pend, fl) ==
    /\ s \in {Num(Len(ak)), Num(Len(ak) + 1)}
    /\ \A p, q \in pend : p = q
    /\ \A f \in fl : f.kind = "data" /\ f.seq = s =>
         \E p \in pend : p.frame.seq = s /\ p.frame.body = f.body
    /\ s = Num(Len(ak)) => \E p \in pend : p.frame.seq = s /\ p.frame.body = ak[Len(ak)]
    /\ \A f \in fl : f.kind = "data" /\ f.seq = Num(Len(ak) + 1) => s = f.seq

ConfirmedInv ==
    /\ confirmed \subseteq Shown(acked)
    /\ thread # "exited" => Window(send, acked, pending, Flying(toDev))

(* The listener drops an AlarmAck that was not acknowledged: the next one goes out *)
(* under the same number.                                                          *)
GivesUp == GiveUp /\ \E p \in pending : p.frame.seq = send

LEMMA FlyingSent ==
    ASSUME NEW S, NEW c \in Seq(S), NEW p PROVE Flying(sent(c, p)) \subseteq Flying(c) \cup {p}
  <1>1. CASE sent(c, p) = c
    BY <1>1
  <1>2. CASE sent(c, p) = Append(c, p)
    <2>1. PICK d : d = Append(c, p)
      OBVIOUS
    <2>2. \A k \in DOMAIN d : (k \in DOMAIN c /\ d[k] = c[k]) \/ d[k] = p
      BY <2>1
    <2> QED BY <1>2, <2>1, <2>2 DEF Flying
  <1> QED BY <1>1, <1>2 DEF sent

LEMMA FlyingTail ==
    ASSUME NEW S, NEW c \in Seq(S), c # <<>>
    PROVE  Flying(Tail(c)) \subseteq Flying(c) /\ Head(c) \in Flying(c)
  <1>1. PICK d : d = Tail(c)
    OBVIOUS
  <1>2. (\A k \in DOMAIN d : k + 1 \in DOMAIN c /\ d[k] = c[k + 1]) /\ 1 \in DOMAIN c /\ Head(c) = c[1]
    BY <1>1
  <1> QED BY <1>1, <1>2 DEF Flying

(* d is h followed by r. *)
IsJoin(d, h, r) ==
    /\ DOMAIN d = 1..Len(h) + Len(r)
    /\ \A k \in 1..Len(h) + Len(r) : d[k] = IF k <= Len(h) THEN h[k] ELSE r[k - Len(h)]

LEMMA Joined ==
    ASSUME NEW S, NEW h \in Seq(S), NEW r \in Seq(S) PROVE IsJoin(h \o r, h, r)
  BY DEF IsJoin

LEMMA FlyingSwapped ==
    ASSUME NEW S, NEW c \in Seq(S), Len(c) > 1 PROVE Flying(swapped(c)) \subseteq Flying(c)
  <1>1. PICK r : r = SubSeq(c, 3, Len(c))
    OBVIOUS
  <1>2. Len(c) \in Nat /\ DOMAIN c = 1..Len(c)
    OBVIOUS
  <1>3. /\ r \in Seq(S) /\ Len(r) = Len(c) - 2
        /\ \A k \in 1..Len(r) : r[k] = c[k + 2] /\ k + 2 \in DOMAIN c
    BY <1>1, <1>2
  <1>4. PICK d : d = <<c[2], c[1]>> \o r
    OBVIOUS
  <1>5. /\ DOMAIN d = 1..Len(r) + 2 /\ d[1] = c[2] /\ d[2] = c[1]
        /\ \A k \in 3..Len(r) + 2 : d[k] = r[k - 2]
    <2>1. PICK h : h = <<c[2], c[1]>>
      OBVIOUS
    <2>2. h \in Seq(S) /\ Len(h) = 2 /\ h[1] = c[2] /\ h[2] = c[1]
      BY <1>2, <2>1
    <2>3. d = h \o r
      BY <1>4, <2>1
    <2>4. Len(r) \in Nat /\ r \in Seq(S)
      BY <1>3
    <2>5. /\ DOMAIN d = 1..Len(h) + Len(r)
          /\ \A k \in 1..Len(h) + Len(r) : d[k] = IF k <= Len(h) THEN h[k] ELSE r[k - Len(h)]
      <3>1. IsJoin(h \o r, h, r)
        BY <2>2, <2>4, Joined
      <3>2. IsJoin(d, h, r)
        BY <2>3, <3>1
      <3> QED BY <3>2 DEF IsJoin
    <2>6. d[1] = h[1] /\ d[2] = h[2]
      BY <2>2, <2>4, <2>5
    <2>7. \A k \in 3..Len(r) + 2 : d[k] = r[k - 2]
      BY <2>2, <2>4, <2>5
    <2> QED BY <2>2, <2>4, <2>5, <2>6, <2>7
  <1>6. \A k \in DOMAIN d : \E j \in DOMAIN c : d[k] = c[j]
    <2> TAKE k \in DOMAIN d
    <2>1. CASE k = 1 \/ k = 2
      BY <1>2, <1>5, <2>1
    <2>2. CASE k \in 3..Len(r) + 2
      <3>1. k - 2 \in 1..Len(r) /\ d[k] = r[k - 2]
        BY <1>2, <1>3, <1>5, <2>2
      <3> QED BY <1>3, <3>1
    <2> QED BY <1>2, <1>3, <1>5, <2>1, <2>2
  <1> QED BY <1>1, <1>4, <1>6 DEF Flying, swapped

(* Frames arrive or are lost; transport acknowledgments are sent. *)
LEMMA WindowKept ==
    ASSUME NEW s, NEW ak, NEW pend, NEW fl, Window(s, ak, pend, fl), NEW fl2,
           \A f \in fl2 : f \in fl \/ f.kind # "data"
    PROVE  Window(s, ak, pend, fl2)
  BY DEF Window

(* With nothing under the current number the next AlarmAck goes out, or none. *)
LEMMA WindowSends ==
    ASSUME NEW s, NEW ak, NEW pend, NEW fl, Window(s, ak, pend, fl), NEW fl2, NEW pend2,
           \A p \in pend : p.frame.seq # s,
           \/ /\ pend2 = {} /\ \A f \in fl2 : f \in fl \/ f.kind # "data"
           \/ \E g, r : /\ g.seq = s /\ pend2 = {[frame |-> g, left |-> r]}
                        /\ \A f \in fl2 : f \in fl \/ f.kind # "data" \/ f = g
    PROVE  Window(s, ak, pend2, fl2)
  <1>1. s = Num(Len(ak) + 1) /\ s # Num(Len(ak)) /\ \A f \in fl : f.kind = "data" => f.seq # s
    BY DEF Window
  <1>2. CASE pend2 = {} /\ \A f \in fl2 : f \in fl \/ f.kind # "data"
    BY <1>1, <1>2 DEF Window
  <1>3. ASSUME NEW g, NEW r, g.seq = s, pend2 = {[frame |-> g, left |-> r]},
               \A f \in fl2 : f \in fl \/ f.kind # "data" \/ f = g
        PROVE  Window(s, ak, pend2, fl2)
    <2>1. PICK p : p = [frame |-> g, left |-> r]
      OBVIOUS
    <2>2. p \in pend2 /\ p.frame = g /\ \A q \in pend2 : q = p
      BY <1>3, <2>1
    <2> QED BY <1>1, <1>3, <2>2 DEF Window
  <1> QED BY <1>2, <1>3

(* The AlarmAck is acknowledged: the number moves on, the AlarmAck leaves the      *)
(* window or, acknowledged by the next alarm, stays there under the old number.    *)
LEMMA WindowAdvances ==
    ASSUME NEW s, NEW ak, NEW pend, NEW fl, Window(s, ak, pend, fl), NEW s2,
           s = Num(Len(ak)), s2 = Num(Len(ak) + 1), s # s2, NEW pend2 \in SUBSET pend
    PROVE  Window(s2, ak, pend2, fl)
  BY DEF Window

(* The device accepts the AlarmAck. *)
LEMMA WindowAccepts ==
    ASSUME NEW s, NEW ak \in Seq(Alarms), NEW pend, NEW fl, Window(s, ak, pend, fl), NEW fl2,
           NEW f \in fl, f.kind = "data", f.seq = Num(Len(ak) + 1), f.body \in Alarms,
           NEW ak2, ak2 = Append(ak, f.body), fl2 \subseteq fl,
           \A g \in fl : g.kind = "data" => g.seq # Num(Len(ak) + 2)
    PROVE  Window(s, ak2, pend, fl2)
  <1>1. Len(ak) \in Nat /\ Len(ak2) = Len(ak) + 1 /\ ak2[Len(ak2)] = f.body /\ Len(ak2) + 1 = Len(ak) + 2
    OBVIOUS
  <1>2. s = f.seq /\ s = Num(Len(ak2)) /\ Num(Len(ak2) + 1) = Num(Len(ak) + 2)
    BY <1>1 DEF Window
  <1>3. \E p \in pend : p.frame.seq = s /\ p.frame.body = ak2[Len(ak2)]
    BY <1>1, <1>2 DEF Window
  <1>4. \A g \in fl2 : ~(g.kind = "data" /\ g.seq = Num(Len(ak2) + 1))
    BY <1>2
  <1> QED BY <1>2, <1>3, <1>4 DEF Window

(* The listener takes a number for acknowledged: it is that of the last AlarmAck *)
(* the device accepted, and that one is in the window.                           *)
LEMMA AckedIsPending ==
    ASSUME NoWrap, AlarmInv, Window(send, acked, pending, Flying(toDev)),
           NEW p \in CtlFrame(raised, Len(acked)), p.ack = send
    PROVE  /\ Len(acked) \in DOMAIN acked /\ send = Num(Len(acked))
           /\ advance(send) = Num(Len(acked) + 1) /\ send # advance(send)
           /\ pending # {} /\ \A q \in pending : q.frame.body = acked[Len(acked)]
  <1>1. PICK i \in 1..Len(acked) + 1 : send = Num(i)
    BY DEF AlarmInv, CounterInv
  <1>2. PICK j \in 0..Len(acked) : p.ack = Num(j)
    BY DEF CtlFrame
  <1>3. /\ Len(acked) \in Nat /\ Len(acked) <= MaxAlarms /\ MaxAlarms \in Nat
        /\ acked \in Seq(Alarms)
    BY AckedBound, RtaAssumption DEF AlarmInv, OrderInv
  <1>4. i \in 0..MaxAlarms + 1 /\ j \in 0..MaxAlarms + 1 /\ Len(acked) + 1 \in 0..MaxAlarms + 1
        /\ Len(acked) \in 0..MaxAlarms + 1
    BY <1>3
  <1>5. i = j
    BY <1>1, <1>2, <1>4, NumInjective
  <1>6. send # Num(Len(acked) + 1)
    <2>1. i # Len(acked) + 1
      BY <1>3, <1>5
    <2> QED BY <1>1, <1>4, <2>1, NumInjective
  <1>7. send = Num(Len(acked))
    BY <1>6 DEF Window
  <1>8. i = Len(acked)
    BY <1>1, <1>4, <1>7, NumInjective
  <1>9. Len(acked) \in DOMAIN acked /\ Len(acked) \in 1..MaxAlarms
    BY <1>3, <1>8
  <1>10. advance(send) = Num(Len(acked) + 1)
    BY <1>7, <1>9, NumAdvance
  <1>11. pending # {} /\ \A q \in pending : q.frame.body = acked[Len(acked)]
    BY <1>7 DEF Window
  <1> QED BY <1>6, <1>7, <1>9, <1>10, <1>11

(* The transport acknowledgments of the listener. *)
LEMMA AckIsNoData == \A k \in {"ack", "nack"} : \A s, a : pdu(k, s, a, 0).kind # "data"
  BY DEF pdu

LEMMA ConfirmedFrame ==
    ASSUME NoWrap, AlarmInv, ConfirmedInv, UNCHANGED <<send, acked, pending, confirmed>>,
           thread = "exited" => thread' = "exited",
           \A f \in Flying(toDev') : f \in Flying(toDev) \/ f.kind # "data"
    PROVE  ConfirmedInv'
  <1>1. thread' # "exited" => Window(send, acked, pending, Flying(toDev'))
    BY WindowKept DEF ConfirmedInv
  <1> QED BY <1>1 DEF ConfirmedInv

LEMMA ConfirmedInit == ASSUME NoWrap, Init PROVE ConfirmedInv
  <1>1. send = Num(Len(acked) + 1) /\ send # Num(Len(acked)) /\ confirmed = {} /\ pending = {}
    BY RtaAssumption DEF Init, Num, SEQ_NUM_INIT, SEQ_NUM_INIT_O
  <1>2. Flying(toDev) = {}
    BY DEF Init, Flying
  <1> QED BY <1>1, <1>2 DEF ConfirmedInv, Window

LEMMA ConfirmedRecvAck ==
    ASSUME NoWrap, AlarmInv, ConfirmedInv, RecvAck PROVE ConfirmedInv'
  <1>1. toCtl # <<>> /\ thread = "up" /\ UNCHANGED <<thread, toDev, acked>>
    BY DEF RecvAck, Received, Consume, listener
  <1>2. PICK p \in CtlFrame(raised, Len(acked)) : p = Head(toCtl)
    BY <1>1, Channels, TailIn
  <1>3. Window(send, acked, pending, Flying(toDev)) /\ confirmed \subseteq Shown(acked)
    BY <1>1 DEF ConfirmedInv
  <1>4. CASE p.ack = send
    <2>1. /\ send' = advance(send) /\ pending' = {}
          /\ confirmed' = confirmed \cup {q.frame.body : q \in pending}
      BY <1>2, <1>4 DEF RecvAck
    <2>2. /\ Len(acked) \in DOMAIN acked /\ send = Num(Len(acked))
          /\ advance(send) = Num(Len(acked) + 1) /\ send # advance(send)
          /\ \A q \in pending : q.frame.body = acked[Len(acked)]
      BY <1>3, <1>4, AckedIsPending
    <2>3. confirmed' \subseteq Shown(acked)
      BY <1>3, <2>1, <2>2 DEF Shown
    <2>4. PICK s, n, pend, fl : s = send /\ n = send' /\ pend = pending /\ fl = Flying(toDev)
      OBVIOUS
    <2>5. Window(s, acked, pend, fl) /\ s = Num(Len(acked)) /\ n = Num(Len(acked) + 1) /\ s # n
          /\ {} \in SUBSET pend
      BY <1>3, <2>1, <2>2, <2>4
    <2>6. Window(n, acked, {}, fl)
      BY <2>5, WindowAdvances
    <2> QED BY <1>1, <2>1, <2>3, <2>4, <2>6 DEF ConfirmedInv
  <1>5. CASE p.ack # send
    <2>1. UNCHANGED <<send, acked, pending, confirmed>>
      BY <1>1, <1>2, <1>5 DEF RecvAck
    <2> QED BY <1>1, <2>1, ConfirmedFrame
  <1> QED BY <1>4, <1>5

(* What ServiceQueue does with the window, for a free or an occupied one. *)
LEMMA ConfirmedService ==
    ASSUME NEW c, NEW S, c \in Seq(S), NEW q, NEW eo, NEW free \in BOOLEAN,
           ServiceQueue(free, q, send, eo, c),
           Window(send, acked, pending, Flying(c)),
           free => \A p \in pending : p.frame.seq # send
    PROVE  Window(send, acked, pending', Flying(toDev'))
  <1>1. PICK f : f = pdu("data", send, eo, Head(q))
    OBVIOUS
  <1>2. f.seq = send
    BY <1>1 DEF pdu
  <1>3. PICK s, pn, fl, fn, pend : /\ s = send /\ pn = pending' /\ fl = Flying(c)
                                   /\ fn = Flying(toDev') /\ pend = pending
    OBVIOUS
  <1>4. CASE ~free
    BY <1>4 DEF ServiceQueue
  <1>5. CASE free
    <2>1. \A p \in pend : p.frame.seq # s
      BY <1>3, <1>5
    <2>2. Window(s, acked, pend, fl)
      BY <1>3
    <2>3. \/ /\ pn = {} /\ \A x \in fn : x \in fl \/ x.kind # "data"
          \/ \E g, r : /\ g.seq = s /\ pn = {[frame |-> g, left |-> r]}
                       /\ \A x \in fn : x \in fl \/ x.kind # "data" \/ x = g
      <3>1. CASE q # <<>>
        <4>1. pending' = {[frame |-> f, left |-> Retries]} /\ toDev' = sent(c, f)
          BY <1>1, <1>5, <3>1 DEF ServiceQueue
        <4>2. fn \subseteq fl \cup {f}
          BY <1>3, <4>1, FlyingSent
        <4>3. pn = {[frame |-> f, left |-> Retries]} /\ f.seq = s
          BY <1>2, <1>3, <4>1
        <4>4. \E g, r : /\ g.seq = s /\ pn = {[frame |-> g, left |-> r]}
                        /\ \A x \in fn : x \in fl \/ x.kind # "data" \/ x = g
          <5> WITNESS f, Retries
          <5> QED BY <4>2, <4>3
        <4> QED BY <4>4
      <3>2. CASE q = <<>>
        BY <1>3, <1>5, <3>2 DEF ServiceQueue
      <3> QED BY <3>1, <3>2
    <2>4. Window(s, acked, pn, fn)
      BY <2>1, <2>2, <2>3, WindowSends
    <2> QED BY <1>3, <2>4
  <1> QED BY <1>4, <1>5

LEMMA ConfirmedGiveUp ==
    ASSUME NoWrap, AlarmInv, ConfirmedInv, Service \/ GiveUp, ~GivesUp PROVE ConfirmedInv'
  <1>1. /\ UNCHANGED <<send, acked, confirmed, thread>> /\ thread = "up"
        /\ ServiceQueue(TRUE, queued, send, expO, toDev)
    BY DEF Service, GiveUp, listener, sequencer, history
  <1>2. Window(send, acked, pending, Flying(toDev))
    BY <1>1 DEF ConfirmedInv
  <1>3. \A p \in pending : p.frame.seq # send
    BY DEF Service, GivesUp
  <1>4. toDev \in Seq(DevFrame(accepted, delivered, acked, queued))
    BY Channels
  <1>5. Window(send, acked, pending', Flying(toDev'))
    BY <1>1, <1>2, <1>3, <1>4, ConfirmedService
  <1> QED BY <1>1, <1>5 DEF ConfirmedInv

LEMMA ConfirmedRecvAccept ==
    ASSUME NoWrap, AlarmInv, ConfirmedInv, RecvAccept PROVE ConfirmedInv'
  <1>1. toCtl # <<>> /\ thread = "up" /\ UNCHANGED <<thread, acked, confirmed>>
    BY DEF RecvAccept, Received, Consume, listener
  <1>2. PICK p \in CtlFrame(raised, Len(acked)) : p = Head(toCtl)
    BY <1>1, Channels, TailIn
  <1>3. Window(send, acked, pending, Flying(toDev)) /\ confirmed \subseteq Shown(acked)
    BY <1>1 DEF ConfirmedInv
  <1>4. PICK s, sn, so, pend, pn, fn :
          /\ s = send /\ sn = send' /\ so = sendO' /\ pend = pending /\ pn = pending' /\ fn = Flying(toDev')
    OBVIOUS
  <1>5. PICK f, c : f = pdu("ack", so, exp, 0) /\ c = sent(toDev, f)
    OBVIOUS
  <1>6. /\ sn = IF p.ack = s THEN advance(s) ELSE s
        /\ \/ toDev' = c /\ pn = pend
           \/ ServiceQueue(pending = {}, Append(queued, p.body), sn, exp, c)
    BY <1>2, <1>4, <1>5 DEF RecvAccept, window
  <1>7. \A x \in Flying(c) : x \in Flying(toDev) \/ x.kind # "data"
    <2>1. f.kind # "data"
      BY <1>5, AckIsNoData
    <2> QED BY <1>5, <2>1, Channels, FlyingSent
  <1>8. Window(s, acked, pend, Flying(c))
    BY <1>3, <1>4, <1>7, WindowKept
  <1>9. c \in Seq(Pdu)
    <2>1. toDev \in Seq(Pdu)
      <3>1. \A x \in DevFrame(accepted, delivered, acked, queued) : x \in Pdu
        BY DEF DevFrame
      <3> QED BY <3>1, Channels, SeqWidens
    <2>2. f \in Pdu
      <3>1. f \in DevFrame(accepted', delivered, acked, queued)
        BY <1>4, <1>5, AcceptCounters
      <3> QED BY <3>1 DEF DevFrame
    <2> QED BY <1>5, <2>1, <2>2, SentIn
  <1>10. CASE p.ack = s
    <2>1. /\ s = Num(Len(acked)) /\ sn = Num(Len(acked) + 1) /\ s # sn /\ pend # {}
      BY <1>3, <1>4, <1>6, <1>10, AckedIsPending
    <2>2. Window(sn, acked, pend, Flying(c))
      <3>1. pend \in SUBSET pend
        OBVIOUS
      <3> QED BY <1>8, <2>1, <3>1, WindowAdvances
    <2>3. toDev' = c /\ pn = pend
      BY <1>4, <1>6, <2>1 DEF ServiceQueue
    <2> QED BY <1>1, <1>3, <1>4, <2>2, <2>3 DEF ConfirmedInv
  <1>11. CASE p.ack # s
    <2>1. sn = s /\ send' = send
      BY <1>4, <1>6, <1>11
    <2>2. Window(send, acked, pending', Flying(toDev'))
      <3>1. CASE toDev' = c /\ pn = pend
        BY <1>4, <1>8, <3>1
      <3>2. CASE ServiceQueue(pending = {}, Append(queued, p.body), sn, exp, c)
        <4>1. PICK q : q = Append(queued, p.body)
          OBVIOUS
        <4>2. Window(send, acked, pending, Flying(c))
          BY <1>4, <1>8
        <4>3. CASE pending = {}
          <5>1. ServiceQueue(TRUE, q, send, exp, c) /\ \A x \in pending : x.frame.seq # send
            BY <1>4, <2>1, <3>2, <4>1, <4>3 DEF ServiceQueue
          <5> QED BY <1>9, <4>2, <5>1, ConfirmedService
        <4>4. CASE pending # {}
          <5>1. ServiceQueue(FALSE, q, send, exp, c)
            BY <1>4, <2>1, <3>2, <4>1, <4>4 DEF ServiceQueue
          <5> QED BY <1>9, <4>2, <5>1, ConfirmedService
        <4> QED BY <4>3, <4>4
      <3> QED BY <1>6, <3>1, <3>2
    <2> QED BY <1>1, <1>3, <2>1, <2>2 DEF ConfirmedInv
  <1> QED BY <1>10, <1>11

LEMMA ConfirmedRetransmit ==
    ASSUME NoWrap, AlarmInv, ConfirmedInv, Retransmit PROVE ConfirmedInv'
  <1>1. UNCHANGED <<send, acked, confirmed, thread>> /\ thread = "up"
    BY DEF Retransmit, listener, sequencer, history
  <1>2. PICK p \in pending : /\ toDev' = sent(toDev, p.frame)
                             /\ pending' = {[p EXCEPT !.left = @ - 1]}
    BY DEF Retransmit
  <1>3. p \in Slot /\ p.frame.kind = "data"
    BY Channels
  <1>4. PICK q : q = [p EXCEPT !.left = @ - 1]
    OBVIOUS
  <1>5. pending' = {q} /\ q.frame = p.frame
    BY <1>2, <1>3, <1>4 DEF Slot
  <1>6. Flying(toDev') \subseteq Flying(toDev) \cup {p.frame}
    BY <1>2, Channels, FlyingSent
  <1>7. Window(send, acked, pending, Flying(toDev))
    BY <1>1 DEF ConfirmedInv
  <1>8. Num(Len(acked)) # Num(Len(acked) + 1)
    <2>1. PICK m \in Nat : m = Len(acked) /\ m \in 0..MaxAlarms + 1 /\ m + 1 \in 0..MaxAlarms + 1
      BY AckedBound, RtaAssumption
    <2>2. m # m + 1
      BY <2>1
    <2> QED BY <2>1, <2>2, NumInjective
  <1>9. Window(send, acked, {q}, Flying(toDev'))
    <2>1. \A x \in pending : x.frame = q.frame
      BY <1>5, <1>7 DEF Window
    <2>2. q.frame.seq = Num(Len(acked) + 1) => send = q.frame.seq
      BY <1>7, <1>8, <2>1 DEF Window
    <2>3. send = Num(Len(acked)) => q.frame.seq = send /\ q.frame.body = acked[Len(acked)]
      BY <1>7, <2>1 DEF Window
    <2>4. \A f \in Flying(toDev') : f.kind = "data" /\ f.seq = send =>
            q.frame.seq = send /\ q.frame.body = f.body
      BY <1>5, <1>6, <1>7, <2>1 DEF Window
    <2>5. \A f \in Flying(toDev') : f.kind = "data" /\ f.seq = Num(Len(acked) + 1) => send = f.seq
      BY <1>5, <1>6, <1>7, <2>2 DEF Window
    <2> QED BY <1>7, <2>3, <2>4, <2>5 DEF Window
  <1> QED BY <1>1, <1>5, <1>9 DEF ConfirmedInv

LEMMA ConfirmedDeviceRecv ==
    ASSUME NoWrap, AlarmInv, ConfirmedInv, DeviceRecv PROVE ConfirmedInv'
  <1>1. /\ UNCHANGED <<send, pending, confirmed, thread>>
        /\ toDev # <<>> /\ toDev' = Tail(toDev)
    BY DEF DeviceRecv, ctlVars, listener, sequencer, window
  <1>2. PICK p \in DevFrame(accepted, delivered, acked, queued) : p = Head(toDev)
    BY <1>1, Channels, TailIn
  <1>3. Flying(toDev') \subseteq Flying(toDev) /\ p \in Flying(toDev)
    BY <1>1, <1>2, Channels, FlyingTail
  <1>4. acked' = acked \/ (acked' = Append(acked, p.body) /\ p.kind = "data" /\ p.seq = dev.exp)
    <2>1. p.kind \in {"data", "ack", "nack"}
      BY DEF DevFrame, Pdu
    <2>2. CASE p.kind = "nack"
      BY <1>2, <2>2 DEF DeviceRecv
    <2>3. CASE p.kind = "ack"
      BY <1>2, <2>3 DEF DeviceRecv
    <2>4. CASE p.kind = "data" /\ p.seq # dev.exp
      BY <1>2, <2>4 DEF DeviceRecv
    <2>5. CASE p.kind = "data" /\ p.seq = dev.exp
      BY <1>2, <2>5 DEF DeviceRecv
    <2> QED BY <2>1, <2>2, <2>3, <2>4, <2>5
  <1>5. CASE acked' = acked
    BY <1>1, <1>3, <1>5, ConfirmedFrame
  <1>6. CASE acked' = Append(acked, p.body) /\ p.kind = "data" /\ p.seq = dev.exp
    <2>1. p.body \in Alarms /\ acked \in Seq(Alarms) /\ p.seq = Num(Len(acked) + 1)
      BY <1>6, AckInSequence DEF AlarmInv, OrderInv, CounterInv
    <2>2. PICK ak, fl, fn : ak = acked' /\ fl = Flying(toDev) /\ fn = Flying(toDev')
      OBVIOUS
    <2>3. confirmed \subseteq Shown(ak)
      <3>1. \A k \in DOMAIN acked : k \in DOMAIN ak /\ ak[k] = acked[k]
        BY <1>6, <2>1, <2>2
      <3> QED BY <3>1 DEF ConfirmedInv, Shown
    <2>4. \A g \in fl : g.kind = "data" => g.seq # Num(Len(acked) + 2)
      <3> SUFFICES ASSUME NEW g \in fl, g.kind = "data", g.seq = Num(Len(acked) + 2) PROVE FALSE
        OBVIOUS
      <3>1. g \in DevFrame(accepted, delivered, acked, queued)
        BY <2>2, Channels DEF Flying
      <3>2. PICK i \in 1..Len(acked) + 1 : g.seq = Num(i)
        BY <3>1 DEF DevFrame, AckFrame
      <3>3. PICK m \in Nat : m = Len(acked) /\ m + 1 \in 1..MaxAlarms /\ MaxAlarms \in Nat
        BY <1>6, AckInSequence, AckedBound, RtaAssumption
      <3>4. i \in 0..MaxAlarms + 1 /\ m + 2 \in 0..MaxAlarms + 1 /\ i # m + 2
        BY <3>2, <3>3
      <3> QED BY <3>2, <3>3, <3>4, NumInjective
    <2>5. thread # "exited" => Window(send, ak, pending, fn)
      <3> HAVE thread # "exited"
      <3>1. Window(send, acked, pending, fl) /\ fn \subseteq fl /\ p \in fl
        BY <1>3, <2>2 DEF ConfirmedInv
      <3> QED BY <1>6, <2>1, <2>2, <2>4, <3>1, WindowAccepts
    <2> QED BY <1>1, <2>2, <2>3, <2>5 DEF ConfirmedInv
  <1> QED BY <1>4, <1>5, <1>6

(* The steps that touch neither the number nor the window. *)
LEMMA ConfirmedRest ==
    ASSUME NoWrap, AlarmInv, ConfirmedInv,
           \/ RecvNack \/ RecvAgain \/ RecvOutOfSequence
           \/ Start \/ DeviceRaise \/ DeviceRetransmit \/ DeviceAbort
           \/ Lose \/ Overtake \/ Unread \/ UNCHANGED vars
    PROVE  ConfirmedInv'
  <1>1. CASE RecvNack \/ RecvAgain \/ RecvOutOfSequence
    <2>1. /\ UNCHANGED <<send, acked, pending, confirmed, thread>>
          /\ \/ toDev' = toDev
             \/ \E kind \in {"ack", "nack"} : toDev' = sent(toDev, pdu(kind, sendO, expO, 0))
      BY <1>1 DEF RecvNack, RecvAgain, RecvOutOfSequence, Received, Consume, listener, sequencer,
                  window, history
    <2>2. \A f \in Flying(toDev') : f \in Flying(toDev) \/ f.kind # "data"
      <3>1. ASSUME NEW kind \in {"ack", "nack"}, toDev' = sent(toDev, pdu(kind, sendO, expO, 0))
            PROVE  \A f \in Flying(toDev') : f \in Flying(toDev) \/ f.kind # "data"
        <4>1. PICK g : g = pdu(kind, sendO, expO, 0)
          OBVIOUS
        <4>2. g.kind # "data"
          BY <4>1, AckIsNoData
        <4> QED BY <3>1, <4>1, <4>2, Channels, FlyingSent
      <3> QED BY <2>1, <3>1
    <2> QED BY <2>1, <2>2, ConfirmedFrame
  <1>2. CASE Start \/ DeviceRaise \/ DeviceRetransmit \/ DeviceAbort \/ UNCHANGED vars
    <2>1. /\ UNCHANGED <<send, acked, pending, confirmed, toDev>>
          /\ thread = "exited" => thread' = "exited"
      BY <1>2 DEF Start, DeviceRaise, DeviceRetransmit, DeviceAbort, ctlVars, listener, sequencer,
                  window, history, network, vars
    <2> QED BY <2>1, ConfirmedFrame
  <1>3. CASE Lose \/ Overtake \/ Unread
    <2>1. /\ UNCHANGED <<send, acked, pending, confirmed, thread>>
          /\ \/ toDev' = toDev \/ (toDev # <<>> /\ toDev' = Tail(toDev))
             \/ (Len(toDev) > 1 /\ toDev' = swapped(toDev))
      BY <1>3 DEF Lose, Overtake, Unread, ctlVars, listener, sequencer, window, history
    <2>2. Flying(toDev') \subseteq Flying(toDev)
      BY <2>1, Channels, FlyingTail, FlyingSwapped
    <2> QED BY <2>1, <2>2, ConfirmedFrame
  <1> QED BY <1>1, <1>2, <1>3

(* What the listener takes for acknowledged, the device did accept, however many  *)
(* frames are lost, late, repeated or overtaken, as long as AlarmChannel::service *)
(* does not give an unacknowledged AlarmAck up: then the next one goes out under  *)
(* the same number, and an acknowledgment of the first would be taken for its own. *)
THEOREM ConfirmedUnlessGivenUp ==
    ASSUME NoWrap PROVE Spec /\ [][~GivesUp]_vars => []ConfirmedWasAccepted
  <1>1. Init => ConfirmedInv
    BY ConfirmedInit
  <1>2. AlarmInv /\ ConfirmedInv /\ [Next]_vars /\ [~GivesUp]_vars => ConfirmedInv'
    <2> SUFFICES ASSUME AlarmInv, ConfirmedInv, [Next]_vars, [~GivesUp]_vars PROVE ConfirmedInv'
      OBVIOUS
    <2>1. CASE UNCHANGED vars
      BY <2>1, ConfirmedRest
    <2>2. CASE Stop \/ RecvError
      BY <2>2 DEF Stop, RecvError, history, ConfirmedInv
    <2>3. CASE Service \/ GiveUp
      BY <2>1, <2>3, ConfirmedGiveUp
    <2> QED
      BY <2>1, <2>2, <2>3, ConfirmedRecvAck, ConfirmedRecvAccept, ConfirmedRetransmit,
         ConfirmedDeviceRecv, ConfirmedRest DEF Next, Listener, Device
  <1>3. ConfirmedInv /\ AlarmInv => ConfirmedWasAccepted
    <2> SUFFICES ASSUME ConfirmedInv, AlarmInv PROVE ConfirmedWasAccepted
      OBVIOUS
    <2>1. DOMAIN acked = 1..Len(acked)
      BY DEF AlarmInv, OrderInv
    <2> QED BY <2>1 DEF ConfirmedInv, ConfirmedWasAccepted, Shown
  <1> QED BY <1>1, <1>2, <1>3, CountersInStep, PTL DEF Spec
=============================================================================
