--------------------------- MODULE ReceiveProofs ----------------------------
(***************************************************************************)
(* Proofs about the layer-2 commands, which take no foreign frame for an   *)
(* answer, for any number of devices, controllers' requests and lost,      *)
(* late, repeated or reordered frames; and about the interval and loss     *)
(* statistics of the cyclic controller, which are those of the events it   *)
(* saw.                                                                    *)
(***************************************************************************)
EXTENDS Dcp, RxStats, FiniteSetTheorems, WellFoundedInduction, TLAPS

-----------------------------------------------------------------------------
(* The layer-2 commands (Dcp) *)

(* The frames of a set or a get, requests and answers. *)
Asks(f) == f.id = "get_set" /\ f.type = "request"

(* No transaction id is used twice: one frame of a set or a get is under way for    *)
(* each, and it tells what became of the request.                                   *)
TransactionInv ==
    /\ xid \in Nat
    /\ \A f \in net : f.xid \in Nat /\ f.xid <= xid
    /\ \A x \in applied : x \in Nat /\ x <= xid
    /\ \A f, g \in net : f.id = "get_set" /\ g.id = "get_set" /\ f.xid = g.xid => f = g

FateInv ==
    \A f \in net :
      /\ f.type = "request" /\ f.service \in {"set", "get"} => f.id = "get_set"
      /\ Asks(f) => f.xid \notin applied
      /\ f.id = "get_set" /\ ~Asks(f) => f.origin = f.xid
      /\ f.id = "get_set" /\ f.service = "set" /\ f.type = "unsupported" => f.xid \notin applied
      /\ f.id = "get_set" /\ f.service = "set" /\ f.type = "success" =>
           (f.value = "ok" <=> f.xid \in applied)

(* The frame under way for the command is its own, from or to the addressed device. *)
CommandInv ==
    cmd # Nothing =>
      /\ cmd.xid \in Nat /\ cmd.xid <= xid
      /\ \A f \in net : f.id = "get_set" /\ f.xid = cmd.xid =>
           /\ Asks(f) => f.dst = cmd.target
           /\ ~Asks(f) => f.src = cmd.target

(* What was reported stays true: a request that was refused is not on its way again. *)
ReportInv ==
    /\ AnswerIsOurs
    /\ Ended({"set"}) /\ answer.outcome = "refused" =>
         /\ answer.cmd.xid \in Nat /\ answer.cmd.xid <= xid
         /\ \A f \in net : Asks(f) => f.xid # answer.cmd.xid

DcpInv == TransactionInv /\ FateInv /\ CommandInv /\ ReportInv

LEMMA DcpInitInv == DcpInit => DcpInv
  BY DEF DcpInit, DcpInv, TransactionInv, FateInv, CommandInv, ReportInv, AnswerIsOurs, Ended

(* The frames a controller sends under a fresh transaction id. *)
Fresh(R, x) ==
    /\ \A f \in R : /\ f.xid = x /\ f.type = "request"
                    /\ f.service \in {"set", "get"} => f.id = "get_set"
    /\ \A f, g \in R : f.id = "get_set" /\ g.id = "get_set" => f = g

LEMMA SetIsFresh ==
    ASSUME NEW src, NEW dst, NEW v, NEW x
    PROVE  /\ Fresh(set_request(src, dst, x, v), x)
           /\ \A f \in set_request(src, dst, x, v) : f.dst = dst
  BY DEF Fresh, set_request, Frame

LEMMA GetIsFresh ==
    ASSUME NEW src, NEW dst, NEW x
    PROVE  /\ Fresh(get_request(src, dst, x), x)
           /\ \A f \in get_request(src, dst, x) : f.dst = dst
  BY DEF Fresh, get_request, Frame

LEMMA IdentifyIsFresh ==
    ASSUME NEW src, NEW x
    PROVE  /\ Fresh(identify_all_request(src, x), x)
           /\ \A f \in identify_all_request(src, x) : f.id # "get_set"
  BY DEF Fresh, identify_all_request, Frame

(* A fresh request touches no transaction that is known. *)
LEMMA RequestSent ==
    ASSUME DcpInv, NEW R, xid' = xid + 1, net' = net \cup R, Fresh(R, xid + 1),
           UNCHANGED <<applied, answer>>
    PROVE  TransactionInv' /\ FateInv' /\ ReportInv'
  <1>0. PICK y : y = xid + 1
    OBVIOUS
  <1>1. /\ xid \in Nat /\ y \in Nat /\ xid <= y /\ xid' = y
        /\ \A f \in net : f.xid \in Nat /\ f.xid <= y /\ f.xid # y
        /\ \A x \in applied : x \in Nat /\ x <= y /\ x # y
    BY <1>0 DEF DcpInv, TransactionInv
  <1>2. \A f \in R : /\ f.xid = y /\ f.type = "request"
                     /\ f.service \in {"set", "get"} => f.id = "get_set"
    BY <1>0 DEF Fresh
  <1> HIDE <1>0
  <1>3. TransactionInv'
    <2>1. \A f \in net' : f.xid \in Nat /\ f.xid <= y
      <3>1. \A f \in R : f.xid \in Nat /\ f.xid <= y
        BY <1>1, <1>2
      <3> QED BY <1>1, <3>1
    <2>2. \A x \in applied' : x \in Nat /\ x <= y
      BY <1>1
    <2>3. \A f, g \in net' : f.id = "get_set" /\ g.id = "get_set" /\ f.xid = g.xid => f = g
      BY <1>1, <1>2 DEF Fresh, DcpInv, TransactionInv
    <2> QED BY <1>1, <2>1, <2>2, <2>3 DEF TransactionInv
  <1>4. FateInv'
    <2>1. ASSUME NEW f \in R
          PROVE  /\ f.type = "request" /\ f.xid \notin applied
                 /\ f.service \in {"set", "get"} => f.id = "get_set"
                 /\ f.id = "get_set" => Asks(f)
      BY <1>1, <1>2 DEF Asks
    <2>2. \A f \in net' : f \in net \/ f \in R
      OBVIOUS
    <2> QED BY <2>1, <2>2 DEF FateInv, DcpInv, Asks
  <1>5. ReportInv'
    <2>1. AnswerIsOurs'
      BY DEF DcpInv, ReportInv, AnswerIsOurs, Ended
    <2>2. ASSUME Ended({"set"}), answer.outcome = "refused"
          PROVE  /\ answer.cmd.xid \in Nat /\ answer.cmd.xid <= y
                 /\ \A f \in net' : Asks(f) => f.xid # answer.cmd.xid
      <3>1. PICK z : z = answer.cmd.xid
        OBVIOUS
      <3>2. z \in Nat /\ z <= xid /\ \A f \in net : Asks(f) => f.xid # z
        BY <2>2, <3>1 DEF DcpInv, ReportInv
      <3>3. z <= y /\ z # y
        BY <1>1, <3>2, xid' = xid + 1
      <3>4. \A f \in R : f.xid # z
        BY <1>2, <3>3
      <3> QED BY <3>1, <3>2, <3>3, <3>4
    <2> QED BY <1>1, <2>1, <2>2 DEF ReportInv, Ended, Asks
  <1> QED BY <1>3, <1>4, <1>5

LEMMA BeginInv ==
    ASSUME DcpInv, NEW kind, NEW target, NEW value, NEW R, Begin(kind, target, value, R),
           Fresh(R, xid + 1), \A f \in R : f.id = "get_set" => f.dst = target
    PROVE  DcpInv'
  <1>1. TransactionInv' /\ FateInv' /\ ReportInv'
    BY RequestSent DEF Begin
  <1>2. CommandInv'
    <2>1. /\ cmd'.xid = xid + 1 /\ cmd'.target = target /\ xid' = xid + 1 /\ net' = net \cup R
          /\ \A f \in net : f.xid # xid + 1
          /\ xid \in Nat
      BY DEF Begin, DcpInv, TransactionInv
    <2>2. \A f \in R : f.id = "get_set" => Asks(f)
      BY DEF Fresh, Asks
    <2>3. \A f \in net' : f.id = "get_set" /\ f.xid = cmd'.xid => Asks(f) /\ f.dst = cmd'.target
      BY <2>1, <2>2
    <2> QED BY <2>1, <2>3 DEF CommandInv, Asks
  <1> QED BY <1>1, <1>2 DEF DcpInv

LEMMA CommandsBegin ==
    ASSUME DcpInv, cmd_set_param \/ cmd_get_param \/ cmd_discover \/ resolve_device
    PROVE  DcpInv'
  <1>1. CASE cmd_set_param
    BY <1>1, BeginInv, SetIsFresh DEF cmd_set_param
  <1>2. CASE cmd_get_param
    BY <1>2, BeginInv, GetIsFresh DEF cmd_get_param
  <1>3. CASE cmd_discover
    BY <1>3, BeginInv, IdentifyIsFresh DEF cmd_discover
  <1>4. CASE resolve_device
    BY <1>4, BeginInv, IdentifyIsFresh DEF resolve_device
  <1> QED BY <1>1, <1>2, <1>3, <1>4

LEMMA OtherControllerInv == DcpInv /\ OtherController => DcpInv'
  <1> SUFFICES ASSUME DcpInv, OtherController PROVE DcpInv'
    OBVIOUS
  <1>1. PICK R : net' = net \cup R /\ Fresh(R, xid + 1)
    <2>1. CASE net' = net \cup identify_all_request(Other, xid')
      BY <2>1, IdentifyIsFresh DEF OtherController
    <2>2. ASSUME NEW d \in Devices, NEW n \in Names, net' = net \cup set_request(Other, d, xid', n)
          PROVE  \E R : net' = net \cup R /\ Fresh(R, xid + 1)
      BY <2>2, SetIsFresh DEF OtherController
    <2> QED BY <2>1, <2>2 DEF OtherController
  <1>2. xid' = xid + 1 /\ UNCHANGED <<cmd, applied, answer>>
    BY DEF OtherController
  <1>3. TransactionInv' /\ FateInv' /\ ReportInv'
    BY <1>1, <1>2, RequestSent
  <1>4. CommandInv'
    <2>1. xid \in Nat /\ \A f \in R : f.xid = xid + 1
      BY <1>1 DEF Fresh, DcpInv, TransactionInv
    <2> QED BY <1>1, <1>2, <2>1 DEF CommandInv, DcpInv, Asks
  <1> QED BY <1>3, <1>4 DEF DcpInv

(* An alarm is never an answer, whatever its bytes look like. *)
LEMMA AlarmInv == DcpInv /\ Alarm => DcpInv'
  <1> SUFFICES ASSUME DcpInv, Alarm PROVE DcpInv'
    OBVIOUS
  <1>1. PICK a : net' = net \cup {a} /\ a.id = "alarm" /\ a.xid = cmd.xid /\ a.type = "success"
    <2>1. PICK d \in Devices : net' = net \cup {Frame(Me, d, "alarm", "set", "success", cmd.xid, "ok", 0)}
      BY DEF Alarm
    <2>2. PICK a : a = Frame(Me, d, "alarm", "set", "success", cmd.xid, "ok", 0)
      OBVIOUS
    <2>3. a.id = "alarm" /\ a.xid = cmd.xid /\ a.type = "success"
      BY <2>2 DEF Frame
    <2> QED BY <2>1, <2>2, <2>3
  <1>2. cmd # Nothing /\ UNCHANGED <<cmd, answer, xid, applied>>
    BY DEF Alarm
  <1>3. a.xid \in Nat /\ a.xid <= xid
    BY <1>1, <1>2 DEF DcpInv, CommandInv
  <1>4. TransactionInv' /\ FateInv'
    BY <1>1, <1>2, <1>3 DEF DcpInv, TransactionInv, FateInv, Asks
  <1>5. CommandInv'
    BY <1>1, <1>2 DEF DcpInv, CommandInv, Asks
  <1>6. ReportInv'
    BY <1>1, <1>2 DEF DcpInv, ReportInv, AnswerIsOurs, Ended, Asks
  <1> QED BY <1>4, <1>5, <1>6 DEF DcpInv

(* The device's answer takes the place of the request; a set it applied is recorded. *)
LEMMA Answers ==
    ASSUME DcpInv, NEW f \in net, NEW g, f.type = "request",
           net' = (net \ {f}) \cup {g},
           g.id = f.id \/ g.id = "identify_response",
           f.id # "get_set" => g.id # "get_set",
           g.xid = f.xid, g.origin = f.xid, g.src = f.dst, g.type \in {"success", "unsupported"},
           applied' = applied \/ (applied' = applied \cup {f.xid} /\ f.id = "get_set"),
           g.id = "get_set" /\ g.service = "set" =>
             (g.type = "success" /\ g.value = "ok" <=> g.xid \in applied'),
           UNCHANGED <<cmd, answer, xid>>
    PROVE  DcpInv'
  <1>1. /\ f.xid \in Nat /\ f.xid <= xid
        /\ \A h \in net : h.id = "get_set" /\ f.id = "get_set" /\ h.xid = f.xid => h = f
        /\ f.id = "get_set" => Asks(f)
    BY DEF DcpInv, TransactionInv, Asks
  <1>2. ~Asks(g)
    BY DEF Asks
  <1>3. TransactionInv'
    <2>1. xid' \in Nat /\ \A h \in net' : h.xid \in Nat /\ h.xid <= xid'
      BY <1>1 DEF DcpInv, TransactionInv
    <2>2. \A x \in applied' : x \in Nat /\ x <= xid'
      BY <1>1 DEF DcpInv, TransactionInv
    <2>3. \A h, k \in net' : h.id = "get_set" /\ k.id = "get_set" /\ h.xid = k.xid => h = k
      BY <1>1 DEF DcpInv, TransactionInv
    <2> QED BY <2>1, <2>2, <2>3 DEF TransactionInv
  <1>4. FateInv'
    <2>1. ASSUME NEW h \in net, h # f, h.id = "get_set" PROVE h.xid \in applied' <=> h.xid \in applied
      BY <1>1, <2>1
    <2>2. ASSUME NEW h \in net, h # f
          PROVE  /\ h.type = "request" /\ h.service \in {"set", "get"} => h.id = "get_set"
                 /\ Asks(h) => h.xid \notin applied'
                 /\ h.id = "get_set" /\ ~Asks(h) => h.origin = h.xid
                 /\ h.id = "get_set" /\ h.service = "set" /\ h.type = "unsupported" => h.xid \notin applied'
                 /\ h.id = "get_set" /\ h.service = "set" /\ h.type = "success" =>
                      (h.value = "ok" <=> h.xid \in applied')
      <3>1. Asks(h) => h.id = "get_set"
        BY DEF Asks
      <3> QED BY <2>1, <2>2, <3>1 DEF DcpInv, FateInv
    <2>3. /\ ~(g.type = "request") /\ g.origin = g.xid
          /\ g.id = "get_set" /\ g.service = "set" /\ g.type = "unsupported" => g.xid \notin applied'
          /\ g.id = "get_set" /\ g.service = "set" /\ g.type = "success" =>
               (g.value = "ok" <=> g.xid \in applied')
      OBVIOUS
    <2> QED BY <1>2, <2>2, <2>3 DEF FateInv, Asks
  <1>5. CommandInv'
    BY <1>1, <1>2 DEF DcpInv, CommandInv, Asks
  <1>6. ReportInv'
    <2>1. ASSUME Ended({"set"}), answer.outcome = "refused"
          PROVE  answer.cmd.xid \notin applied'
      BY <1>1, <2>1 DEF DcpInv, ReportInv, AnswerIsOurs
    <2>2. AnswerIsOurs'
      BY <2>1 DEF DcpInv, ReportInv, AnswerIsOurs, Ended
    <2>3. \A h \in net' : Asks(h) => h \in net
      BY <1>2
    <2> QED BY <2>2, <2>3 DEF DcpInv, ReportInv, Ended, Asks
  <1> QED BY <1>3, <1>4, <1>5, <1>6 DEF DcpInv

LEMMA DeviceSetInv == DcpInv /\ DeviceSet => DcpInv'
  <1> SUFFICES ASSUME DcpInv, DeviceSet PROVE DcpInv'
    OBVIOUS
  <1>1. PICK f \in net, reply \in SetReplies :
          /\ f.type = "request" /\ f.service = "set"
          /\ net' = (net \ {f}) \cup
               {Frame(f.src, f.dst, "get_set", "set",
                      IF reply = "unsupported" THEN "unsupported" ELSE "success", f.xid, reply, f.xid)}
          /\ applied' = IF reply = "ok" THEN applied \cup {f.xid} ELSE applied
          /\ UNCHANGED <<cmd, answer, xid>>
    BY DEF DeviceSet
  <1>2. f.id = "get_set" /\ f.xid \notin applied
    BY <1>1 DEF DcpInv, FateInv, Asks
  <1>3. PICK g : g = Frame(f.src, f.dst, "get_set", "set",
                           IF reply = "unsupported" THEN "unsupported" ELSE "success", f.xid, reply, f.xid)
    OBVIOUS
  <1>4. /\ g.id = "get_set" /\ g.xid = f.xid /\ g.origin = f.xid /\ g.src = f.dst /\ g.service = "set"
        /\ g.type = (IF reply = "unsupported" THEN "unsupported" ELSE "success") /\ g.value = reply
    BY <1>3 DEF Frame
  <1>5. g.type = "success" /\ g.value = "ok" <=> g.xid \in applied'
    BY <1>1, <1>2, <1>4 DEF SetReplies
  <1>6. applied' = applied \/ (applied' = applied \cup {f.xid} /\ f.id = "get_set")
    BY <1>1, <1>2
  <1>7. g.type \in {"success", "unsupported"} /\ net' = (net \ {f}) \cup {g}
    BY <1>1, <1>3, <1>4
  <1> QED BY <1>1, <1>2, <1>4, <1>5, <1>6, <1>7, Answers

LEMMA DeviceReadInv == DcpInv /\ (DeviceGet \/ DeviceIdentify) => DcpInv'
  <1> SUFFICES ASSUME DcpInv, DeviceGet \/ DeviceIdentify PROVE DcpInv'
    OBVIOUS
  <1>1. CASE DeviceGet
    <2>1. PICK f \in net :
            /\ f.type = "request" /\ f.service = "get"
            /\ net' = (net \ {f}) \cup
                 {Frame(f.src, f.dst, "get_set", "get", "success", f.xid, name[f.dst], f.xid)}
            /\ UNCHANGED <<cmd, answer, xid, applied>>
      BY <1>1 DEF DeviceGet
    <2>2. f.id = "get_set"
      BY <2>1 DEF DcpInv, FateInv
    <2>3. PICK g : g = Frame(f.src, f.dst, "get_set", "get", "success", f.xid, name[f.dst], f.xid)
      OBVIOUS
    <2>4. /\ g.id = "get_set" /\ g.xid = f.xid /\ g.origin = f.xid /\ g.src = f.dst
          /\ g.service = "get" /\ g.type = "success"
      BY <2>3 DEF Frame
    <2> QED BY <2>1, <2>2, <2>3, <2>4, Answers
  <1>2. CASE DeviceIdentify
    <2>1. PICK f \in net :
            /\ f.type = "request"
            /\ net' = (net \ {f}) \cup
                 {Frame(f.src, f.dst, "identify_response", "identify", "success", f.xid,
                        name[f.dst], f.xid)}
            /\ UNCHANGED <<cmd, answer, xid, applied>>
      BY <1>2 DEF DeviceIdentify
    <2>2. PICK g : g = Frame(f.src, f.dst, "identify_response", "identify", "success", f.xid,
                             name[f.dst], f.xid)
      OBVIOUS
    <2>3. /\ g.id = "identify_response" /\ g.xid = f.xid /\ g.origin = f.xid /\ g.src = f.dst
          /\ g.service = "identify" /\ g.type = "success"
      BY <2>2 DEF Frame
    <2> QED BY <2>1, <2>2, <2>3, Answers
  <1> QED BY <1>1, <1>2

(* Receiving leaves the segment alone; the command goes on or its report is right. *)
LEMMA Received ==
    ASSUME DcpInv, UNCHANGED <<net, xid, applied>>,
           UNCHANGED <<cmd, answer>> \/ (cmd' = Nothing /\ ReportInv')
    PROVE  DcpInv'
  <1>1. TransactionInv' /\ FateInv'
    BY DEF DcpInv, TransactionInv, FateInv, Asks
  <1>2. CommandInv'
    BY DEF DcpInv, CommandInv, Asks
  <1>3. ReportInv'
    BY DEF DcpInv, ReportInv, AnswerIsOurs, Ended, Asks
  <1> QED BY <1>1, <1>2, <1>3 DEF DcpInv

LEMMA SetAnswered == DcpInv /\ dcp_set_roundtrip => DcpInv'
  <1> SUFFICES ASSUME DcpInv, dcp_set_roundtrip PROVE DcpInv'
    OBVIOUS
  <1>1. PICK f \in net :
          /\ cmd # Nothing /\ UNCHANGED <<net, xid, applied>> /\ cmd.kind = "set"
          /\ IF f.dst # Me \/ set_code_answer(f, cmd.xid) = "skip"
             THEN UNCHANGED <<cmd, answer>>
             ELSE End(set_code_answer(f, cmd.xid), Nothing)
    BY DEF dcp_set_roundtrip, Capture
  <1>2. CASE UNCHANGED <<cmd, answer>>
    BY <1>1, <1>2, Received
  <1>3. CASE ~UNCHANGED <<cmd, answer>>
    <2>1. /\ set_code_answer(f, cmd.xid) # "skip" /\ cmd' = Nothing
          /\ answer'.cmd = cmd /\ answer'.outcome = set_code_answer(f, cmd.xid)
      BY <1>1, <1>3 DEF End
    <2>2. /\ f.id = "get_set" /\ f.service = "set" /\ f.xid = cmd.xid
          /\ \/ f.type = "unsupported" /\ set_code_answer(f, cmd.xid) = "refused"
             \/ f.type = "success" /\ f.value = "ok" /\ set_code_answer(f, cmd.xid) = "done"
             \/ f.type = "success" /\ f.value # "ok" /\ set_code_answer(f, cmd.xid) = "refused"
      BY <2>1 DEF set_code_answer
    <2>3. /\ answer'.outcome = "done" => cmd.xid \in applied
          /\ answer'.outcome = "refused" => cmd.xid \notin applied
      BY <2>1, <2>2 DEF DcpInv, FateInv
    <2>4. \A g \in net : Asks(g) => g.xid # cmd.xid
      BY <2>2 DEF DcpInv, TransactionInv, Asks
    <2>5. cmd.xid \in Nat /\ cmd.xid <= xid
      BY <1>1 DEF DcpInv, CommandInv
    <2>6. ReportInv'
      BY <1>1, <2>1, <2>3, <2>4, <2>5 DEF ReportInv, AnswerIsOurs, Ended, Asks
    <2> QED BY <1>1, <2>1, <2>6, Received
  <1> QED BY <1>2, <1>3

LEMMA GetAnswered == DcpInv /\ get_param_loop => DcpInv'
  <1> SUFFICES ASSUME DcpInv, get_param_loop PROVE DcpInv'
    OBVIOUS
  <1>1. PICK f \in net :
          /\ cmd # Nothing /\ UNCHANGED <<net, xid, applied>> /\ cmd.kind = "get"
          /\ heard' = heard \cup {g \in {f} : g.origin = cmd.xid}
          /\ IF f.dst # Me \/ ~is_get_response(f, cmd.xid)
             THEN UNCHANGED <<cmd, answer>>
             ELSE End("done", f.value)
    BY DEF get_param_loop, Capture
  <1>2. CASE UNCHANGED <<cmd, answer>>
    BY <1>1, <1>2, Received
  <1>3. CASE ~UNCHANGED <<cmd, answer>>
    <2>1. /\ is_get_response(f, cmd.xid) /\ cmd' = Nothing
          /\ answer'.cmd = cmd /\ answer'.value = f.value /\ answer'.heard = heard'
      BY <1>1, <1>3 DEF End
    <2>2. f.id = "get_set" /\ f.xid = cmd.xid /\ ~Asks(f)
      BY <2>1 DEF is_get_response, Asks
    <2>3. f.origin = cmd.xid /\ f.src = cmd.target
      BY <1>1, <2>2 DEF DcpInv, FateInv, CommandInv
    <2>4. f \in answer'.heard /\ f.src = answer'.cmd.target /\ f.value = answer'.value
      BY <1>1, <2>1, <2>3
    <2>5. ReportInv'
      BY <1>1, <2>1, <2>4 DEF ReportInv, AnswerIsOurs, Ended
    <2> QED BY <1>1, <2>1, <2>5, Received
  <1> QED BY <1>2, <1>3

LEMMA OthersEnd == DcpInv /\ (discover_until \/ Deadline) => DcpInv'
  <1> SUFFICES ASSUME DcpInv, discover_until \/ Deadline PROVE DcpInv'
    OBVIOUS
  <1>1. /\ UNCHANGED <<net, xid, applied>>
        /\ \/ UNCHANGED <<cmd, answer>>
           \/ /\ cmd' = Nothing /\ answer'.cmd = cmd
              /\ cmd.kind \in {"discover", "resolve"} \/ answer'.outcome = "timeout"
    <2>1. CASE discover_until
      BY <2>1 DEF discover_until, Capture, End
    <2>2. CASE Deadline
      BY <2>2 DEF Deadline, End
    <2> QED BY <2>1, <2>2
  <1>2. CASE UNCHANGED <<cmd, answer>>
    BY <1>1, <1>2, Received
  <1>3. CASE ~UNCHANGED <<cmd, answer>>
    <2>1. ReportInv'
      BY <1>1, <1>3 DEF ReportInv, AnswerIsOurs, Ended
    <2> QED BY <1>1, <1>3, <2>1, Received
  <1> QED BY <1>2, <1>3

LEMMA DcpInvariant == DcpSpec => []DcpInv
  <1>1. DcpInv /\ [DcpNext]_dcpVars => DcpInv'
    <2> SUFFICES ASSUME DcpInv, [DcpNext]_dcpVars PROVE DcpInv'
      OBVIOUS
    <2>1. CASE UNCHANGED dcpVars
      BY <2>1, Received DEF dcpVars
    <2> QED
      BY <2>1, CommandsBegin, OtherControllerInv, AlarmInv, DeviceSetInv, DeviceReadInv,
         SetAnswered, GetAnswered, OthersEnd DEF DcpNext
  <1> QED BY <1>1, DcpInitInv, PTL DEF DcpSpec

(* A DCP set that reports success was applied by its device, one that reports a     *)
(* refusal was not, and a get reports what the addressed device said to this very   *)
(* request, whatever else the segment carries: answers to other controllers, late   *)
(* or repeated answers, alarms with the same bytes, for any number of devices.      *)
THEOREM AnswersAreOurs == DcpSpec => []AnswerIsOurs
  <1>1. DcpInv => AnswerIsOurs
    BY DEF DcpInv, ReportInv
  <1> QED BY <1>1, DcpInvariant, PTL

-----------------------------------------------------------------------------
(* Discovery and resolution (Dcp) *)

Entry == [mac : Devices, name : Names]
Said(h) == {[mac |-> f.src, name |-> f.value] : f \in h}
Macs(h) == {d.mac : d \in Said(h)}

(* A device answers an identify request once, and nothing answers in its place. *)
SegmentInv ==
    /\ name \in [Devices -> Names]
    /\ \A f \in net :
         /\ f.xid \in Nat /\ f.xid # 0 /\ f.origin \in {0, f.xid}
         /\ f.type = "request" => f.dst \in Devices /\ f.origin = 0
         /\ f.type = "request" /\ f.service = "set" => f.value \in Names
         /\ f.type = "request" /\ f.service = "identify" => f.id = "identify_request"
         /\ f.id = "identify_response" =>
              f.origin = f.xid /\ f.src \in Devices /\ f.value \in Names /\ f.type = "success"
    /\ \A f, g \in net :
         f.id = "identify_response" /\ g.id = "identify_response" /\ f.xid = g.xid /\ f.src = g.src => f = g
    /\ \A f, g \in net :
         f.id = "identify_request" /\ g.id = "identify_request" /\ f.xid = g.xid /\ f.dst = g.dst => f = g
    /\ \A f, g \in net :
         f.id = "identify_response" /\ g.id = "identify_request" /\ f.xid = g.xid => f.src # g.dst

Searching == cmd # Nothing /\ cmd.kind \in {"discover", "resolve"}

(* What has the transaction id of a search is about that search. *)
TrafficInv ==
    /\ cmd # Nothing => cmd.xid # 0
    /\ Searching =>
         \A f \in net : f.xid = cmd.xid =>
           /\ f.id = "identify_request" => f.src = Me
           /\ f.id = "identify_response" => f.dst = Me
           /\ f.id # "identify_response" => f.origin = 0
           /\ f.id # "get_set"

(* The list holds one entry for each device that was heard. *)
ListInv ==
    Searching =>
      /\ \A f \in heard : f \in net /\ f.id = "identify_response" /\ f.xid = cmd.xid
      /\ devices \in Seq(Entry) /\ Range(devices) = Said(heard)
      /\ IsFiniteSet(Macs(heard)) /\ Len(devices) = Cardinality(Macs(heard))
      /\ cmd.kind = "resolve" => \A d \in Said(heard) : d.name # cmd.target

FindInv == SegmentInv /\ TrafficInv /\ ListInv /\ DiscoveryExact

LEMMA FindInitInv == DcpInit => FindInv
  BY DEF DcpInit, FindInv, SegmentInv, TrafficInv, ListInv, Searching, DiscoveryExact, Ended

(* Frames are added to or replaced on the segment by others: the search goes on. *)
LEMMA SearchGoesOn ==
    ASSUME FindInv, UNCHANGED <<cmd, answer, devices, heard>>, \A f \in heard : f \in net => f \in net'
    PROVE  ListInv' /\ DiscoveryExact'
  <1>1. ListInv'
    BY DEF FindInv, ListInv, Searching
  <1>2. DiscoveryExact'
    BY DEF FindInv, DiscoveryExact, Ended
  <1> QED BY <1>1, <1>2

(* The frames a controller sends under a fresh transaction id are requests to devices. *)
Requests(R, x) ==
    \A f \in R : /\ f.xid = x /\ f.type = "request" /\ f.dst \in Devices /\ f.origin = 0
                 /\ f.service = "set" => f.value \in Names
                 /\ f.service = "identify" => f.id = "identify_request"
                 /\ f.id # "identify_response"
OnePerDevice(R) ==
    \A f, g \in R : f.id = "identify_request" /\ g.id = "identify_request" /\ f.dst = g.dst => f = g

LEMMA RequestKinds ==
    ASSUME NEW src, NEW x, NEW d \in Devices
    PROVE  /\ \A n \in Names : Requests(set_request(src, d, x, n), x) /\ OnePerDevice(set_request(src, d, x, n))
           /\ Requests(get_request(src, d, x), x) /\ OnePerDevice(get_request(src, d, x))
  BY DEF Requests, OnePerDevice, set_request, get_request, Frame

LEMMA IdentifyKinds ==
    ASSUME NEW src, NEW x
    PROVE  /\ Requests(identify_all_request(src, x), x) /\ OnePerDevice(identify_all_request(src, x))
           /\ \A f \in identify_all_request(src, x) : f.src = src /\ f.id # "get_set"
  <1>1. \A f \in identify_all_request(src, x) :
          /\ f.xid = x /\ f.type = "request" /\ f.dst \in Devices /\ f.origin = 0 /\ f.src = src
          /\ f.service = "identify" /\ f.id = "identify_request"
          /\ f = Frame(f.dst, src, "identify_request", "identify", "request", x, Nothing, 0)
    BY DEF identify_all_request, Frame
  <1> QED BY <1>1 DEF Requests, OnePerDevice

LEMMA RequestsAdded ==
    ASSUME DcpInv, SegmentInv, NEW R, net' = net \cup R, Requests(R, xid + 1), OnePerDevice(R),
           UNCHANGED name
    PROVE  SegmentInv'
  <1>0. PICK y : y = xid + 1
    OBVIOUS
  <1>1. y \in Nat /\ y # 0 /\ \A f \in net : f.xid # y
    BY <1>0 DEF DcpInv, TransactionInv
  <1>2. \A f \in R : /\ f.xid = y /\ f.type = "request" /\ f.dst \in Devices /\ f.origin = 0
                     /\ f.service = "set" => f.value \in Names
                     /\ f.service = "identify" => f.id = "identify_request"
                     /\ f.id # "identify_response"
    BY <1>0 DEF Requests
  <1> HIDE <1>0
  <1>3. \A f \in net' : f \in net \/ f \in R
    OBVIOUS
  <1>4. \A f \in net' :
         /\ f.xid \in Nat /\ f.xid # 0 /\ f.origin \in {0, f.xid}
         /\ f.type = "request" => f.dst \in Devices /\ f.origin = 0
         /\ f.type = "request" /\ f.service = "set" => f.value \in Names
         /\ f.type = "request" /\ f.service = "identify" => f.id = "identify_request"
         /\ f.id = "identify_response" =>
              f.origin = f.xid /\ f.src \in Devices /\ f.value \in Names /\ f.type = "success"
    BY <1>1, <1>2, <1>3 DEF SegmentInv
  <1>5. \A f, g \in net' :
         f.id = "identify_response" /\ g.id = "identify_response" /\ f.xid = g.xid /\ f.src = g.src => f = g
    BY <1>2, <1>3 DEF SegmentInv
  <1>6. \A f, g \in net' :
         f.id = "identify_request" /\ g.id = "identify_request" /\ f.xid = g.xid /\ f.dst = g.dst => f = g
    BY <1>1, <1>2, <1>3 DEF SegmentInv, OnePerDevice
  <1>7. \A f, g \in net' :
         f.id = "identify_response" /\ g.id = "identify_request" /\ f.xid = g.xid => f.src # g.dst
    BY <1>1, <1>2, <1>3 DEF SegmentInv
  <1> QED BY <1>4, <1>5, <1>6, <1>7 DEF SegmentInv

LEMMA BeginFinds ==
    ASSUME DcpInv, FindInv, NEW kind, NEW target, NEW value, NEW R, Begin(kind, target, value, R),
           Requests(R, xid + 1), OnePerDevice(R),
           kind \in {"discover", "resolve"} => \A f \in R : f.src = Me /\ f.id # "get_set"
    PROVE  FindInv'
  <1>1. /\ net' = net \cup R /\ xid' = xid + 1 /\ devices' = <<>> /\ heard' = {}
        /\ UNCHANGED <<answer, name>> /\ cmd'.kind = kind /\ cmd'.xid = xid + 1
    BY DEF Begin
  <1>2. SegmentInv'
    BY <1>1, RequestsAdded DEF FindInv
  <1>3. TrafficInv'
    <2>1. xid \in Nat /\ xid + 1 # 0 /\ \A f \in net : f.xid # xid + 1
      BY DEF DcpInv, TransactionInv
    <2>2. \A f \in net' : f.xid = cmd'.xid => f \in R
      BY <1>1, <2>1
    <2> QED BY <1>1, <2>1, <2>2 DEF TrafficInv, Searching, Requests
  <1>4. ListInv'
    <2>1. Said({}) = {} /\ Macs({}) = {} /\ Range(<<>>) = {} /\ Len(<<>>) = 0 /\ <<>> \in Seq(Entry)
      BY DEF Said, Macs, Range
    <2> QED BY <1>1, <2>1, FS_EmptySet DEF ListInv, Searching
  <1>5. DiscoveryExact'
    BY <1>1 DEF FindInv, DiscoveryExact, Ended
  <1> QED BY <1>2, <1>3, <1>4, <1>5 DEF FindInv

LEMMA CommandsFind ==
    ASSUME DcpInv, FindInv, cmd_set_param \/ cmd_get_param \/ cmd_discover \/ resolve_device
    PROVE  FindInv'
  <1>1. CASE cmd_set_param
    BY <1>1, BeginFinds, RequestKinds DEF cmd_set_param
  <1>2. CASE cmd_get_param
    BY <1>2, BeginFinds, RequestKinds DEF cmd_get_param
  <1>3. CASE cmd_discover
    BY <1>3, BeginFinds, IdentifyKinds DEF cmd_discover
  <1>4. CASE resolve_device
    BY <1>4, BeginFinds, IdentifyKinds DEF resolve_device
  <1> QED BY <1>1, <1>2, <1>3, <1>4

LEMMA OtherControllerFinds == ASSUME DcpInv, FindInv, OtherController PROVE FindInv'
  <1>1. PICK R : net' = net \cup R /\ Requests(R, xid + 1) /\ OnePerDevice(R)
    <2>1. CASE net' = net \cup identify_all_request(Other, xid')
      BY <2>1, IdentifyKinds DEF OtherController
    <2>2. ASSUME NEW d \in Devices, NEW n \in Names, net' = net \cup set_request(Other, d, xid', n)
          PROVE  \E R : net' = net \cup R /\ Requests(R, xid + 1) /\ OnePerDevice(R)
      BY <2>2, RequestKinds DEF OtherController
    <2> QED BY <2>1, <2>2 DEF OtherController
  <1>2. UNCHANGED <<cmd, answer, devices, heard, name>>
    BY DEF OtherController
  <1>3. SegmentInv'
    BY <1>1, <1>2, RequestsAdded DEF FindInv
  <1>4. TrafficInv'
    <2>1. ASSUME cmd # Nothing PROVE \A f \in R : f.xid # cmd.xid
      BY <1>1, <2>1 DEF Requests, DcpInv, CommandInv, TransactionInv
    <2> QED BY <1>1, <1>2, <2>1 DEF FindInv, TrafficInv, Searching
  <1>5. ListInv' /\ DiscoveryExact'
    BY <1>1, <1>2, SearchGoesOn
  <1> QED BY <1>3, <1>4, <1>5 DEF FindInv

LEMMA AlarmFinds == ASSUME DcpInv, FindInv, Alarm PROVE FindInv'
  <1>1. PICK a : /\ net' = net \cup {a} /\ a.id = "alarm" /\ a.xid = cmd.xid /\ a.type = "success"
                 /\ a.origin = 0
    <2>1. PICK d \in Devices : net' = net \cup {Frame(Me, d, "alarm", "set", "success", cmd.xid, "ok", 0)}
      BY DEF Alarm
    <2>2. PICK a : a = Frame(Me, d, "alarm", "set", "success", cmd.xid, "ok", 0)
      OBVIOUS
    <2>3. a.id = "alarm" /\ a.xid = cmd.xid /\ a.type = "success" /\ a.origin = 0
      BY <2>2 DEF Frame
    <2> QED BY <2>1, <2>2, <2>3
  <1>2. UNCHANGED <<cmd, answer, devices, heard, name>> /\ cmd # Nothing
    BY DEF Alarm
  <1>3. SegmentInv'
    <2>1. a.xid \in Nat /\ a.xid # 0
      BY <1>1, <1>2 DEF FindInv, TrafficInv, DcpInv, CommandInv
    <2> QED BY <1>1, <1>2, <2>1 DEF FindInv, SegmentInv
  <1>4. TrafficInv'
    BY <1>1, <1>2 DEF FindInv, TrafficInv, Searching
  <1>5. ListInv' /\ DiscoveryExact'
    BY <1>1, <1>2, SearchGoesOn
  <1> QED BY <1>3, <1>4, <1>5 DEF FindInv

(* A device answers a request, which leaves the segment. *)
LEMMA AnswerFinds ==
    ASSUME DcpInv, FindInv, NEW f \in net, NEW g, f.type = "request", net' = (net \ {f}) \cup {g},
           \/ f.id = "get_set" /\ g.id = "get_set"
           \/ /\ f.id = "identify_request" /\ g.id = "identify_response" /\ g.type = "success"
              /\ g.value \in Names,
           g.type \in {"success", "unsupported"},
           g.src = f.dst, g.dst = f.src, g.xid = f.xid, g.origin = f.xid,
           name' \in [Devices -> Names], UNCHANGED <<cmd, answer, devices, heard>>
    PROVE  FindInv'
  <1>1. /\ f.xid \in Nat /\ f.xid # 0 /\ f.dst \in Devices
        /\ \A h \in net' : (h \in net /\ h # f) \/ h = g
    BY DEF FindInv, SegmentInv
  <1>2. \A h \in net' :
         /\ h.xid \in Nat /\ h.xid # 0 /\ h.origin \in {0, h.xid}
         /\ h.type = "request" => h.dst \in Devices /\ h.origin = 0
         /\ h.type = "request" /\ h.service = "set" => h.value \in Names
         /\ h.type = "request" /\ h.service = "identify" => h.id = "identify_request"
         /\ h.id = "identify_response" =>
              h.origin = h.xid /\ h.src \in Devices /\ h.value \in Names /\ h.type = "success"
    BY <1>1 DEF FindInv, SegmentInv
  <1>3. \A h, k \in net' :
         h.id = "identify_response" /\ k.id = "identify_response" /\ h.xid = k.xid /\ h.src = k.src => h = k
    BY <1>1 DEF FindInv, SegmentInv
  <1>4. \A h, k \in net' :
         h.id = "identify_request" /\ k.id = "identify_request" /\ h.xid = k.xid /\ h.dst = k.dst => h = k
    BY <1>1 DEF FindInv, SegmentInv
  <1>5. \A h, k \in net' :
         h.id = "identify_response" /\ k.id = "identify_request" /\ h.xid = k.xid => h.src # k.dst
    BY <1>1 DEF FindInv, SegmentInv
  <1>6. SegmentInv'
    BY <1>2, <1>3, <1>4, <1>5 DEF SegmentInv
  <1>7. TrafficInv'
    BY <1>1 DEF FindInv, TrafficInv, Searching
  <1>8. ListInv' /\ DiscoveryExact'
    <2>1. CASE Searching
      <3>1. \A h \in heard : h # f
        <4>1. \A h \in heard : h.id = "identify_response"
          BY <2>1 DEF FindInv, ListInv
        <4> QED BY <4>1
      <3> QED BY <3>1, SearchGoesOn
    <2>2. CASE ~Searching
      BY <2>2 DEF FindInv, ListInv, Searching, DiscoveryExact, Ended
    <2> QED BY <2>1, <2>2
  <1> QED BY <1>6, <1>7, <1>8 DEF FindInv

LEMMA DevicesFind ==
    ASSUME DcpInv, FindInv, DeviceSet \/ DeviceGet \/ DeviceIdentify PROVE FindInv'
  <1>1. CASE DeviceSet
    <2>1. PICK f \in net, reply \in SetReplies :
            /\ f.type = "request" /\ f.service = "set"
            /\ net' = (net \ {f}) \cup
                 {Frame(f.src, f.dst, "get_set", "set",
                        IF reply = "unsupported" THEN "unsupported" ELSE "success", f.xid, reply, f.xid)}
            /\ name' = IF reply = "ok" THEN [name EXCEPT ![f.dst] = f.value] ELSE name
            /\ UNCHANGED <<cmd, answer, devices, heard>>
      BY <1>1 DEF DeviceSet
    <2>2. PICK g : g = Frame(f.src, f.dst, "get_set", "set",
                             IF reply = "unsupported" THEN "unsupported" ELSE "success", f.xid, reply, f.xid)
      OBVIOUS
    <2>3. /\ g.id = "get_set" /\ g.xid = f.xid /\ g.origin = f.xid /\ g.src = f.dst /\ g.dst = f.src
          /\ g.type \in {"success", "unsupported"}
      BY <2>2 DEF Frame
    <2>4. f.id = "get_set"
      BY <2>1 DEF DcpInv, FateInv
    <2>5. name' \in [Devices -> Names]
      BY <2>1 DEF FindInv, SegmentInv
    <2>6. net' = (net \ {f}) \cup {g}
      BY <2>1, <2>2
    <2> QED BY <2>1, <2>3, <2>4, <2>5, <2>6, AnswerFinds
  <1>2. CASE DeviceGet
    <2>1. PICK f \in net :
            /\ f.type = "request" /\ f.service = "get"
            /\ net' = (net \ {f}) \cup
                 {Frame(f.src, f.dst, "get_set", "get", "success", f.xid, name[f.dst], f.xid)}
            /\ UNCHANGED <<cmd, answer, devices, name, heard>>
      BY <1>2 DEF DeviceGet
    <2>2. PICK g : g = Frame(f.src, f.dst, "get_set", "get", "success", f.xid, name[f.dst], f.xid)
      OBVIOUS
    <2>3. /\ g.id = "get_set" /\ g.xid = f.xid /\ g.origin = f.xid /\ g.src = f.dst /\ g.dst = f.src
          /\ g.type = "success"
      BY <2>2 DEF Frame
    <2>4. f.id = "get_set" /\ name' \in [Devices -> Names]
      BY <2>1 DEF DcpInv, FateInv, FindInv, SegmentInv
    <2>5. net' = (net \ {f}) \cup {g}
      BY <2>1, <2>2
    <2> QED BY <2>1, <2>3, <2>4, <2>5, AnswerFinds
  <1>3. CASE DeviceIdentify
    <2>1. PICK f \in net :
            /\ f.type = "request" /\ f.service = "identify"
            /\ net' = (net \ {f}) \cup
                 {Frame(f.src, f.dst, "identify_response", "identify", "success", f.xid, name[f.dst], f.xid)}
            /\ UNCHANGED <<cmd, answer, devices, name, heard>>
      BY <1>3 DEF DeviceIdentify
    <2>2. PICK g : g = Frame(f.src, f.dst, "identify_response", "identify", "success", f.xid,
                             name[f.dst], f.xid)
      OBVIOUS
    <2>3. /\ g.id = "identify_response" /\ g.xid = f.xid /\ g.origin = f.xid /\ g.src = f.dst
          /\ g.dst = f.src /\ g.type = "success" /\ g.value = name[f.dst]
      BY <2>2 DEF Frame
    <2>4. /\ f.id = "identify_request" /\ name \in [Devices -> Names] /\ f.dst \in Devices
      BY <2>1 DEF FindInv, SegmentInv
    <2>5. net' = (net \ {f}) \cup {g} /\ g.value \in Names /\ name' \in [Devices -> Names]
      BY <2>1, <2>2, <2>3, <2>4
    <2> QED BY <2>1, <2>3, <2>4, <2>5, AnswerFinds
  <1> QED BY <1>1, <1>2, <1>3

-----------------------------------------------------------------------------
(* Frames of the capture *)

(* Receiving leaves the segment alone. *)
LEMMA SegmentRests == ASSUME FindInv, UNCHANGED <<net, name>> PROVE SegmentInv'
  BY DEF FindInv, SegmentInv

(* A set or a get neither lists nor finds. *)
LEMMA OtherCommandsFind ==
    ASSUME DcpInv, FindInv, dcp_set_roundtrip \/ get_param_loop PROVE FindInv'
  <1>1. /\ cmd # Nothing /\ cmd.kind \in {"set", "get"} /\ UNCHANGED <<net, name>>
        /\ \/ UNCHANGED <<cmd, answer>>
           \/ cmd' = Nothing /\ answer'.cmd = cmd
    BY DEF dcp_set_roundtrip, get_param_loop, Capture, End
  <1>2. SegmentInv'
    BY <1>1, SegmentRests
  <1>3. TrafficInv' /\ ListInv'
    BY <1>1 DEF FindInv, TrafficInv, ListInv, Searching
  <1>4. DiscoveryExact'
    BY <1>1 DEF FindInv, DiscoveryExact, Ended
  <1> QED BY <1>2, <1>3, <1>4 DEF FindInv

LEMMA DeadlineFinds == ASSUME DcpInv, FindInv, Deadline PROVE FindInv'
  <1>1. /\ cmd # Nothing /\ UNCHANGED <<net, name, heard, devices>> /\ cmd' = Nothing
        /\ answer'.cmd = cmd /\ answer'.heard = heard
        /\ IF cmd.kind = "discover" THEN answer'.outcome = "done" /\ answer'.value = devices
                                    ELSE answer'.outcome = "timeout"
    BY DEF Deadline, End
  <1>2. SegmentInv'
    BY <1>1, SegmentRests
  <1>3. TrafficInv' /\ ListInv'
    BY <1>1 DEF TrafficInv, ListInv, Searching
  <1>4. DiscoveryExact'
    <2>1. CASE cmd.kind = "discover"
      <3>1. Range(devices) = Said(heard) /\ Len(devices) = Cardinality(Macs(heard))
        BY <1>1, <2>1 DEF FindInv, ListInv, Searching
      <3> QED BY <1>1, <2>1, <3>1 DEF DiscoveryExact, Ended, Said, Macs
    <2>2. CASE cmd.kind = "resolve"
      <3>1. \A d \in Said(heard) : d.name # cmd.target
        BY <1>1, <2>2 DEF FindInv, ListInv, Searching
      <3> QED BY <1>1, <2>2, <3>1 DEF DiscoveryExact, Ended, Said
    <2>3. CASE cmd.kind \notin {"discover", "resolve"}
      BY <1>1, <2>3 DEF DiscoveryExact, Ended
    <2> QED BY <2>1, <2>2, <2>3
  <1> QED BY <1>2, <1>3, <1>4 DEF FindInv

(* One more frame keeps the list exact: an answer to this search is entered under   *)
(* its device, and the same answer again changes nothing.                           *)
LEMMA ListStaysExact ==
    ASSUME DcpInv, FindInv, Searching, NEW f \in net, NEW h, NEW ds,
           h = heard \cup {g \in {f} : g.origin = cmd.xid}, ds = aggregate_responses(devices, f, cmd.xid)
    PROVE  /\ \A g \in h : g \in net /\ g.id = "identify_response" /\ g.xid = cmd.xid
           /\ ds \in Seq(Entry) /\ Range(ds) = Said(h)
           /\ IsFiniteSet(Macs(h)) /\ Len(ds) = Cardinality(Macs(h))
  <1>1. /\ \A g \in heard : g \in net /\ g.id = "identify_response" /\ g.xid = cmd.xid
        /\ devices \in Seq(Entry) /\ Range(devices) = Said(heard)
        /\ IsFiniteSet(Macs(heard)) /\ Len(devices) = Cardinality(Macs(heard))
    BY DEF FindInv, ListInv
  <1>2. /\ f.origin \in {0, f.xid} /\ cmd.xid # 0
        /\ f.xid = cmd.xid /\ f.id # "identify_response" => f.origin = 0
        /\ f.xid = cmd.xid /\ f.id = "identify_response" => f.dst = Me
        /\ f.id = "identify_response" =>
             f.origin = f.xid /\ f.src \in Devices /\ f.value \in Names /\ f.type = "success"
    BY DEF FindInv, SegmentInv, TrafficInv, Searching
  <1>3. CASE ~(f.id = "identify_response" /\ f.xid = cmd.xid)
    <2>1. f.origin # cmd.xid
      BY <1>2, <1>3
    <2>2. h = heard
      BY <2>1
    <2>3. ds = devices
      BY <1>3 DEF aggregate_responses, is_identify_response
    <2> QED BY <1>1, <2>2, <2>3
  <1>4. CASE f.id = "identify_response" /\ f.xid = cmd.xid
    <2>1. PICK d : d = [mac |-> f.src, name |-> f.value]
      OBVIOUS
    <2>2. d \in Entry /\ d.mac = f.src /\ d.name = f.value /\ h = heard \cup {f}
      BY <1>2, <1>4, <2>1 DEF Entry
    <2>3. PICK at : at = {i \in DOMAIN devices : devices[i].mac = f.src}
      OBVIOUS
    <2>4. ds = IF at = {} THEN Append(devices, d)
               ELSE [i \in DOMAIN devices |-> IF i \in at THEN d ELSE devices[i]]
      BY <1>2, <1>4, <2>1, <2>3 DEF aggregate_responses, is_identify_response
    <2>5. Said(h) = Said(heard) \cup {d} /\ Macs(h) = Macs(heard) \cup {f.src}
      <3>1. Said(h) = Said(heard) \cup {d}
        BY <2>1, <2>2 DEF Said
      <3> QED BY <2>2, <3>1 DEF Macs
    <2>6. \A g \in h : g \in net /\ g.id = "identify_response" /\ g.xid = cmd.xid
      BY <1>1, <1>4, <2>2
    <2>7. CASE at = {}
      <3>1. f.src \notin Macs(heard)
        <4>1. \A e \in Range(devices) : e.mac # f.src
          BY <2>3, <2>7 DEF Range
        <4> QED BY <1>1, <4>1 DEF Macs
      <3>2. IsFiniteSet(Macs(h)) /\ Cardinality(Macs(h)) = Cardinality(Macs(heard)) + 1
        BY <1>1, <2>5, <3>1, FS_AddElement
      <3>3. /\ ds = Append(devices, d) /\ ds \in Seq(Entry) /\ Len(ds) = Len(devices) + 1
        BY <1>1, <2>2, <2>4, <2>7
      <3>4. Range(ds) = Range(devices) \cup {d}
        <4>1. /\ DOMAIN ds = DOMAIN devices \cup {Len(devices) + 1}
              /\ \A i \in DOMAIN devices : ds[i] = devices[i]
              /\ ds[Len(devices) + 1] = d
          BY <1>1, <3>3
        <4> QED BY <4>1 DEF Range
      <3> QED BY <1>1, <2>5, <2>6, <3>2, <3>3, <3>4
    <2>8. CASE at # {}
      <3>1. \A i \in at : devices[i] = d
        <4> TAKE i \in at
        <4>1. i \in DOMAIN devices /\ devices[i].mac = f.src
          BY <2>3
        <4>2. devices[i] \in Said(heard)
          BY <1>1, <4>1 DEF Range
        <4>3. PICK g \in heard : devices[i] = [mac |-> g.src, name |-> g.value]
          BY <4>2 DEF Said
        <4>4. g \in net /\ g.id = "identify_response" /\ g.xid = f.xid /\ g.src = f.src
          BY <1>1, <1>4, <4>1, <4>3
        <4>5. g = f
          BY <1>4, <4>4 DEF FindInv, SegmentInv
        <4> QED BY <2>1, <4>3, <4>5
      <3>2. ds = devices
        <4>1. \A i \in DOMAIN devices : (IF i \in at THEN d ELSE devices[i]) = devices[i]
          BY <3>1
        <4>2. devices = [i \in DOMAIN devices |-> devices[i]]
          BY <1>1
        <4> QED BY <2>4, <2>8, <4>1, <4>2
      <3>3. d \in Said(heard)
        <4>1. PICK i \in at : TRUE
          BY <2>8
        <4> QED BY <1>1, <2>3, <3>1, <4>1 DEF Range
      <3>4. Said(h) = Said(heard)
        BY <2>5, <3>3
      <3> QED BY <1>1, <2>6, <3>2, <3>4 DEF Macs
    <2> QED BY <2>7, <2>8
  <1> QED BY <1>3, <1>4

(* match_device finds an entry of the name if there is one. *)
LEMMA MatchDevice ==
    ASSUME NEW ds \in Seq(Entry), NEW t, NEW m, m = match_device(ds, t)
    PROVE  /\ m = Nothing => \A d \in Range(ds) : d.name # t
           /\ m # Nothing => m \in Range(ds) /\ m.name = t
  <1>1. CASE \A i \in DOMAIN ds : ds[i].name # t
    <2>1. m = Nothing
      BY <1>1 DEF match_device, device_matches
    <2> QED BY <1>1, <2>1 DEF Range
  <1>2. CASE \E i \in DOMAIN ds : ds[i].name = t
    <2>1. \E i \in DOMAIN ds : ds[i].name = t /\ \A j \in 1..i - 1 : ds[j].name # t
      <3>1. PICK T : T = {i \in DOMAIN ds : ds[i].name = t}
        OBVIOUS
      <3>2. T \subseteq Nat /\ T # {} /\ \A i \in T : i \in 1..Len(ds)
        BY <1>2, <3>1
      <3>3. PICK R : R = OpToRel(<, Nat)
        OBVIOUS
      <3>4. IsWellFoundedOn(R, Nat)
        BY <3>3, NatLessThanWellFounded
      <3>5. \A i, j \in Nat : i < j => <<i, j>> \in R
        BY <3>3 DEF OpToRel
      <3>6. PICK i \in T : \A j \in T : ~(<<j, i>> \in R)
        BY <3>2, <3>4, WFMin
      <3>7. \A j \in 1..i - 1 : j \notin T /\ j \in DOMAIN ds
        <4> TAKE j \in 1..i - 1
        <4>1. i \in Nat /\ j \in Nat /\ j < i /\ i \in 1..Len(ds) /\ Len(ds) \in Nat
          BY <3>2
        <4>2. j \notin T
          BY <3>5, <3>6, <4>1
        <4>3. j \in 1..Len(ds)
          BY <4>1
        <4> QED BY <4>2, <4>3
      <3> QED BY <3>1, <3>6, <3>7
    <2>2. PICK i \in DOMAIN ds : m = ds[i] /\ ds[i].name = t
      BY <1>2, <2>1 DEF match_device, device_matches
    <2>3. m # Nothing
      <3>1. m \in Entry
        BY <2>2
      <3> QED BY <3>1, DcpAssumption DEF Entry
    <2> QED BY <2>2, <2>3 DEF Range
  <1> QED BY <1>1, <1>2

LEMMA SearchFinds == ASSUME DcpInv, FindInv, discover_until PROVE FindInv'
  <1>1. PICK f \in net :
          /\ cmd # Nothing /\ heard' = heard \cup {g \in {f} : g.origin = cmd.xid}
          /\ UNCHANGED <<net, name>> /\ cmd.kind \in {"discover", "resolve"}
          /\ devices' = aggregate_responses(devices, f, cmd.xid)
          /\ IF cmd.kind = "resolve" /\ match_device(devices', cmd.target) # Nothing
             THEN End("done", match_device(devices', cmd.target))
             ELSE UNCHANGED <<cmd, answer>>
    BY DEF discover_until, Capture
  <1>2. PICK h, ds, m : h = heard' /\ ds = devices' /\ m = match_device(ds, cmd.target)
    OBVIOUS
  <1>3. /\ \A g \in h : g \in net /\ g.id = "identify_response" /\ g.xid = cmd.xid
        /\ ds \in Seq(Entry) /\ Range(ds) = Said(h)
        /\ IsFiniteSet(Macs(h)) /\ Len(ds) = Cardinality(Macs(h))
    BY <1>1, <1>2, ListStaysExact DEF Searching
  <1>4. /\ m = Nothing => \A d \in Said(h) : d.name # cmd.target
        /\ m # Nothing => m \in Said(h) /\ m.name = cmd.target
    BY <1>2, <1>3, MatchDevice
  <1>5. SegmentInv'
    BY <1>1, SegmentRests
  <1>6. CASE cmd.kind = "resolve" /\ m # Nothing
    <2>1. /\ cmd' = Nothing /\ answer'.cmd = cmd /\ answer'.outcome = "done" /\ answer'.value = m
          /\ answer'.heard = h
      BY <1>1, <1>2, <1>6 DEF End
    <2>2. TrafficInv' /\ ListInv'
      BY <2>1 DEF TrafficInv, ListInv, Searching
    <2>3. DiscoveryExact'
      BY <1>4, <1>6, <2>1 DEF DiscoveryExact, Ended, Said
    <2> QED BY <1>5, <2>2, <2>3 DEF FindInv
  <1>7. CASE ~(cmd.kind = "resolve" /\ m # Nothing)
    <2>1. UNCHANGED <<cmd, answer>>
      BY <1>1, <1>2, <1>7
    <2>2. TrafficInv'
      BY <1>1, <2>1 DEF FindInv, TrafficInv, Searching
    <2>3. ListInv'
      BY <1>1, <1>2, <1>3, <1>4, <1>7, <2>1 DEF ListInv, Searching
    <2>4. DiscoveryExact'
      BY <2>1 DEF FindInv, DiscoveryExact, Ended
    <2> QED BY <1>5, <2>2, <2>3, <2>4 DEF FindInv
  <1> QED BY <1>6, <1>7

(* A discovery lists exactly the devices that answered it before the deadline, each *)
(* once and as it described itself, however often and late frames arrive; a         *)
(* resolution returns a device that answered and has the name, and gives up only if *)
(* no such answer came.                                                             *)
THEOREM DiscoveriesAreExact == DcpSpec => []DiscoveryExact
  <1>1. DcpInv /\ FindInv /\ [DcpNext]_dcpVars => FindInv'
    <2> SUFFICES ASSUME DcpInv, FindInv, [DcpNext]_dcpVars PROVE FindInv'
      OBVIOUS
    <2>1. CASE UNCHANGED dcpVars
      <3>1. UNCHANGED <<cmd, answer, devices, heard, net, name>>
        BY <2>1 DEF dcpVars
      <3>2. TrafficInv'
        BY <3>1 DEF FindInv, TrafficInv, Searching
      <3> QED BY <3>1, <3>2, SegmentRests, SearchGoesOn DEF FindInv
    <2> QED
      BY <2>1, CommandsFind, OtherControllerFinds, AlarmFinds, DevicesFind, OtherCommandsFind,
         SearchFinds, DeadlineFinds DEF DcpNext
  <1>2. FindInv => DiscoveryExact
    BY DEF FindInv
  <1> QED BY <1>1, <1>2, FindInitInv, DcpInvariant, PTL DEF DcpSpec

-----------------------------------------------------------------------------
(* The receive statistics (RxStats) *)

(* The fields of CyclicStats that intervals are measured with. *)
Timing == {"last_receive_time", "last_accepted_time", "interval_disturbed", "rx_interval_count",
           "max_rx_jitter", "max_rx_interval"}

(* What the log says, for any log. *)
IntervalsOf(l) ==
    {p \in (DOMAIN l) \X (DOMAIN l) :
       /\ p[1] < p[2] /\ l[p[1]].valid /\ l[p[2]].valid
       /\ \A m \in p[1] + 1 .. p[2] - 1 : ~l[m].valid}
SteadyOf(l) == {p \in IntervalsOf(l) : p[2] = p[1] + 1}
LengthOf(l, p) == l[p[2]].at - l[p[1]].at
Lengths(l) == {0} \cup {LengthOf(l, p) : p \in IntervalsOf(l)}
Jitters(l) == {0} \cup {abs_diff(LengthOf(l, p), Cycle) : p \in SteadyOf(l)}

Events(F) == [frame : F, valid : BOOLEAN, at : Nat]
IsTop(m, S) == m \in S /\ \A x \in S : x <= m

(* The last accepted frame, and nothing but disturbances after it. *)
LastAccepted(l, v) == v \in DOMAIN l /\ l[v].valid /\ \A m \in v + 1 .. Len(l) : ~l[m].valid

(* The interval under way starts at the last accepted frame and is disturbed as     *)
(* soon as anything follows it.                                                     *)
CurrentInv(s, l) ==
    /\ Timing \subseteq DOMAIN s /\ s.interval_disturbed \in BOOLEAN
    /\ \/ s.last_accepted_time = Never /\ \A i \in DOMAIN l : ~l[i].valid
       \/ \E v \in DOMAIN l : /\ LastAccepted(l, v) /\ s.last_accepted_time = l[v].at
                              /\ s.interval_disturbed <=> v # Len(l)

(* The statistics of the intervals that are over. *)
MeasuredInv(s, l) ==
    /\ IsFiniteSet(SteadyOf(l)) /\ s.rx_interval_count = Cardinality(SteadyOf(l))
    /\ IsTop(s.max_rx_jitter, Jitters(l)) /\ IsTop(s.max_rx_interval, Lengths(l))

StatsInv ==
    /\ now \in Nat /\ stats.last_receive_time \in Nat
    /\ \E F : log \in Seq(Events(F))
    /\ CurrentInv(stats, log) /\ MeasuredInv(stats, log)

(* Two statistics agree on everything about intervals. *)
SameTiming(r, s) ==
    /\ DOMAIN r = DOMAIN s /\ r.last_receive_time = s.last_receive_time
    /\ r.last_accepted_time = s.last_accepted_time /\ r.interval_disturbed = s.interval_disturbed
    /\ r.rx_interval_count = s.rx_interval_count /\ r.max_rx_jitter = s.max_rx_jitter
    /\ r.max_rx_interval = s.max_rx_interval

(* The cycle counter has no part in it. *)
LEMMA TrackKeepsTiming ==
    ASSUME NEW s, NEW prev, NEW rx, NEW r, r = track_cycle_counter(s, prev, rx), Timing \subseteq DOMAIN s
    PROVE  SameTiming(r, s)
  <1>1. \/ r = s
        \/ r = [s EXCEPT !.frames_duplicate = @ + 1]
        \/ r = [s EXCEPT !.frames_out_of_order = @ + 1]
        \/ \E x : r = [s EXCEPT !.frames_missed = x]
    BY DEF track_cycle_counter
  <1> QED BY <1>1 DEF SameTiming, Timing

(* What accepting a frame at time t makes of the statistics. *)
Measured(s, t, r) ==
    /\ r.interval_disturbed = FALSE
    /\ DOMAIN r = DOMAIN s /\ r.last_accepted_time = t /\ r.last_receive_time = t
    /\ s.last_accepted_time = Never =>
         /\ r.rx_interval_count = s.rx_interval_count /\ r.max_rx_jitter = s.max_rx_jitter
         /\ r.max_rx_interval = s.max_rx_interval
    /\ s.last_accepted_time # Never =>
         r.max_rx_interval = larger(s.max_rx_interval, t - s.last_accepted_time)
    /\ s.last_accepted_time # Never /\ s.interval_disturbed =>
         r.rx_interval_count = s.rx_interval_count /\ r.max_rx_jitter = s.max_rx_jitter
    /\ s.last_accepted_time # Never /\ ~s.interval_disturbed =>
         /\ r.rx_interval_count = s.rx_interval_count + 1
         /\ r.max_rx_jitter = larger(s.max_rx_jitter, abs_diff(t - s.last_accepted_time, Cycle))

LEMMA AcceptMeasures ==
    ASSUME NEW s, NEW t, NEW r, r = accept(s, t), Timing \subseteq DOMAIN s,
           s.interval_disturbed \in BOOLEAN
    PROVE  Measured(s, t, r)
  <1>1. PICK interval : interval = t - s.last_accepted_time
    OBVIOUS
  <1>2. PICK top, jit : /\ top = larger(s.max_rx_interval, interval)
                        /\ jit = larger(s.max_rx_jitter, abs_diff(interval, Cycle))
    OBVIOUS
  <1>3. PICK m, st : /\ m = [s EXCEPT !.max_rx_interval = top]
                     /\ st = [m EXCEPT !.max_rx_jitter = jit, !.rx_interval_count = @ + 1]
    OBVIOUS
  <1>4. /\ DOMAIN m = DOMAIN s /\ m.max_rx_interval = top /\ m.max_rx_jitter = s.max_rx_jitter
        /\ m.rx_interval_count = s.rx_interval_count
    BY <1>3 DEF Timing
  <1>5. /\ DOMAIN st = DOMAIN s /\ st.max_rx_interval = top /\ st.max_rx_jitter = jit
        /\ st.rx_interval_count = s.rx_interval_count + 1
    BY <1>3, <1>4 DEF Timing
  <1>6. PICK b : /\ s.last_accepted_time = Never => b = s
                 /\ s.last_accepted_time # Never /\ s.interval_disturbed => b = m
                 /\ s.last_accepted_time # Never /\ ~s.interval_disturbed => b = st
                 /\ r = [b EXCEPT !.last_accepted_time = t, !.last_receive_time = t,
                                  !.interval_disturbed = FALSE]
    <2>1. [s EXCEPT !.max_rx_interval = larger(@, interval)] = m
      BY <1>2, <1>3 DEF Timing
    <2>2. [m EXCEPT !.max_rx_jitter = larger(@, abs_diff(interval, Cycle)),
                    !.rx_interval_count = @ + 1] = st
      BY <1>2, <1>3, <1>4 DEF Timing
    <2>3. r = [(CASE s.last_accepted_time = Never -> s
                  [] s.last_accepted_time # Never /\ s.interval_disturbed -> m
                  [] s.last_accepted_time # Never /\ ~s.interval_disturbed -> st)
                EXCEPT !.last_accepted_time = t, !.last_receive_time = t, !.interval_disturbed = FALSE]
      BY <1>1, <2>1, <2>2 DEF accept
    <2> QED BY <2>3
  <1>7. DOMAIN b = DOMAIN s
    BY <1>4, <1>5, <1>6
  <1>8. /\ DOMAIN r = DOMAIN s /\ r.last_accepted_time = t /\ r.last_receive_time = t
        /\ r.max_rx_interval = b.max_rx_interval /\ r.max_rx_jitter = b.max_rx_jitter
        /\ r.rx_interval_count = b.rx_interval_count
    BY <1>6, <1>7 DEF Timing
  <1>9. r.interval_disturbed = FALSE
    BY <1>6, <1>7 DEF Timing
  <1> QED BY <1>1, <1>2, <1>4, <1>5, <1>6, <1>8, <1>9 DEF Measured

-----------------------------------------------------------------------------
(* One more event in the log *)

LEMMA Extended ==
    ASSUME NEW E, NEW l \in Seq(E), NEW e, NEW l2, l2 = Append(l, e), NEW n, n = Len(l) + 1
    PROVE  /\ n \in Nat /\ n > 0 /\ Len(l) \in Nat /\ Len(l) = n - 1 /\ Len(l2) = n
           /\ DOMAIN l = 1..n - 1 /\ DOMAIN l2 = 1..n
           /\ \A i \in DOMAIN l : l2[i] = l[i] /\ i \in DOMAIN l2 /\ i < n
           /\ l2[n] = e
  OBVIOUS

LEMMA OldIntervals ==
    ASSUME NEW E, NEW l \in Seq(E), NEW e, NEW l2, l2 = Append(l, e), NEW i \in DOMAIN l, NEW j \in DOMAIN l
    PROVE  <<i, j>> \in IntervalsOf(l2) <=> <<i, j>> \in IntervalsOf(l)
  <1>1. PICK n : n = Len(l) + 1
    OBVIOUS
  <1>2. /\ i \in DOMAIN l2 /\ j \in DOMAIN l2 /\ l2[i] = l[i] /\ l2[j] = l[j]
    BY <1>1, Extended
  <1>3. \A m \in i + 1 .. j - 1 : m \in DOMAIN l /\ l2[m] = l[m]
    BY <1>1, Extended
  <1> QED BY <1>2, <1>3 DEF IntervalsOf

LEMMA NewInterval ==
    ASSUME NEW F, NEW l \in Seq(Events(F)), NEW e \in Events(F), NEW l2, l2 = Append(l, e),
           NEW n, n = Len(l) + 1
    PROVE  /\ \A i : <<i, n>> \in IntervalsOf(l2) <=> e.valid /\ LastAccepted(l, i)
           /\ \A j : <<n, j>> \notin IntervalsOf(l2)
  <1>1. /\ n \in Nat /\ n > 0 /\ Len(l) = n - 1 /\ Len(l2) = n
        /\ DOMAIN l = 1..n - 1 /\ DOMAIN l2 = 1..n
        /\ \A i \in DOMAIN l : l2[i] = l[i] /\ i \in DOMAIN l2 /\ i < n
        /\ l2[n] = e
    BY Extended
  <1>2. ASSUME NEW i, <<i, n>> \in IntervalsOf(l2) PROVE e.valid /\ LastAccepted(l, i)
    <2>1. /\ i \in DOMAIN l2 /\ i < n /\ l2[i].valid /\ l2[n].valid
          /\ \A m \in i + 1 .. n - 1 : ~l2[m].valid
      BY <1>2 DEF IntervalsOf
    <2>2. i \in DOMAIN l /\ \A m \in i + 1 .. n - 1 : m \in DOMAIN l
      BY <1>1, <2>1
    <2> QED BY <1>1, <2>1, <2>2 DEF LastAccepted
  <1>3. ASSUME NEW i, e.valid, LastAccepted(l, i) PROVE <<i, n>> \in IntervalsOf(l2)
    <2>1. i \in DOMAIN l /\ l[i].valid /\ \A m \in i + 1 .. n - 1 : ~l[m].valid
      BY <1>1, <1>3 DEF LastAccepted
    <2>2. /\ i \in DOMAIN l2 /\ n \in DOMAIN l2 /\ i < n /\ l2[i].valid /\ l2[n].valid
          /\ \A m \in i + 1 .. n - 1 : m \in DOMAIN l
      BY <1>1, <1>3, <2>1
    <2>3. \A m \in i + 1 .. n - 1 : ~l2[m].valid
      BY <1>1, <2>1, <2>2
    <2> QED BY <2>2, <2>3 DEF IntervalsOf
  <1>4. \A j : <<n, j>> \notin IntervalsOf(l2)
    BY <1>1 DEF IntervalsOf
  <1> QED BY <1>2, <1>3, <1>4

LEMMA LastIsUnique ==
    ASSUME NEW F, NEW l \in Seq(Events(F)), NEW v, NEW w, LastAccepted(l, v), LastAccepted(l, w)
    PROVE  v = w
  <1>1. Len(l) \in Nat /\ DOMAIN l = 1..Len(l)
    OBVIOUS
  <1>2. v \in 1..Len(l) /\ w \in 1..Len(l) /\ l[v].valid /\ l[w].valid
    BY <1>1 DEF LastAccepted
  <1>3. ~(v < w)
    BY <1>1, <1>2 DEF LastAccepted
  <1>4. ~(w < v)
    BY <1>1, <1>2 DEF LastAccepted
  <1> QED BY <1>2, <1>3, <1>4

(* The interval that one more event ends. *)
Ends(l, e, p) == \E v : e.valid /\ LastAccepted(l, v) /\ p = <<v, Len(l) + 1>>

(* The intervals of a longer log: the same, and the one that the event ends. *)
LEMMA IntervalsGrow ==
    ASSUME NEW F, NEW l \in Seq(Events(F)), NEW e \in Events(F), NEW l2, l2 = Append(l, e)
    PROVE  \A p : p \in IntervalsOf(l2) <=> p \in IntervalsOf(l) \/ Ends(l, e, p)
  <1>. PICK n : n = Len(l) + 1
    OBVIOUS
  <1>1. /\ n = Len(l2) /\ n \in Nat /\ n > 0 /\ DOMAIN l = 1..n - 1 /\ DOMAIN l2 = 1..n
    BY Extended
  <1>0. /\ \A i : <<i, n>> \in IntervalsOf(l2) <=> e.valid /\ LastAccepted(l, i)
        /\ \A j : <<n, j>> \notin IntervalsOf(l2)
    BY NewInterval
  <1>2. ASSUME NEW p \in IntervalsOf(l2)
        PROVE  p \in IntervalsOf(l) \/ Ends(l, e, p)
    <2>1. PICK i \in DOMAIN l2, j \in DOMAIN l2 : p = <<i, j>>
      BY DEF IntervalsOf
    <2>2. CASE i = n
      BY <1>0, <1>2, <2>1, <2>2
    <2>3. CASE j = n
      BY <1>0, <1>2, <2>1, <2>3 DEF Ends
    <2>4. CASE i # n /\ j # n
      <3>1. i \in DOMAIN l /\ j \in DOMAIN l
        BY <1>1, <2>4
      <3> QED BY <1>2, <2>1, <3>1, OldIntervals
    <2> QED BY <2>2, <2>3, <2>4
  <1>3. ASSUME NEW p \in IntervalsOf(l) PROVE p \in IntervalsOf(l2)
    <2>1. PICK i \in DOMAIN l, j \in DOMAIN l : p = <<i, j>>
      BY DEF IntervalsOf
    <2> QED BY <1>3, <2>1, OldIntervals
  <1>4. ASSUME NEW v, e.valid, LastAccepted(l, v) PROVE <<v, n>> \in IntervalsOf(l2)
    BY <1>0, <1>4
  <1> QED BY <1>1, <1>2, <1>3, <1>4 DEF Ends

(* Lengths of what is over do not change. *)
LEMMA LengthsKept ==
    ASSUME NEW F, NEW l \in Seq(Events(F)), NEW e, NEW l2, l2 = Append(l, e), NEW p \in IntervalsOf(l)
    PROVE  LengthOf(l2, p) = LengthOf(l, p) /\ LengthOf(l, p) \in Int
  <1>1. PICK i \in DOMAIN l, j \in DOMAIN l : p = <<i, j>>
    BY DEF IntervalsOf
  <1>2. l2[i] = l[i] /\ l2[j] = l[j] /\ l[i] \in Events(F) /\ l[j] \in Events(F)
    <2>1. PICK n : n = Len(l) + 1
      OBVIOUS
    <2> QED BY <2>1, Extended
  <1> QED BY <1>1, <1>2 DEF LengthOf, Events

(* The maximum of a set with one more element. *)
LEMMA TopGrows ==
    ASSUME NEW S, S \subseteq Int, NEW m, IsTop(m, S), NEW x \in Int, NEW T, T = S \cup {x}
    PROVE  IsTop(larger(m, x), T)
  BY DEF IsTop, larger

LEMMA MaxIsTop == ASSUME NEW S, S \subseteq Int, NEW m, IsTop(m, S) PROVE Max(S) = m
  <1>1. \E x \in S : \A y \in S : x >= y
    BY DEF IsTop
  <1>2. Max(S) \in S /\ \A y \in S : Max(S) >= y
    BY <1>1 DEF Max
  <1>3. PICK x \in Int : x = Max(S) /\ x \in S /\ \A y \in S : x >= y
    BY <1>2
  <1>4. m \in Int /\ m <= x /\ x <= m
    BY <1>3 DEF IsTop
  <1> QED BY <1>3, <1>4

LEMMA SetsAreIntegers ==
    ASSUME NEW F, NEW l \in Seq(Events(F)) PROVE Lengths(l) \subseteq Int /\ Jitters(l) \subseteq Int
  <1>1. Cycle \in Nat /\ 0 \in Int
    BY RxAssumption
  <1>2. \A p \in IntervalsOf(l) : LengthOf(l, p) \in Int
    <2>1. PICK l2 : l2 = Append(l, 0)
      OBVIOUS
    <2> QED BY <2>1, LengthsKept
  <1>3. \A x \in Int : abs_diff(x, Cycle) \in Int
    BY <1>1 DEF abs_diff
  <1> QED BY <1>1, <1>2, <1>3 DEF Lengths, Jitters, SteadyOf

(* The event ends no interval: nothing that was measured changes. *)
LEMMA NothingMeasured ==
    ASSUME NEW F, NEW l \in Seq(Events(F)), NEW e \in Events(F), NEW l2, l2 = Append(l, e),
           e.valid => \A v : ~LastAccepted(l, v)
    PROVE  SteadyOf(l2) = SteadyOf(l) /\ Lengths(l2) = Lengths(l) /\ Jitters(l2) = Jitters(l)
  <1>2. \A p : p \in IntervalsOf(l2) <=> p \in IntervalsOf(l) \/ Ends(l, e, p)
    BY IntervalsGrow
  <1>3. IntervalsOf(l2) = IntervalsOf(l)
    BY <1>2 DEF Ends
  <1>4. SteadyOf(l2) = SteadyOf(l)
    BY <1>3 DEF SteadyOf
  <1>5. \A p \in IntervalsOf(l) : LengthOf(l2, p) = LengthOf(l, p)
    BY LengthsKept
  <1>6. Lengths(l2) = Lengths(l)
    BY <1>3, <1>5 DEF Lengths
  <1>7. Jitters(l2) = Jitters(l)
    BY <1>4, <1>5 DEF Jitters, SteadyOf
  <1> QED BY <1>4, <1>6, <1>7

(* One more interval q of length x, since frame v; steady if v was the last event. *)
OneMore(l, l2, v, q, x) ==
    /\ x \in Int /\ Lengths(l2) = Lengths(l) \cup {x}
    /\ v = Len(l) => /\ SteadyOf(l2) = SteadyOf(l) \cup {q} /\ q \notin SteadyOf(l)
                     /\ Jitters(l2) = Jitters(l) \cup {abs_diff(x, Cycle)}
    /\ v # Len(l) => SteadyOf(l2) = SteadyOf(l) /\ Jitters(l2) = Jitters(l)

(* The event ends the interval since frame v. *)
LEMMA OneMeasured ==
    ASSUME NEW F, NEW l \in Seq(Events(F)), NEW e \in Events(F), NEW l2, l2 = Append(l, e),
           e.valid, NEW v, LastAccepted(l, v), NEW q, q = <<v, Len(l) + 1>>,
           NEW x, x = e.at - l[v].at
    PROVE  OneMore(l, l2, v, q, x)
  <1>1. \A p : p \in IntervalsOf(l2) <=> p \in IntervalsOf(l) \/ Ends(l, e, p)
    BY IntervalsGrow
  <1>2. v \in DOMAIN l
    BY DEF LastAccepted
  <1>3. \A w : LastAccepted(l, w) <=> w = v
    BY LastIsUnique
  <1>. PICK n : n = Len(l) + 1
    OBVIOUS
  <1>4. q[1] = v /\ q[2] = n
    BY Extended
  <1>5. IntervalsOf(l2) = IntervalsOf(l) \cup {q}
    BY <1>1, <1>3 DEF Ends
  <1>6. /\ n \in Nat /\ Len(l) = n - 1 /\ DOMAIN l = 1..n - 1 /\ l2[n] = e /\ l2[v] = l[v] /\ v \in 1..n - 1
        /\ l[v] \in Events(F)
    BY <1>2, Extended
  <1>7. LengthOf(l2, q) = x /\ x \in Int
    <2>1. e.at \in Nat /\ l[v].at \in Nat
      BY <1>6 DEF Events
    <2> QED BY <1>4, <1>6, <2>1 DEF LengthOf
  <1>8. \A p \in IntervalsOf(l) : LengthOf(l2, p) = LengthOf(l, p)
    BY LengthsKept
  <1>9. Lengths(l2) = Lengths(l) \cup {x}
    <2>1. {LengthOf(l2, p) : p \in IntervalsOf(l2)} = {LengthOf(l, p) : p \in IntervalsOf(l)} \cup {x}
      <3>1. \A y : y \in {LengthOf(l2, p) : p \in IntervalsOf(l2)} <=> \E p \in IntervalsOf(l2) : y = LengthOf(l2, p)
        OBVIOUS
      <3>2. \A y : y \in {LengthOf(l, p) : p \in IntervalsOf(l)} <=> \E p \in IntervalsOf(l) : y = LengthOf(l, p)
        OBVIOUS
      <3>3. \A y : (\E p \in IntervalsOf(l2) : y = LengthOf(l2, p)) <=>
                   (\E p \in IntervalsOf(l) : y = LengthOf(l, p)) \/ y = x
        BY <1>5, <1>7, <1>8
      <3> QED BY <3>1, <3>2, <3>3
    <2> QED BY <2>1 DEF Lengths
  <1>10. v = Len(l) <=> q[2] = q[1] + 1
    <2>1. v \in Int /\ n \in Int
      BY <1>6
    <2>2. v = n - 1 <=> n = v + 1
      BY <2>1
    <2> QED BY <1>4, <1>6, <2>2
  <1>11. CASE v = Len(l)
    <2>1. SteadyOf(l2) = SteadyOf(l) \cup {q}
      BY <1>5, <1>10, <1>11 DEF SteadyOf
    <2>2. q \notin SteadyOf(l)
      <3>1. n \notin DOMAIN l
        BY <1>6
      <3>2. q \notin IntervalsOf(l)
        BY <1>4, <3>1 DEF IntervalsOf
      <3> QED BY <3>2 DEF SteadyOf
    <2>3. \A p \in SteadyOf(l) : LengthOf(l2, p) = LengthOf(l, p)
      BY <1>8 DEF SteadyOf
    <2>4. Jitters(l2) = Jitters(l) \cup {abs_diff(x, Cycle)}
      BY <1>7, <2>1, <2>3 DEF Jitters
    <2> QED BY <1>4, <1>7, <1>9, <1>11, <2>1, <2>2, <2>4 DEF OneMore
  <1>12. CASE v # Len(l)
    <2>1. SteadyOf(l2) = SteadyOf(l)
      BY <1>5, <1>10, <1>12 DEF SteadyOf
    <2>2. Jitters(l2) = Jitters(l)
      BY <1>8, <2>1 DEF Jitters, SteadyOf
    <2> QED BY <1>7, <1>9, <1>12, <2>1, <2>2 DEF OneMore
  <1> QED BY <1>11, <1>12

-----------------------------------------------------------------------------
(* Nothing is measured; the interval under way is not steady. *)
Disturbs(s, r) ==
    /\ DOMAIN r = DOMAIN s /\ r.last_accepted_time = s.last_accepted_time
    /\ r.interval_disturbed = TRUE
    /\ r.rx_interval_count = s.rx_interval_count /\ r.max_rx_jitter = s.max_rx_jitter
    /\ r.max_rx_interval = s.max_rx_interval

(* An invalid frame or a timeout disturbs the interval and measures nothing. *)
LEMMA DisturbInv ==
    ASSUME NEW F, NEW l \in Seq(Events(F)), NEW e \in Events(F), ~e.valid, NEW l2, l2 = Append(l, e),
           NEW s, NEW r, CurrentInv(s, l), MeasuredInv(s, l), Disturbs(s, r)
    PROVE  CurrentInv(r, l2) /\ MeasuredInv(r, l2)
  <1>1. MeasuredInv(r, l2)
    BY NothingMeasured DEF MeasuredInv, Disturbs
  <1>2. PICK n : n = Len(l) + 1
    OBVIOUS
  <1>3. /\ n \in Nat /\ n > 0 /\ Len(l) = n - 1 /\ Len(l2) = n /\ DOMAIN l = 1..n - 1 /\ DOMAIN l2 = 1..n
        /\ \A i \in DOMAIN l : l2[i] = l[i] /\ i \in DOMAIN l2 /\ i < n
        /\ l2[n] = e
    BY <1>2, Extended
  <1>4. \A i \in DOMAIN l2 : i \in DOMAIN l \/ i = n
    BY <1>3
  <1>5. CASE s.last_accepted_time = Never /\ \A i \in DOMAIN l : ~l[i].valid
    <2>1. \A i \in DOMAIN l2 : ~l2[i].valid
      BY <1>3, <1>4, <1>5
    <2> QED BY <1>1, <1>5, <2>1 DEF CurrentInv, Disturbs
  <1>6. ASSUME NEW v \in DOMAIN l, LastAccepted(l, v), s.last_accepted_time = l[v].at
        PROVE  CurrentInv(r, l2)
    <2>1. \A m \in v + 1 .. n : m \in DOMAIN l2 /\ (m = n \/ m \in v + 1 .. Len(l))
      BY <1>3
    <2>2. \A m \in v + 1 .. n : ~l2[m].valid
      BY <1>3, <1>4, <1>6, <2>1 DEF LastAccepted
    <2>3. LastAccepted(l2, v)
      BY <1>3, <1>6, <2>2 DEF LastAccepted
    <2>4. v \in DOMAIN l2 /\ l2[v].at = l[v].at /\ v # Len(l2)
      BY <1>3
    <2> QED BY <1>6, <2>3, <2>4 DEF CurrentInv, Disturbs
  <1> QED BY <1>1, <1>5, <1>6 DEF CurrentInv, Disturbs

(* A valid frame ends the interval and starts the next. *)
LEMMA AcceptInv ==
    ASSUME NEW F, NEW l \in Seq(Events(F)), NEW e \in Events(F), e.valid, NEW l2, l2 = Append(l, e),
           NEW s, NEW r, NEW t, t = e.at, CurrentInv(s, l), MeasuredInv(s, l), r = accept(s, t)
    PROVE  CurrentInv(r, l2) /\ MeasuredInv(r, l2)
  <1>1. PICK n : n = Len(l) + 1
    OBVIOUS
  <1>2. /\ n \in Nat /\ n > 0 /\ Len(l) = n - 1 /\ Len(l2) = n /\ DOMAIN l = 1..n - 1 /\ DOMAIN l2 = 1..n
        /\ l2[n] = e
    BY <1>1, Extended
  <1>3. Timing \subseteq DOMAIN s /\ s.interval_disturbed \in BOOLEAN
    BY DEF CurrentInv
  <1>4. Measured(s, t, r)
    BY <1>3, AcceptMeasures
  <1>5. CurrentInv(r, l2)
    <2>1. LastAccepted(l2, n) /\ n \in DOMAIN l2
      BY <1>2 DEF LastAccepted
    <2> QED BY <1>2, <1>3, <1>4, <2>1 DEF CurrentInv, Measured
  <1>6. /\ IsFiniteSet(SteadyOf(l)) /\ s.rx_interval_count = Cardinality(SteadyOf(l))
        /\ IsTop(s.max_rx_jitter, Jitters(l)) /\ IsTop(s.max_rx_interval, Lengths(l))
        /\ Lengths(l) \subseteq Int /\ Jitters(l) \subseteq Int
    BY SetsAreIntegers DEF MeasuredInv
  <1>7. CASE s.last_accepted_time = Never /\ \A i \in DOMAIN l : ~l[i].valid
    <2>1. \A v : ~LastAccepted(l, v)
      BY <1>7 DEF LastAccepted
    <2>2. /\ r.rx_interval_count = s.rx_interval_count /\ r.max_rx_jitter = s.max_rx_jitter
          /\ r.max_rx_interval = s.max_rx_interval
      BY <1>4, <1>7 DEF Measured
    <2>3. SteadyOf(l2) = SteadyOf(l) /\ Lengths(l2) = Lengths(l) /\ Jitters(l2) = Jitters(l)
      BY <2>1, NothingMeasured
    <2> QED BY <1>5, <1>6, <2>2, <2>3 DEF MeasuredInv
  <1>8. ASSUME NEW v \in DOMAIN l, LastAccepted(l, v), s.last_accepted_time = l[v].at,
               s.interval_disturbed <=> v # Len(l)
        PROVE  MeasuredInv(r, l2)
    <2>1. s.last_accepted_time # Never
      <3>1. l[v] \in Events(F)
        OBVIOUS
      <3> QED BY <1>8, <3>1 DEF Events, Never
    <2>2. PICK x, q : x = e.at - l[v].at /\ q = <<v, Len(l) + 1>>
      OBVIOUS
    <2>3. OneMore(l, l2, v, q, x)
      BY <1>8, <2>2, OneMeasured
    <2>4. r.max_rx_interval = larger(s.max_rx_interval, x)
      BY <1>4, <1>8, <2>1, <2>2 DEF Measured
    <2>5. IsTop(r.max_rx_interval, Lengths(l2))
      BY <1>6, <2>3, <2>4, TopGrows DEF OneMore
    <2>6. CASE v = Len(l)
      <3>1. /\ r.rx_interval_count = s.rx_interval_count + 1
            /\ r.max_rx_jitter = larger(s.max_rx_jitter, abs_diff(x, Cycle))
        BY <1>4, <1>8, <2>1, <2>2, <2>6 DEF Measured
      <3>2. IsFiniteSet(SteadyOf(l2)) /\ Cardinality(SteadyOf(l2)) = Cardinality(SteadyOf(l)) + 1
        BY <1>6, <2>3, <2>6, FS_AddElement DEF OneMore
      <3>3. abs_diff(x, Cycle) \in Int
        BY <2>3, RxAssumption DEF abs_diff, OneMore
      <3>4. IsTop(r.max_rx_jitter, Jitters(l2))
        BY <1>6, <2>3, <2>6, <3>1, <3>3, TopGrows DEF OneMore
      <3> QED BY <1>6, <2>5, <3>1, <3>2, <3>4 DEF MeasuredInv
    <2>7. CASE v # Len(l)
      <3>1. r.rx_interval_count = s.rx_interval_count /\ r.max_rx_jitter = s.max_rx_jitter
        BY <1>4, <1>8, <2>1, <2>7 DEF Measured
      <3> QED BY <1>6, <2>3, <2>5, <2>7, <3>1 DEF MeasuredInv, OneMore
    <2> QED BY <2>6, <2>7
  <1>9. MeasuredInv(r, l2)
    BY <1>7, <1>8 DEF CurrentInv
  <1> QED BY <1>5, <1>9

-----------------------------------------------------------------------------
(* Frames come from anywhere: the log is a sequence of events of ever more of them. *)
LEMMA Widen ==
    ASSUME NEW F, NEW G, F \subseteq G, NEW l \in Seq(Events(F)) PROVE l \in Seq(Events(G))
  <1>1. Events(F) \subseteq Events(G)
    BY DEF Events
  <1> QED BY <1>1

LEMMA SameTimingInv ==
    ASSUME NEW s, NEW r, SameTiming(r, s), NEW l, CurrentInv(s, l), MeasuredInv(s, l)
    PROVE  CurrentInv(r, l) /\ MeasuredInv(r, l)
  BY DEF SameTiming, CurrentInv, MeasuredInv

(* process_input_frame on the statistics, for the frame of event e *)
FrameStep(s, e, r) ==
    \E counted, timed, tracked, prev, rx :
      /\ counted = [s EXCEPT !.frames_received = @ + 1]
      /\ timed = IF e.valid THEN accept(counted, e.at)
                 ELSE [counted EXCEPT !.interval_disturbed = TRUE]
      /\ tracked = track_cycle_counter(timed, prev, rx)
      /\ r = IF e.valid THEN tracked ELSE [tracked EXCEPT !.frames_invalid = @ + 1]

LEMMA FrameInv ==
    ASSUME NEW F, NEW l \in Seq(Events(F)), NEW e \in Events(F), NEW l2, l2 = Append(l, e),
           NEW s, NEW r, CurrentInv(s, l), MeasuredInv(s, l), s.last_receive_time \in Nat,
           FrameStep(s, e, r)
    PROVE  CurrentInv(r, l2) /\ MeasuredInv(r, l2) /\ r.last_receive_time \in Nat
  <1>0. PICK counted, timed, tracked, prev, rx :
         /\ counted = [s EXCEPT !.frames_received = @ + 1]
         /\ timed = IF e.valid THEN accept(counted, e.at)
                    ELSE [counted EXCEPT !.interval_disturbed = TRUE]
         /\ tracked = track_cycle_counter(timed, prev, rx)
         /\ r = IF e.valid THEN tracked ELSE [tracked EXCEPT !.frames_invalid = @ + 1]
    BY DEF FrameStep
  <1>1. Timing \subseteq DOMAIN s
    BY DEF CurrentInv
  <1>2. SameTiming(counted, s)
    BY <1>0, <1>1 DEF SameTiming, Timing
  <1>3. CurrentInv(counted, l) /\ MeasuredInv(counted, l) /\ counted.last_receive_time \in Nat
    <2>1. CurrentInv(counted, l) /\ MeasuredInv(counted, l)
      BY <1>2, SameTimingInv
    <2> QED BY <1>2, <2>1 DEF SameTiming
  <1>4. Timing \subseteq DOMAIN counted /\ counted.interval_disturbed \in BOOLEAN
    BY <1>3 DEF CurrentInv
  <1>5. /\ CurrentInv(timed, l2) /\ MeasuredInv(timed, l2)
        /\ timed.last_receive_time \in Nat
    <2>1. CASE e.valid
      <3>1. PICK t : t = e.at
        OBVIOUS
      <3>2. timed = accept(counted, t) /\ t \in Nat
        BY <1>0, <2>1, <3>1 DEF Events
      <3>3. CurrentInv(timed, l2) /\ MeasuredInv(timed, l2)
        BY <1>3, <2>1, <3>1, <3>2, AcceptInv
      <3>4. Measured(counted, t, timed)
        BY <1>4, <3>2, AcceptMeasures
      <3> QED BY <3>2, <3>3, <3>4 DEF Measured
    <2>2. CASE ~e.valid
      <3>1. /\ DOMAIN timed = DOMAIN counted
            /\ timed.last_accepted_time = counted.last_accepted_time
            /\ timed.rx_interval_count = counted.rx_interval_count
            /\ timed.max_rx_jitter = counted.max_rx_jitter
            /\ timed.max_rx_interval = counted.max_rx_interval
            /\ timed.last_receive_time = counted.last_receive_time
        BY <1>0, <1>4, <2>2 DEF Timing
      <3>2. timed.interval_disturbed = TRUE
        BY <1>0, <1>4, <2>2 DEF Timing
      <3>3. Disturbs(counted, timed)
        BY <3>1, <3>2 DEF Disturbs
      <3>4. CurrentInv(timed, l2) /\ MeasuredInv(timed, l2)
        BY <1>3, <2>2, <3>3, DisturbInv
      <3> QED BY <1>3, <3>1, <3>4
    <2> QED BY <2>1, <2>2
  <1>6. Timing \subseteq DOMAIN timed
    BY <1>5 DEF CurrentInv
  <1>7. SameTiming(tracked, timed)
    BY <1>0, <1>6, TrackKeepsTiming
  <1>8. SameTiming(r, timed)
    <2>1. CASE e.valid
      BY <1>0, <1>7, <2>1
    <2>2. CASE ~e.valid
      <3>1. r = [tracked EXCEPT !.frames_invalid = @ + 1] /\ Timing \subseteq DOMAIN tracked
        BY <1>0, <1>6, <1>7, <2>2 DEF SameTiming
      <3>2. SameTiming(r, tracked)
        BY <3>1 DEF SameTiming, Timing
      <3> QED BY <1>7, <3>2 DEF SameTiming
    <2> QED BY <2>1, <2>2
  <1>9. CurrentInv(r, l2) /\ MeasuredInv(r, l2)
    BY <1>5, <1>8, SameTimingInv
  <1> QED BY <1>5, <1>8, <1>9 DEF SameTiming

(* check_receive_watchdog on the statistics, at time t *)
WatchdogStep(s, t, r) == r = [handle_watchdog_timeout(s) EXCEPT !.last_receive_time = t]

LEMMA WatchdogInv ==
    ASSUME NEW F, NEW l \in Seq(Events(F)), NEW e \in Events(F), ~e.valid, NEW l2, l2 = Append(l, e),
           NEW s, NEW r, CurrentInv(s, l), MeasuredInv(s, l), NEW t \in Nat,
           WatchdogStep(s, t, r)
    PROVE  CurrentInv(r, l2) /\ MeasuredInv(r, l2) /\ r.last_receive_time \in Nat
  <1>1. Timing \subseteq DOMAIN s
    BY DEF CurrentInv
  <1>2. PICK h : h = handle_watchdog_timeout(s)
    OBVIOUS
  <1>3. h = [s EXCEPT !.frames_missed = @ + 1, !.interval_disturbed = TRUE]
    BY <1>2 DEF handle_watchdog_timeout
  <1>4. /\ DOMAIN h = DOMAIN s /\ h.last_accepted_time = s.last_accepted_time
        /\ h.rx_interval_count = s.rx_interval_count
        /\ h.max_rx_jitter = s.max_rx_jitter /\ h.max_rx_interval = s.max_rx_interval
    BY <1>1, <1>3 DEF Timing
  <1>5. h.interval_disturbed = TRUE
    BY <1>1, <1>3 DEF Timing
  <1>6. r = [h EXCEPT !.last_receive_time = t]
    BY <1>2 DEF WatchdogStep
  <1>7. /\ DOMAIN r = DOMAIN s /\ r.last_accepted_time = s.last_accepted_time
        /\ r.rx_interval_count = s.rx_interval_count
        /\ r.max_rx_jitter = s.max_rx_jitter /\ r.max_rx_interval = s.max_rx_interval
        /\ r.last_receive_time = t
    BY <1>1, <1>4, <1>6 DEF Timing
  <1>8. r.interval_disturbed = TRUE
    BY <1>1, <1>4, <1>5, <1>6 DEF Timing
  <1>9. Disturbs(s, r)
    BY <1>7, <1>8 DEF Disturbs
  <1>10. CurrentInv(r, l2) /\ MeasuredInv(r, l2)
    BY <1>9, DisturbInv
  <1> QED BY <1>7, <1>10

(* start(): nothing measured yet *)
LEMMA FreshInv ==
    ASSUME NEW s, NEW t \in Nat, s = NewStats(t), NEW l, l = <<>>
    PROVE  /\ s.last_receive_time \in Nat /\ CurrentInv(s, l) /\ MeasuredInv(s, l)
           /\ \E F : l \in Seq(Events(F))
  <1>1. DOMAIN l = {}
    OBVIOUS
  <1>2. IntervalsOf(l) = {}
    BY <1>1 DEF IntervalsOf
  <1>3. /\ SteadyOf(l) = {} /\ Lengths(l) = {0} /\ Jitters(l) = {0}
    BY <1>2 DEF SteadyOf, Lengths, Jitters
  <1>4. /\ Timing \subseteq DOMAIN s /\ s.last_accepted_time = Never /\ s.rx_interval_count = 0
        /\ s.max_rx_jitter = 0 /\ s.max_rx_interval = 0 /\ s.last_receive_time = t
    BY DEF NewStats, Timing
  <1>5. s.interval_disturbed = FALSE
    BY DEF NewStats
  <1>6. CurrentInv(s, l)
    BY <1>1, <1>4, <1>5 DEF CurrentInv
  <1>7. MeasuredInv(s, l)
    BY <1>3, <1>4, FS_EmptySet DEF MeasuredInv, IsTop
  <1>8. l \in Seq(Events({}))
    OBVIOUS
  <1> QED BY <1>4, <1>6, <1>7, <1>8

-----------------------------------------------------------------------------
LEMMA StatsStep == StatsInv /\ [RxNext]_rxVars => StatsInv'
  <1>. SUFFICES ASSUME StatsInv, [RxNext]_rxVars PROVE StatsInv'
    OBVIOUS
  <1>0. /\ now \in Nat /\ stats.last_receive_time \in Nat
        /\ CurrentInv(stats, log) /\ MeasuredInv(stats, log)
    BY DEF StatsInv
  <1>1. PICK F : log \in Seq(Events(F))
    BY DEF StatsInv
  <1>2. PICK s, l, r, l2 : s = stats /\ l = log /\ r = stats' /\ l2 = log'
    OBVIOUS
  <1>3. Gaps \subseteq Nat /\ Watchdog \in Nat
    BY RxAssumption
  <1>4. CASE Receive
    <2>1. PICK valid \in BOOLEAN, k \in NextFrames :
            /\ process_input_frame(k, valid)
            /\ log' = Append(log, [frame |-> k, valid |-> valid, at |-> now'])
      BY <1>4 DEF Receive
    <2>2. now' \in Nat
      BY <1>0, <1>3, <1>4 DEF Receive
    <2>3. PICK e, G : e = [frame |-> k, valid |-> valid, at |-> now'] /\ G = F \cup {k}
      OBVIOUS
    <2>4. e \in Events(G) /\ e.at = now' /\ (e.valid <=> valid)
      BY <2>2, <2>3 DEF Events
    <2>5. l \in Seq(Events(G)) /\ l2 = Append(l, e)
      BY <1>1, <1>2, <2>1, <2>3, Widen
    <2>6. l2 \in Seq(Events(G))
      BY <2>4, <2>5
    <2>7. FrameStep(s, e, r)
      BY <1>2, <2>1, <2>4 DEF process_input_frame, FrameStep
    <2>8. CurrentInv(s, l) /\ MeasuredInv(s, l) /\ s.last_receive_time \in Nat
      BY <1>0, <1>2
    <2>9. CurrentInv(r, l2) /\ MeasuredInv(r, l2) /\ r.last_receive_time \in Nat
      BY <2>4, <2>5, <2>7, <2>8, FrameInv
    <2> QED BY <1>2, <2>2, <2>6, <2>9 DEF StatsInv
  <1>5. CASE check_receive_watchdog
    <2>1. now' \in Nat
      BY <1>0, <1>3, <1>5 DEF check_receive_watchdog
    <2>2. PICK e, G, t : e = [frame |-> -1, valid |-> FALSE, at |-> t] /\ G = F \cup {-1} /\ t = now'
      OBVIOUS
    <2>3. e \in Events(G) /\ ~e.valid
      BY <2>1, <2>2 DEF Events
    <2>4. l \in Seq(Events(G)) /\ l2 = Append(l, e)
      BY <1>1, <1>2, <1>5, <2>2, Widen DEF check_receive_watchdog
    <2>5. l2 \in Seq(Events(G))
      BY <2>3, <2>4
    <2>6. WatchdogStep(s, t, r)
      BY <1>2, <1>5, <2>2 DEF check_receive_watchdog, WatchdogStep
    <2>7. CurrentInv(s, l) /\ MeasuredInv(s, l) /\ t \in Nat
      BY <1>0, <1>2, <2>1, <2>2
    <2>8. CurrentInv(r, l2) /\ MeasuredInv(r, l2) /\ r.last_receive_time \in Nat
      BY <2>3, <2>4, <2>6, <2>7, WatchdogInv
    <2> QED BY <1>2, <2>1, <2>5, <2>8 DEF StatsInv
  <1>6. CASE Restart
    <2>1. now' = 0 /\ r = NewStats(0) /\ l2 = <<>>
      BY <1>2, <1>6 DEF Restart
    <2>2. /\ r.last_receive_time \in Nat /\ CurrentInv(r, l2) /\ MeasuredInv(r, l2)
          /\ \E H : l2 \in Seq(Events(H))
      BY <2>1, FreshInv
    <2> QED BY <1>2, <2>1, <2>2 DEF StatsInv
  <1>7. CASE UNCHANGED rxVars
    BY <1>7 DEF StatsInv, rxVars, CurrentInv, MeasuredInv
  <1> QED BY <1>4, <1>5, <1>6, <1>7 DEF RxNext

LEMMA StatsInitial == RxInit => StatsInv
  <1>. SUFFICES ASSUME RxInit PROVE StatsInv
    OBVIOUS
  <1>1. PICK s, l : s = stats /\ l = log
    OBVIOUS
  <1>2. s = NewStats(0) /\ l = <<>> /\ now = 0
    BY <1>1 DEF RxInit
  <1>3. /\ s.last_receive_time \in Nat /\ CurrentInv(s, l) /\ MeasuredInv(s, l)
        /\ \E F : l \in Seq(Events(F))
    BY <1>2, FreshInv
  <1> QED BY <1>1, <1>2, <1>3 DEF StatsInv

(* The interval statistics of a run are exactly those of the accepted frames:        *)
(* however valid and invalid frames, watchdog timeouts and restarts alternate,        *)
(* rx_interval_count counts the intervals in which nothing else happened,             *)
(* max_rx_jitter is the worst of those and max_rx_interval the longest of all.        *)
THEOREM JitterIsMeasured == RxSpec => []JitterIsSteady
  <1>2. StatsInv => JitterIsSteady
    <2>. SUFFICES ASSUME StatsInv PROVE JitterIsSteady
      OBVIOUS
    <2>1. PICK F : log \in Seq(Events(F))
      BY DEF StatsInv
    <2>2. PICK l : l = log
      OBVIOUS
    <2>3. Lengths(l) \subseteq Int /\ Jitters(l) \subseteq Int
      BY <2>1, <2>2, SetsAreIntegers
    <2>4. /\ stats.rx_interval_count = Cardinality(SteadyOf(l))
          /\ IsTop(stats.max_rx_jitter, Jitters(l)) /\ IsTop(stats.max_rx_interval, Lengths(l))
      BY <2>2 DEF StatsInv, MeasuredInv
    <2>5. stats.max_rx_jitter = Max(Jitters(l)) /\ stats.max_rx_interval = Max(Lengths(l))
      <3>1. PICK j, i : j = stats.max_rx_jitter /\ i = stats.max_rx_interval
        OBVIOUS
      <3>2. IsTop(j, Jitters(l)) /\ IsTop(i, Lengths(l))
        BY <2>4, <3>1
      <3> QED BY <2>3, <3>1, <3>2, MaxIsTop
    <2>6. Intervals = IntervalsOf(l)
      BY <2>2 DEF Intervals, IntervalsOf
    <2>7. \A p : Length(p) = LengthOf(l, p)
      BY <2>2 DEF Length, LengthOf
    <2>8. /\ Lengths(l) = {0} \cup {Length(p) : p \in Intervals}
          /\ Jitters(l) = {0} \cup {abs_diff(Length(p), Cycle) : p \in SteadyOf(l)}
      BY <2>6, <2>7 DEF Lengths, Jitters
    <2>9. SteadyOf(l) = {p \in Intervals : p[2] = p[1] + 1}
      BY <2>6 DEF SteadyOf
    <2> QED BY <2>4, <2>5, <2>8, <2>9 DEF JitterIsSteady
  <1> QED BY <1>2, StatsInitial, StatsStep, PTL DEF RxSpec

-----------------------------------------------------------------------------
(* Remainders *)

LEMMA DivMod ==
    ASSUME NEW x \in Int, NEW M \in Nat \ {0}
    PROVE  x \div M \in Int /\ x % M \in 0..M - 1 /\ x = M * (x \div M) + (x % M)
  OBVIOUS

LEMMA SmallMultiple == ASSUME NEW M \in Nat \ {0}, NEW d \in Int, 0 - M < M * d, M * d < M PROVE d = 0
  <1>1. CASE d >= 1
    <2>1. M * d >= M
      BY <1>1
    <2> QED BY <2>1
  <1>2. CASE d <= -1
    <2>1. M * d <= M * (-1)
      BY <1>2
    <2> QED BY <2>1
  <1> QED BY <1>1, <1>2

LEMMA ModUnique ==
    ASSUME NEW x \in Int, NEW M \in Nat \ {0}, NEW q \in Int, NEW r \in 0..M - 1, x = M * q + r
    PROVE  x % M = r /\ x \div M = q
  <1>1. PICK q2 \in Int, r2 \in 0..M - 1 : q2 = x \div M /\ r2 = x % M /\ x = M * q2 + r2
    BY DivMod
  <1>2. M * (q2 - q) = r - r2
    <2>1. M * (q2 - q) = M * q2 - M * q
      OBVIOUS
    <2> QED BY <1>1, <2>1
  <1>3. q2 - q = 0
    BY <1>2, SmallMultiple
  <1> QED BY <1>1, <1>3

LEMMA Times ==
    ASSUME NEW M \in Int, NEW a \in Int, NEW b \in Int
    PROVE  /\ M * a \in Int /\ M * (a + b) = M * a + M * b /\ M * (a - b) = M * a - M * b
  OBVIOUS

(* A difference of counters is the counter of the difference. *)
LEMMA ModDifference ==
    ASSUME NEW M \in Nat \ {0}, NEW x \in Int, NEW y \in Int, NEW d \in Int, d = y - x
    PROVE  ((y % M) - (x % M)) % M = d % M
  <1>1. PICK qx \in Int, rx \in 0..M - 1 : rx = x % M /\ x = M * qx + rx
    BY DivMod
  <1>2. PICK qy \in Int, ry \in 0..M - 1 : ry = y % M /\ y = M * qy + ry
    BY DivMod
  <1>3. PICK qd \in Int, rd \in 0..M - 1 : rd = d % M /\ d = M * qd + rd
    BY DivMod
  <1>4. PICK q \in Int : q = (qd + qx) - qy
    OBVIOUS
  <1>5. PICK a \in Int, b \in Int, c \in Int : a = M * qx /\ b = M * qy /\ c = M * qd
    BY Times
  <1>6. M * q = (c + a) - b
    BY <1>4, <1>5, Times
  <1>7. PICK z \in Int : z = ry - rx
    OBVIOUS
  <1>8. z = M * q + rd
    <2>1. x = a + rx /\ y = b + ry /\ d = c + rd
      BY <1>1, <1>2, <1>3, <1>5
    <2>2. PICK m \in Int : m = M * q
      BY Times
    <2>3. m = (c + a) - b
      BY <1>6, <2>2
    <2>4. z = m + rd
      BY <1>7, <2>1, <2>3
    <2> QED BY <2>2, <2>4
  <1>9. z % M = rd
    BY <1>8, ModUnique
  <1> QED BY <1>1, <1>2, <1>3, <1>7, <1>9

(* The counter of a sum, and when two counters are the same *)
IsSum(x, z, w, M) == ((x % M) + z) % M = w % M
SameWhen(x, y, d, M) == x % M = y % M <=> d % M = 0

LEMMA ModSum ==
    ASSUME NEW M \in Nat \ {0}, NEW x \in Int, NEW z \in Int, NEW w \in Int, w = x + z
    PROVE  IsSum(x, z, w, M)
  <1>1. PICK q \in Int, r \in 0..M - 1 : r = x % M /\ x = M * q + r
    BY DivMod
  <1>2. PICK p \in Int, t \in 0..M - 1 : t = w % M /\ w = M * p + t
    BY DivMod
  <1>3. PICK n \in Int : n = p - q
    OBVIOUS
  <1>4. PICK a \in Int, b \in Int : a = M * p /\ b = M * q
    BY Times
  <1>5. M * n = a - b
    BY <1>3, <1>4, Times
  <1>6. PICK y \in Int : y = r + z
    OBVIOUS
  <1>7. y = M * n + t
    <2>1. x = b + r /\ w = a + t
      BY <1>1, <1>2, <1>4
    <2>2. PICK m \in Int : m = M * n
      BY Times
    <2>3. m = a - b
      BY <1>5, <2>2
    <2>4. y = m + t
      BY <1>6, <2>1, <2>3
    <2> QED BY <2>2, <2>4
  <1>8. y % M = t
    BY <1>7, ModUnique
  <1> QED BY <1>1, <1>2, <1>6, <1>8 DEF IsSum

LEMMA ModSame ==
    ASSUME NEW M \in Nat \ {0}, NEW x \in Int, NEW y \in Int, NEW d \in Int, d = y - x
    PROVE  SameWhen(x, y, d, M)
  <1>1. PICK qx \in Int, rx \in 0..M - 1 : rx = x % M /\ x = M * qx + rx
    BY DivMod
  <1>2. PICK qy \in Int, ry \in 0..M - 1 : ry = y % M /\ y = M * qy + ry
    BY DivMod
  <1>3. PICK qd \in Int, rd \in 0..M - 1 : rd = d % M /\ d = M * qd + rd
    BY DivMod
  <1>4. CASE rx = ry
    <2>1. PICK q \in Int : q = qy - qx
      OBVIOUS
    <2>2. d = M * q + 0
      <3>1. PICK a \in Int, b \in Int : a = M * qx /\ b = M * qy
        BY Times
      <3>2. M * q = b - a
        BY <2>1, <3>1, Times
      <3>3. x = a + rx /\ y = b + ry
        BY <1>1, <1>2, <3>1
      <3>4. PICK m \in Int : m = M * q
        BY Times
      <3>5. m = b - a
        BY <3>2, <3>4
      <3>6. d = m
        BY <1>4, <3>3, <3>5
      <3> QED BY <3>4, <3>6
    <2>3. PICK z \in 0..M - 1 : z = 0
      OBVIOUS
    <2>4. d = M * q + z
      BY <2>2, <2>3
    <2>5. d % M = 0
      BY <2>3, <2>4, ModUnique
    <2> QED BY <1>1, <1>2, <1>4, <2>5 DEF SameWhen
  <1>5. CASE rd = 0
    <2>1. PICK q \in Int : q = qx + qd
      OBVIOUS
    <2>2. y = M * q + rx
      <3>1. PICK a \in Int, c \in Int : a = M * qx /\ c = M * qd
        BY Times
      <3>2. M * q = a + c
        BY <2>1, <3>1, Times
      <3>3. x = a + rx /\ d = c + rd
        BY <1>1, <1>3, <3>1
      <3>4. PICK m \in Int : m = M * q
        BY Times
      <3>5. m = a + c
        BY <3>2, <3>4
      <3>6. y = m + rx
        BY <1>5, <3>3, <3>5
      <3> QED BY <3>4, <3>6
    <2>3. y % M = rx
      BY <2>2, ModUnique
    <2> QED BY <1>1, <1>3, <1>5, <2>3 DEF SameWhen
  <1> QED BY <1>1, <1>2, <1>3, <1>4, <1>5 DEF SameWhen

-----------------------------------------------------------------------------
(* The cycle counter and the counters of losses *)

HasCounters(s) ==
    /\ {"frames_missed", "frames_duplicate", "frames_out_of_order"} \subseteq DOMAIN s
    /\ s.frames_missed \in Nat /\ s.frames_duplicate \in Nat /\ s.frames_out_of_order \in Nat

SameCounters(r, s) ==
    /\ DOMAIN r = DOMAIN s /\ r.frames_missed = s.frames_missed
    /\ r.frames_duplicate = s.frames_duplicate /\ r.frames_out_of_order = s.frames_out_of_order

(* What a frame that is `a` ahead of the last one counts as, if nothing wrapped twice. *)
CountedAs(s, a, r) ==
    /\ a >= 0 /\ a * Step <= Modulus \div 2 =>
         /\ r.frames_missed = s.frames_missed + larger(a - 1, 0)
         /\ r.frames_duplicate = s.frames_duplicate + (IF a = 0 THEN 1 ELSE 0)
         /\ r.frames_out_of_order = s.frames_out_of_order
    /\ a = -1 /\ Step < Modulus \div 2 => r.frames_missed = s.frames_missed

(* The three ways in which track_cycle_counter looks at a counter. *)
LEMMA TrackCases ==
    ASSUME NEW s, NEW r, NEW prev, NEW rx, NEW f, f = (rx - prev) % Modulus, prev # NoCounter,
           r = track_cycle_counter(s, prev, rx)
    PROVE  /\ rx = prev => r = [s EXCEPT !.frames_duplicate = @ + 1]
           /\ rx # prev /\ rx = (prev + Step) % Modulus => r = s
           /\ rx # prev /\ rx # (prev + Step) % Modulus =>
                /\ f > Modulus \div 2 => r = [s EXCEPT !.frames_out_of_order = @ + 1]
                /\ ~(f > Modulus \div 2) =>
                     r = [s EXCEPT !.frames_missed = @ + larger(f \div Step - 1, 0)]
  BY DEF track_cycle_counter

LEMMA TrackTypes ==
    ASSUME NEW s, NEW r, NEW f \in Int, HasCounters(s), NEW x, x = larger(f \div Step - 1, 0),
           \/ r = s
           \/ r = [s EXCEPT !.frames_duplicate = @ + 1]
           \/ r = [s EXCEPT !.frames_out_of_order = @ + 1]
           \/ r = [s EXCEPT !.frames_missed = @ + x]
    PROVE  HasCounters(r)
  <1>1. Step \in Nat \ {0}
    BY RxAssumption
  <1>2. f \div Step \in Int
    BY <1>1, DivMod
  <1>3. x \in Nat
    BY <1>2 DEF larger
  <1> QED BY <1>3 DEF HasCounters

(* Where the counter of the frame lies, seen from the counter of the last one. *)
Forward(prev, rx, d) ==
    /\ prev # NoCounter /\ (rx - prev) % Modulus = d % Modulus
    /\ rx = prev <=> d % Modulus = 0
    /\ rx = (prev + Step) % Modulus <=> (d - Step) % Modulus = 0

LEMMA ForwardOf ==
    ASSUME NEW x \in Int, NEW y \in Int, NEW d \in Int, d = y - x,
           NEW prev, prev = x % Modulus, NEW rx, rx = y % Modulus
    PROVE  Forward(prev, rx, d)
  <1>1. Step \in Int /\ Modulus \in Nat \ {0}
    BY RxAssumption
  <1>2. (rx - prev) % Modulus = d % Modulus
    <2>1. ((y % Modulus) - (x % Modulus)) % Modulus = d % Modulus
      BY <1>1, ModDifference
    <2> QED BY <2>1
  <1>3. rx = prev <=> d % Modulus = 0
    <2>1. SameWhen(x, y, d, Modulus)
      BY <1>1, ModSame
    <2> QED BY <2>1 DEF SameWhen
  <1>4. PICK w \in Int, e \in Int : w = x + Step /\ e = y - w
    BY <1>1
  <1>5. (prev + Step) % Modulus = w % Modulus
    <2>1. IsSum(x, Step, w, Modulus)
      BY <1>1, <1>4, ModSum
    <2> QED BY <2>1 DEF IsSum
  <1>6. w % Modulus = y % Modulus <=> e % Modulus = 0
    <2>1. SameWhen(w, y, e, Modulus)
      BY <1>1, <1>4, ModSame
    <2> QED BY <2>1 DEF SameWhen
  <1>7. e = d - Step
    BY <1>1, <1>4
  <1>8. prev # NoCounter
    <2>1. x % Modulus \in 0..Modulus - 1
      BY <1>1, DivMod
    <2> QED BY <2>1 DEF NoCounter
  <1> QED BY <1>2, <1>3, <1>5, <1>6, <1>7, <1>8 DEF Forward

LEMMA ForwardIs ==
    ASSUME NEW l \in Nat, NEW k \in Nat, NEW prev, prev = (l * Step) % Modulus,
           NEW rx, rx = (k * Step) % Modulus, NEW a \in Int, a = k - l, NEW d, d = a * Step
    PROVE  d \in Int /\ Forward(prev, rx, d)
  <1>1. Step \in Int /\ l \in Int /\ k \in Int
    BY RxAssumption
  <1>2. PICK x \in Int, y \in Int : x = Step * l /\ y = Step * k /\ Step * (k - l) = y - x
    BY <1>1, Times
  <1>3. x = l * Step /\ y = k * Step /\ d = Step * (k - l)
    BY <1>1, <1>2
  <1>4. d \in Int /\ d = y - x
    BY <1>2, <1>3
  <1>5. prev = x % Modulus /\ rx = y % Modulus
    BY <1>3
  <1> QED BY <1>4, <1>5, ForwardOf

LEMMA ModSmall == ASSUME NEW M \in Nat \ {0}, NEW x \in 0..M - 1 PROVE x % M = x
  <1>1. PICK q \in Int : q = 0
    OBVIOUS
  <1>2. M * q = 0
    BY <1>1
  <1>3. x \in Int /\ x = M * q + x
    BY <1>2
  <1> QED BY <1>3, ModUnique

LEMMA ModBelow == ASSUME NEW M \in Nat \ {0}, NEW x \in 1..M - 1, NEW y, y = 0 - x PROVE y % M = M - x
  <1>1. PICK q \in Int, r \in 0..M - 1 : q = -1 /\ r = M - x
    OBVIOUS
  <1>2. M * q = 0 - M
    BY <1>1
  <1>3. y \in Int /\ y = M * q + r
    BY <1>1, <1>2
  <1> QED BY <1>1, <1>3, ModUnique

LEMMA DivExact == ASSUME NEW M \in Nat \ {0}, NEW q \in Int, NEW x, x = q * M PROVE x \div M = q
  <1>1. PICK r \in 0..M - 1 : r = 0
    OBVIOUS
  <1>2. x = M * q + r /\ x \in Int
    BY <1>1
  <1> QED BY <1>2, ModUnique

LEMMA TrackAhead ==
    ASSUME NEW l \in Nat, NEW k \in Nat, NEW prev, prev = (l * Step) % Modulus,
           NEW rx, rx = (k * Step) % Modulus, NEW a \in Int, a = k - l,
           NEW s, HasCounters(s), NEW r, r = track_cycle_counter(s, prev, rx)
    PROVE  HasCounters(r) /\ CountedAs(s, a, r)
  <1>1. Step \in Nat \ {0} /\ Modulus \in Nat \ {0}
    BY RxAssumption
  <1>2. PICK d \in Int : d = a * Step /\ Forward(prev, rx, d)
    BY ForwardIs
  <1>3. PICK f \in 0..Modulus - 1, g \in Int : f = d % Modulus /\ g = (d - Step) % Modulus
    <2>1. PICK x \in Int : x = d - Step
      BY <1>1
    <2>2. d % Modulus \in 0..Modulus - 1 /\ x % Modulus \in Int
      BY <1>1, DivMod
    <2> QED BY <2>1, <2>2
  <1>4. /\ prev # NoCounter /\ f = (rx - prev) % Modulus /\ (rx = prev <=> f = 0)
        /\ rx = (prev + Step) % Modulus <=> g = 0
    BY <1>2, <1>3 DEF Forward
  <1>5. /\ f = 0 => r = [s EXCEPT !.frames_duplicate = @ + 1]
        /\ f # 0 /\ g = 0 => r = s
        /\ f # 0 /\ g # 0 /\ f > Modulus \div 2 => r = [s EXCEPT !.frames_out_of_order = @ + 1]
        /\ f # 0 /\ g # 0 /\ ~(f > Modulus \div 2) =>
             r = [s EXCEPT !.frames_missed = @ + larger(f \div Step - 1, 0)]
    BY <1>4, TrackCases
  <1>6. HasCounters(r)
    <2>1. PICK x : x = larger(f \div Step - 1, 0)
      OBVIOUS
    <2>2. f \in Int
      BY <1>3
    <2>3. \/ r = s
          \/ r = [s EXCEPT !.frames_duplicate = @ + 1]
          \/ r = [s EXCEPT !.frames_out_of_order = @ + 1]
          \/ r = [s EXCEPT !.frames_missed = @ + x]
      BY <1>5, <2>1
    <2> QED BY <2>1, <2>2, <2>3, TrackTypes
  <1>7. PICK half \in Int : half = Modulus \div 2 /\ 2 * half <= Modulus /\ half >= 0 /\ half < Modulus
    BY <1>1
  <1>8. ASSUME a >= 0, a * Step <= half
        PROVE  /\ r.frames_missed = s.frames_missed + larger(a - 1, 0)
               /\ r.frames_duplicate = s.frames_duplicate + (IF a = 0 THEN 1 ELSE 0)
               /\ r.frames_out_of_order = s.frames_out_of_order
    <2>1. d >= 0 /\ d <= half
      BY <1>1, <1>2, <1>8
    <2>2. d \in 0..Modulus - 1
      BY <1>1, <1>7, <2>1
    <2>3. f = d
      BY <1>1, <1>3, <2>2, ModSmall
    <2>4. CASE a = 0
      <3>1. d = 0
        BY <1>1, <1>2, <2>4
      <3>2. r = [s EXCEPT !.frames_duplicate = @ + 1]
        BY <1>5, <2>3, <3>1
      <3> QED BY <2>4, <3>2 DEF HasCounters, larger
    <2>5. CASE a = 1
      <3>1. d = Step /\ d - Step = 0 /\ 0 \in 0..Modulus - 1
        BY <1>1, <1>2, <2>5
      <3>2. g = 0
        BY <1>1, <1>3, <3>1, ModSmall
      <3>3. r = s
        BY <1>1, <1>5, <2>3, <3>1, <3>2
      <3> QED BY <2>5, <3>3 DEF HasCounters, larger
    <2>6. CASE a >= 2
      <3>1. d >= 2 * Step
        BY <1>1, <1>2, <2>6
      <3>2. PICK e \in 0..Modulus - 1 : e = d - Step /\ e # 0
        BY <1>1, <2>2, <3>1
      <3>3. g # 0
        BY <1>1, <1>3, <3>2, ModSmall
      <3>4. f \div Step = a
        BY <1>1, <1>2, <2>3, DivExact
      <3>5. f # 0 /\ ~(f > Modulus \div 2)
        BY <1>1, <1>7, <2>1, <2>3, <3>1
      <3>6. r = [s EXCEPT !.frames_missed = @ + larger(f \div Step - 1, 0)]
        BY <1>5, <3>3, <3>5
      <3>7. r = [s EXCEPT !.frames_missed = @ + larger(a - 1, 0)]
        BY <3>4, <3>6
      <3> QED BY <2>6, <3>7 DEF HasCounters
    <2>7. a = 0 \/ a = 1 \/ a >= 2
      BY <1>8
    <2> QED BY <2>4, <2>5, <2>6, <2>7
  <1>9. ASSUME a = -1, Step < half PROVE r.frames_missed = s.frames_missed
    <2>1. d = 0 - Step
      BY <1>1, <1>2, <1>9
    <2>2. PICK e \in 1..Modulus - 1 : e = Step
      BY <1>1, <1>7, <1>9
    <2>3. f = Modulus - Step
      BY <1>1, <1>3, <2>1, <2>2, ModBelow
    <2>4. PICK e2 \in 1..Modulus - 1 : e2 = 2 * Step /\ d - Step = 0 - e2
      BY <1>1, <1>7, <1>9, <2>1
    <2>5. g = Modulus - e2
      BY <1>1, <1>3, <2>4, ModBelow
    <2>6. f # 0 /\ g # 0 /\ f > half
      BY <1>1, <1>7, <1>9, <2>2, <2>3, <2>4, <2>5
    <2>7. r = [s EXCEPT !.frames_out_of_order = @ + 1]
      BY <1>5, <1>7, <2>6
    <2> QED BY <2>7 DEF HasCounters
  <1>10. CountedAs(s, a, r)
    BY <1>7, <1>8, <1>9 DEF CountedAs
  <1> QED BY <1>6, <1>10

-----------------------------------------------------------------------------
(* Losses, for any log *)

ArrivalsOf(l) == {i \in DOMAIN l : l[i].frame >= 0}
SilencesOf(l) == DOMAIN l \ ArrivalsOf(l)
NumbersOf(l)  == {l[i].frame : i \in ArrivalsOf(l)}
SuccessiveOf(l) ==
    {p \in ArrivalsOf(l) \X ArrivalsOf(l) :
       p[1] < p[2] /\ \A m \in p[1] + 1 .. p[2] - 1 : m \notin ArrivalsOf(l)}
AheadOf(l, p) == l[p[2]].frame - l[p[1]].frame
InOrderOf(l) == \A p \in SuccessiveOf(l) : AheadOf(l, p) >= 0 /\ AheadOf(l, p) * Step <= Modulus \div 2
NearbyOf(l) == \A p \in SuccessiveOf(l) : abs_diff(AheadOf(l, p), 0) * Step < Modulus \div 2

(* What the device puts into frame k. *)
CounterOf(k) == (k * Step) % Modulus

IsBottom(m, S) == m \in S /\ \A x \in S : m <= x

(* The sets that are counted are finite. *)
Countable(l) == IsFiniteSet(ArrivalsOf(l)) /\ IsFiniteSet(SilencesOf(l)) /\ IsFiniteSet(NumbersOf(l))

(* Before the first frame: nothing but timeouts. *)
NoFrameYet(s, c, l) ==
    /\ ArrivalsOf(l) = {} /\ c = NoCounter
    /\ s.frames_missed = Cardinality(SilencesOf(l))
    /\ s.frames_duplicate = 0 /\ s.frames_out_of_order = 0

(* hi, lo: the highest and the lowest number seen; what is missing between them. *)
LossOf(l, hi, lo) == hi - lo + 1 - Cardinality(NumbersOf(l))

(* v: the last frame, whose counter is kept.  In order, it is the highest one and    *)
(* the books are exact; otherwise nothing is under-reported.                         *)
Balanced(s, c, l, v, hi, lo) ==
    /\ IsTop(v, ArrivalsOf(l)) /\ IsTop(hi, NumbersOf(l)) /\ IsBottom(lo, NumbersOf(l))
    /\ c = CounterOf(l[v].frame)
    /\ InOrderOf(l) =>
         /\ l[v].frame = hi
         /\ s.frames_missed = Cardinality(SilencesOf(l)) + LossOf(l, hi, lo)
         /\ s.frames_duplicate = Cardinality(ArrivalsOf(l)) - Cardinality(NumbersOf(l))
         /\ s.frames_out_of_order = 0
    /\ NearbyOf(l) => s.frames_missed >= Cardinality(SilencesOf(l)) + LossOf(l, hi, lo)

Books(s, c, l) ==
    /\ l \in Seq(Events(Int)) /\ HasCounters(s) /\ Countable(l)
    /\ \/ NoFrameYet(s, c, l)
       \/ \E v \in ArrivalsOf(l), hi \in NumbersOf(l), lo \in NumbersOf(l) : Balanced(s, c, l, v, hi, lo)

LossInv == Books(stats, last_rx_cycle_counter, log)

LEMMA MinIsBottom == ASSUME NEW S, S \subseteq Int, NEW m, IsBottom(m, S) PROVE Min(S) = m
  <1>1. \E x \in S : \A y \in S : x <= y
    BY DEF IsBottom
  <1>2. Min(S) \in S /\ \A y \in S : Min(S) <= y
    BY <1>1 DEF Min
  <1>3. PICK x \in Int : x = Min(S) /\ x \in S /\ \A y \in S : x <= y
    BY <1>2
  <1>4. m \in Int /\ m <= x /\ x <= m
    BY <1>3 DEF IsBottom
  <1> QED BY <1>3, <1>4

LEMMA LogTypes ==
    ASSUME NEW l \in Seq(Events(Int))
    PROVE  /\ ArrivalsOf(l) \subseteq Int /\ NumbersOf(l) \subseteq Nat
           /\ \A i \in ArrivalsOf(l) : i \in DOMAIN l /\ l[i].frame \in NumbersOf(l)
  <1>1. \A i \in DOMAIN l : i \in Int /\ l[i] \in Events(Int)
    OBVIOUS
  <1>2. \A i \in DOMAIN l : l[i].frame \in Int
    BY <1>1 DEF Events
  <1> QED BY <1>1, <1>2 DEF ArrivalsOf, NumbersOf

(* A timeout: the frames are the same. *)
Waited(l, l2) ==
    /\ ArrivalsOf(l2) = ArrivalsOf(l) /\ NumbersOf(l2) = NumbersOf(l)
    /\ \A i \in ArrivalsOf(l) : l2[i] = l[i]
    /\ InOrderOf(l2) <=> InOrderOf(l)
    /\ NearbyOf(l2) <=> NearbyOf(l)
    /\ IsFiniteSet(SilencesOf(l)) =>
         /\ IsFiniteSet(SilencesOf(l2)) /\ Cardinality(SilencesOf(l2)) = Cardinality(SilencesOf(l)) + 1

LEMMA TimeoutLogged ==
    ASSUME NEW l \in Seq(Events(Int)), NEW e \in Events(Int), e.frame = -1, NEW l2, l2 = Append(l, e)
    PROVE  Waited(l, l2)
  <1>. PICK n : n = Len(l) + 1
    OBVIOUS
  <1>1. /\ n \in Nat /\ DOMAIN l = 1..n - 1 /\ DOMAIN l2 = 1..n
        /\ \A i \in DOMAIN l : l2[i] = l[i] /\ i \in DOMAIN l2 /\ i < n
        /\ l2[n] = e
    BY Extended
  <1>2. \A i \in DOMAIN l2 : i \in DOMAIN l \/ i = n
    BY <1>1
  <1>3. ArrivalsOf(l2) = ArrivalsOf(l)
    BY <1>1, <1>2 DEF ArrivalsOf
  <1>4. \A i \in ArrivalsOf(l) : l2[i] = l[i]
    BY <1>1 DEF ArrivalsOf
  <1>5. NumbersOf(l2) = NumbersOf(l)
    BY <1>3, <1>4 DEF NumbersOf
  <1>6. SuccessiveOf(l2) = SuccessiveOf(l)
    BY <1>3 DEF SuccessiveOf
  <1>7. \A p \in SuccessiveOf(l) : AheadOf(l2, p) = AheadOf(l, p)
    <2>1. \A p \in SuccessiveOf(l) : p[1] \in ArrivalsOf(l) /\ p[2] \in ArrivalsOf(l)
      BY DEF SuccessiveOf
    <2> QED BY <1>4, <2>1 DEF AheadOf
  <1>8. InOrderOf(l2) <=> InOrderOf(l)
    BY <1>6, <1>7 DEF InOrderOf
  <1>9. NearbyOf(l2) <=> NearbyOf(l)
    BY <1>6, <1>7 DEF NearbyOf
  <1>10. SilencesOf(l2) = SilencesOf(l) \cup {n} /\ n \notin SilencesOf(l)
    <2>1. n \notin DOMAIN l /\ n \in DOMAIN l2
      BY <1>1
    <2>2. n \notin ArrivalsOf(l)
      BY <2>1 DEF ArrivalsOf
    <2>3. DOMAIN l2 = DOMAIN l \cup {n}
      BY <1>1, <1>2, <2>1
    <2> QED BY <1>3, <2>1, <2>2, <2>3 DEF SilencesOf
  <1>11. ASSUME IsFiniteSet(SilencesOf(l))
         PROVE  /\ IsFiniteSet(SilencesOf(l2))
                /\ Cardinality(SilencesOf(l2)) = Cardinality(SilencesOf(l)) + 1
    BY <1>10, <1>11, FS_AddElement
  <1> QED BY <1>3, <1>4, <1>5, <1>8, <1>9, <1>11 DEF Waited

(* A frame k: one more arrival n and maybe one more number. *)
Logged(l, l2, n, k) ==
    /\ n \in Int /\ ArrivalsOf(l2) = ArrivalsOf(l) \cup {n} /\ n \notin ArrivalsOf(l)
    /\ \A i \in ArrivalsOf(l) : l2[i] = l[i] /\ i < n
    /\ l2[n].frame = k
    /\ NumbersOf(l2) = NumbersOf(l) \cup {k} /\ SilencesOf(l2) = SilencesOf(l)

LEMMA FrameLogged ==
    ASSUME NEW l \in Seq(Events(Int)), NEW e \in Events(Int), NEW k \in Nat, e.frame = k,
           NEW l2, l2 = Append(l, e), NEW n, n = Len(l) + 1
    PROVE  Logged(l, l2, n, k)
  <1>1. /\ n \in Nat /\ DOMAIN l = 1..n - 1 /\ DOMAIN l2 = 1..n
        /\ \A i \in DOMAIN l : l2[i] = l[i] /\ i \in DOMAIN l2 /\ i < n
        /\ l2[n] = e
    BY Extended
  <1>2. \A i \in DOMAIN l2 : i \in DOMAIN l \/ i = n
    BY <1>1
  <1>3. n \notin DOMAIN l /\ n \in DOMAIN l2
    BY <1>1
  <1>4. DOMAIN l2 = DOMAIN l \cup {n}
    BY <1>1, <1>2, <1>3
  <1>5. ArrivalsOf(l2) = ArrivalsOf(l) \cup {n}
    BY <1>1, <1>2, <1>3 DEF ArrivalsOf
  <1>6. n \notin ArrivalsOf(l) /\ \A i \in ArrivalsOf(l) : l2[i] = l[i] /\ i < n
    BY <1>1, <1>3 DEF ArrivalsOf
  <1>7. NumbersOf(l2) = NumbersOf(l) \cup {k}
    <2>1. ASSUME NEW y \in NumbersOf(l2) PROVE y \in NumbersOf(l) \cup {k}
      <3>1. PICK i \in ArrivalsOf(l2) : y = l2[i].frame
        BY <2>1 DEF NumbersOf
      <3>2. CASE i = n
        BY <1>1, <3>1, <3>2
      <3>3. CASE i \in ArrivalsOf(l)
        BY <1>6, <3>1, <3>3 DEF NumbersOf
      <3> QED BY <1>5, <3>2, <3>3
    <2>2. k \in NumbersOf(l2)
      BY <1>1, <1>5 DEF NumbersOf
    <2>3. ASSUME NEW i \in ArrivalsOf(l) PROVE l[i].frame \in NumbersOf(l2)
      <3>1. l2[i] = l[i] /\ i \in ArrivalsOf(l2)
        BY <1>5, <1>6
      <3> QED BY <3>1 DEF NumbersOf
    <2>4. NumbersOf(l) \subseteq NumbersOf(l2)
      BY <2>3 DEF NumbersOf
    <2> QED BY <2>1, <2>2, <2>4
  <1>8. SilencesOf(l2) = SilencesOf(l)
    BY <1>3, <1>4, <1>5 DEF SilencesOf
  <1>9. n \in Int /\ l2[n].frame = k
    BY <1>1
  <1> QED BY <1>5, <1>6, <1>7, <1>8, <1>9 DEF Logged

(* The frames that follow each other still do, and the new one follows frame v. *)
LEMMA OneMoreSuccessive ==
    ASSUME NEW l \in Seq(Events(Int)), NEW l2, NEW n, NEW k \in Nat, Logged(l, l2, n, k),
           NEW v, IsTop(v, ArrivalsOf(l)), NEW a, a = k - l[v].frame
    PROVE  /\ InOrderOf(l2) => InOrderOf(l) /\ a >= 0 /\ a * Step <= Modulus \div 2
           /\ NearbyOf(l2) => NearbyOf(l) /\ abs_diff(a, 0) * Step < Modulus \div 2
  <1>1. ArrivalsOf(l) \subseteq Int /\ v \in ArrivalsOf(l) /\ n \in Int
    BY LogTypes DEF IsTop, Logged
  <1>2. \A p \in SuccessiveOf(l) : p \in SuccessiveOf(l2) /\ AheadOf(l2, p) = AheadOf(l, p)
    <2>. SUFFICES ASSUME NEW p \in SuccessiveOf(l)
                  PROVE  p \in SuccessiveOf(l2) /\ AheadOf(l2, p) = AheadOf(l, p)
      OBVIOUS
    <2>1. PICK i \in ArrivalsOf(l), j \in ArrivalsOf(l) : p = <<i, j>>
      BY DEF SuccessiveOf
    <2>2. i < j /\ \A m \in i + 1 .. j - 1 : m \notin ArrivalsOf(l)
      BY <2>1 DEF SuccessiveOf
    <2>3. i \in Int /\ j \in Int /\ j < n /\ l2[i] = l[i] /\ l2[j] = l[j]
      BY <1>1 DEF Logged
    <2>4. \A m \in i + 1 .. j - 1 : m \notin ArrivalsOf(l2)
      BY <1>1, <2>2, <2>3 DEF Logged
    <2>5. i \in ArrivalsOf(l2) /\ j \in ArrivalsOf(l2)
      BY DEF Logged
    <2> QED BY <2>1, <2>2, <2>3, <2>4, <2>5 DEF SuccessiveOf, AheadOf
  <1>3. PICK q : q = <<v, n>>
    OBVIOUS
  <1>4. q \in SuccessiveOf(l2) /\ AheadOf(l2, q) = a
    <2>1. v \in Int /\ v < n /\ l2[v] = l[v] /\ l2[n].frame = k
      BY <1>1 DEF Logged
    <2>2. \A m \in v + 1 .. n - 1 : m \notin ArrivalsOf(l)
      BY <1>1, <2>1 DEF IsTop
    <2>3. \A m \in v + 1 .. n - 1 : m \notin ArrivalsOf(l2)
      BY <1>1, <2>1, <2>2 DEF Logged
    <2>4. v \in ArrivalsOf(l2) /\ n \in ArrivalsOf(l2)
      BY <1>1 DEF Logged
    <2>5. q[1] = v /\ q[2] = n /\ q \in ArrivalsOf(l2) \X ArrivalsOf(l2)
      BY <1>3, <2>4
    <2> QED BY <2>1, <2>3, <2>5 DEF SuccessiveOf, AheadOf
  <1>5. InOrderOf(l2) => InOrderOf(l) /\ a >= 0 /\ a * Step <= Modulus \div 2
    BY <1>2, <1>4 DEF InOrderOf
  <1>6. NearbyOf(l2) => NearbyOf(l) /\ abs_diff(a, 0) * Step < Modulus \div 2
    BY <1>2, <1>4 DEF NearbyOf
  <1> QED BY <1>5, <1>6

(* What is counted after one more frame k. *)
Tallied(l, l2, k) ==
    /\ Countable(l2)
    /\ Cardinality(SilencesOf(l2)) = Cardinality(SilencesOf(l))
    /\ Cardinality(ArrivalsOf(l2)) = Cardinality(ArrivalsOf(l)) + 1
    /\ Cardinality(NumbersOf(l2)) = Cardinality(NumbersOf(l)) + (IF k \in NumbersOf(l) THEN 0 ELSE 1)
    /\ Cardinality(SilencesOf(l)) \in Nat /\ Cardinality(ArrivalsOf(l)) \in Nat
    /\ Cardinality(NumbersOf(l)) \in Nat

LEMMA FrameTallied ==
    ASSUME NEW l, NEW l2, NEW n, NEW k, Logged(l, l2, n, k), Countable(l)
    PROVE  Tallied(l, l2, k)
  <1>1. PICK A, N : A = ArrivalsOf(l) /\ N = NumbersOf(l)
    OBVIOUS
  <1>2. IsFiniteSet(A) /\ IsFiniteSet(N) /\ IsFiniteSet(SilencesOf(l)) /\ n \notin A
    BY <1>1 DEF Countable, Logged
  <1>3. /\ Cardinality(A) \in Nat /\ Cardinality(N) \in Nat /\ Cardinality(SilencesOf(l)) \in Nat
    BY <1>2, FS_CardinalityType
  <1>4. IsFiniteSet(A \cup {n}) /\ Cardinality(A \cup {n}) = Cardinality(A) + 1
    BY <1>2, FS_AddElement
  <1>5. /\ IsFiniteSet(N \cup {k})
        /\ k \in N => Cardinality(N \cup {k}) = Cardinality(N)
        /\ k \notin N => Cardinality(N \cup {k}) = Cardinality(N) + 1
    BY <1>2, FS_AddElement
  <1>6. ArrivalsOf(l2) = A \cup {n} /\ NumbersOf(l2) = N \cup {k} /\ SilencesOf(l2) = SilencesOf(l)
    BY <1>1 DEF Logged
  <1> QED BY <1>1, <1>2, <1>3, <1>4, <1>5, <1>6 DEF Tallied, Countable

LEMMA FirstFrameBalances ==
    ASSUME NEW l \in Seq(Events(Int)), NEW l2, NEW n, NEW k \in Nat, Logged(l, l2, n, k), Countable(l),
           NEW s, NEW r, NEW c, HasCounters(s), NoFrameYet(s, c, l), SameCounters(r, s),
           NEW c2, c2 = CounterOf(k)
    PROVE  /\ Balanced(r, c2, l2, n, k, k) /\ HasCounters(r) /\ Countable(l2)
           /\ n \in ArrivalsOf(l2) /\ k \in NumbersOf(l2)
  <1>1. ArrivalsOf(l) = {} /\ NumbersOf(l) = {}
    BY DEF NoFrameYet, NumbersOf
  <1>2. ArrivalsOf(l2) = {n} /\ NumbersOf(l2) = {k} /\ n \in Int /\ l2[n].frame = k
    BY <1>1 DEF Logged
  <1>3. IsTop(n, ArrivalsOf(l2)) /\ IsTop(k, NumbersOf(l2)) /\ IsBottom(k, NumbersOf(l2))
    BY <1>2 DEF IsTop, IsBottom
  <1>4. Tallied(l, l2, k)
    BY FrameTallied
  <1>5. Cardinality(ArrivalsOf(l)) = 0 /\ Cardinality(NumbersOf(l)) = 0
    BY <1>1, FS_EmptySet
  <1>6. /\ Cardinality(ArrivalsOf(l2)) = 1 /\ Cardinality(NumbersOf(l2)) = 1
        /\ Cardinality(SilencesOf(l2)) = Cardinality(SilencesOf(l)) /\ Cardinality(SilencesOf(l)) \in Nat
    BY <1>1, <1>4, <1>5 DEF Tallied
  <1>7. LossOf(l2, k, k) = 0
    BY <1>6 DEF LossOf
  <1>8. /\ r.frames_missed = Cardinality(SilencesOf(l)) /\ r.frames_duplicate = 0
        /\ r.frames_out_of_order = 0
    BY DEF NoFrameYet, SameCounters
  <1>9. Balanced(r, c2, l2, n, k, k)
    BY <1>2, <1>3, <1>6, <1>7, <1>8 DEF Balanced
  <1> QED BY <1>2, <1>4, <1>9 DEF Tallied, HasCounters, SameCounters

(* The loss after frame k, from the highest and the lowest number before. *)
Grown(l, l2, k, hi, lo, hi2, lo2) ==
    /\ hi2 \in NumbersOf(l2) /\ lo2 \in NumbersOf(l2)
    /\ IsTop(hi2, NumbersOf(l2)) /\ IsBottom(lo2, NumbersOf(l2))
    /\ LossOf(l2, hi2, lo2) \in Int /\ LossOf(l, hi, lo) \in Int
    /\ k \in NumbersOf(l) => hi2 = hi /\ LossOf(l2, hi2, lo2) = LossOf(l, hi, lo)
    /\ k > hi => hi2 = k /\ LossOf(l2, hi2, lo2) = LossOf(l, hi, lo) + (k - hi - 1)
    /\ k < lo => LossOf(l2, hi2, lo2) = LossOf(l, hi, lo) + (lo - k - 1)
    /\ ~(k \in NumbersOf(l) \/ k > hi \/ k < lo) => LossOf(l2, hi2, lo2) = LossOf(l, hi, lo) - 1

LEMMA LossGrows ==
    ASSUME NEW l, NEW l2, NEW k \in Nat, Tallied(l, l2, k), NEW hi \in Nat, NEW lo \in Nat,
           NumbersOf(l) \subseteq Nat, NumbersOf(l2) = NumbersOf(l) \cup {k},
           IsTop(hi, NumbersOf(l)), IsBottom(lo, NumbersOf(l))
    PROVE  \E hi2, lo2 : Grown(l, l2, k, hi, lo, hi2, lo2)
  <1>1. PICK N, N2, c, c2 : /\ N = NumbersOf(l) /\ N2 = NumbersOf(l2)
                            /\ c = Cardinality(N) /\ c2 = Cardinality(N2)
    OBVIOUS
  <1>2. c \in Nat /\ c2 \in Int /\ (k \in N => c2 = c) /\ (k \notin N => c2 = c + 1)
    BY <1>1 DEF Tallied
  <1>3. \A h, m : LossOf(l, h, m) = h - m + 1 - c /\ LossOf(l2, h, m) = h - m + 1 - c2
    BY <1>1 DEF LossOf
  <1>4. hi \in N /\ lo \in N /\ (\A x \in N : x \in Nat /\ x <= hi /\ lo <= x) /\ N2 = N \cup {k}
    BY <1>1 DEF IsTop, IsBottom
  <1>5. CASE k \in N
    <2>1. N2 = N /\ IsTop(hi, N2) /\ IsBottom(lo, N2) /\ ~(k > hi) /\ ~(k < lo)
      BY <1>4, <1>5 DEF IsTop, IsBottom
    <2>2. LossOf(l2, hi, lo) = LossOf(l, hi, lo) /\ LossOf(l, hi, lo) \in Int
      BY <1>2, <1>3, <1>5
    <2>3. Grown(l, l2, k, hi, lo, hi, lo)
      BY <1>1, <1>4, <1>5, <2>1, <2>2 DEF Grown
    <2> QED BY <2>3
  <1>6. CASE k > hi
    <2>1. k \notin N /\ ~(k < lo) /\ IsTop(k, N2) /\ IsBottom(lo, N2) /\ k \in N2 /\ lo \in N2
      BY <1>4, <1>6 DEF IsTop, IsBottom
    <2>2. /\ LossOf(l2, k, lo) = LossOf(l, hi, lo) + (k - hi - 1)
          /\ LossOf(l, hi, lo) \in Int /\ LossOf(l2, k, lo) \in Int
      BY <1>2, <1>3, <2>1
    <2>3. Grown(l, l2, k, hi, lo, k, lo)
      BY <1>1, <1>6, <2>1, <2>2 DEF Grown
    <2> QED BY <2>3
  <1>7. CASE k < lo
    <2>1. k \notin N /\ ~(k > hi) /\ IsTop(hi, N2) /\ IsBottom(k, N2) /\ k \in N2 /\ hi \in N2
      BY <1>4, <1>7 DEF IsTop, IsBottom
    <2>2. /\ LossOf(l2, hi, k) = LossOf(l, hi, lo) + (lo - k - 1)
          /\ LossOf(l, hi, lo) \in Int /\ LossOf(l2, hi, k) \in Int
      BY <1>2, <1>3, <2>1
    <2>3. Grown(l, l2, k, hi, lo, hi, k)
      BY <1>1, <1>7, <2>1, <2>2 DEF Grown
    <2> QED BY <2>3
  <1>8. CASE ~(k \in N \/ k > hi \/ k < lo)
    <2>1. IsTop(hi, N2) /\ IsBottom(lo, N2) /\ lo \in N2 /\ hi \in N2
      BY <1>4, <1>8 DEF IsTop, IsBottom
    <2>2. /\ LossOf(l2, hi, lo) = LossOf(l, hi, lo) - 1
          /\ LossOf(l, hi, lo) \in Int /\ LossOf(l2, hi, lo) \in Int
      BY <1>2, <1>3, <1>8
    <2>3. Grown(l, l2, k, hi, lo, hi, lo)
      BY <1>1, <1>8, <2>1, <2>2 DEF Grown
    <2> QED BY <2>3
  <1> QED BY <1>5, <1>6, <1>7, <1>8

(* How the highest number and the loss change with frame k. *)
Change(N, k, hi, lo, loss, hi2, loss2) ==
    /\ k \in Nat /\ hi \in Nat /\ lo \in Nat /\ loss \in Int /\ loss2 \in Int
    /\ hi \in N /\ \A x \in N : x \in Nat /\ x <= hi /\ lo <= x
    /\ k \in N => hi2 = hi /\ loss2 = loss
    /\ k > hi => hi2 = k /\ loss2 = loss + (k - hi - 1)
    /\ k < lo => loss2 = loss + (lo - k - 1)
    /\ ~(k \in N \/ k > hi \/ k < lo) => loss2 = loss - 1

(* A loss is counted, or a late frame is not. *)
Follows(miss, a, x) == (a >= 0 => x = miss + larger(a - 1, 0)) /\ (a = -1 => x = miss)
Enough(x, t, loss) == x >= t + loss

(* The two sums for a frame that is `a` ahead of frame f. *)
LEMMA NearbySum ==
    ASSUME NEW N, NEW k, NEW hi, NEW lo, NEW loss, NEW hi2, NEW loss2,
           Change(N, k, hi, lo, loss, hi2, loss2),
           NEW f \in N, NEW a \in Int, a = k - f, a >= -1,
           NEW t \in Nat, NEW miss \in Nat, Enough(miss, t, loss), NEW x, Follows(miss, a, x)
    PROVE  Enough(x, t, loss2)
  <1>1. /\ k \in Nat /\ hi \in Nat /\ lo \in Nat /\ loss \in Int /\ loss2 \in Int
        /\ f \in Nat /\ f <= hi /\ lo <= f
    BY DEF Change
  <1>2. x \in Int /\ x >= miss /\ (a >= 0 => x >= miss + (a - 1))
    BY DEF larger, Follows
  <1>2a. miss >= t + loss
    BY DEF Enough
  <1>3. CASE k > hi
    <2>1. loss2 = loss + (k - hi - 1)
      BY <1>3 DEF Change
    <2> QED BY <1>1, <1>2, <1>3, <1>2a, <2>1 DEF Enough
  <1>4. CASE k < lo
    <2>1. loss2 = loss + (lo - k - 1)
      BY <1>4 DEF Change
    <2> QED BY <1>1, <1>2, <1>4, <1>2a, <2>1 DEF Enough
  <1>5. CASE ~(k > hi \/ k < lo)
    <2>1. loss2 = loss \/ loss2 = loss - 1
      BY <1>5 DEF Change
    <2> QED BY <1>1, <1>2, <1>2a, <2>1 DEF Enough
  <1> QED BY <1>3, <1>4, <1>5

Exact(N, k, hi2, loss2, t, q, m, x, y) ==
    /\ hi2 = k /\ x = t + loss2
    /\ k \in N => y = (q + 1) - m
    /\ k \notin N => y = (q + 1) - (m + 1)

LEMMA ExactSum ==
    ASSUME NEW N, NEW k, NEW hi, NEW lo, NEW loss, NEW hi2, NEW loss2,
           Change(N, k, hi, lo, loss, hi2, loss2),
           NEW a \in Int, a = k - hi, a >= 0, NEW t \in Nat, NEW q \in Nat, NEW m \in Nat,
           NEW x, x = t + loss + larger(a - 1, 0), NEW y, y = q - m + (IF a = 0 THEN 1 ELSE 0)
    PROVE  Exact(N, k, hi2, loss2, t, q, m, x, y)
  <1>1. /\ k \in Nat /\ hi \in Nat /\ lo \in Nat /\ loss \in Int /\ loss2 \in Int
        /\ hi \in N /\ \A z \in N : z \in Nat /\ z <= hi
    BY DEF Change
  <1>2. CASE a = 0
    <2>1. k = hi /\ k \in N
      BY <1>1, <1>2
    <2>2. hi2 = hi /\ loss2 = loss
      BY <2>1 DEF Change
    <2> QED BY <1>1, <1>2, <2>1, <2>2 DEF Exact, larger
  <1>3. CASE a > 0
    <2>1. k > hi /\ k \notin N
      BY <1>1, <1>3
    <2>2. hi2 = k /\ loss2 = loss + (k - hi - 1)
      BY <2>1 DEF Change
    <2> QED BY <1>1, <1>3, <2>1, <2>2 DEF Exact, larger
  <1> QED BY <1>2, <1>3

(* Frame k after frame v: `a` numbers ahead of it, the same or the one before. *)
LEMMA NextFrameBalances ==
    ASSUME NEW l \in Seq(Events(Int)), NEW l2, NEW n, NEW k \in Nat, Logged(l, l2, n, k), Countable(l),
           NEW s, NEW r, HasCounters(s), HasCounters(r), NEW c, NEW v, NEW hi, NEW lo,
           Balanced(s, c, l, v, hi, lo), NEW f \in Nat, f = l[v].frame,
           NEW a \in Int, a = k - f, a >= -1, CountedAs(s, a, r),
           NEW c2, c2 = CounterOf(k)
    PROVE  \E hi2, lo2 \in NumbersOf(l2) : Balanced(r, c2, l2, n, hi2, lo2)
  <1>1. NumbersOf(l) \subseteq Nat /\ NumbersOf(l2) = NumbersOf(l) \cup {k} /\ l2[n].frame = k
    BY LogTypes DEF Logged
  <1>2. f = l[v].frame
    OBVIOUS
  <1>3. /\ IsTop(v, ArrivalsOf(l)) /\ IsTop(hi, NumbersOf(l)) /\ IsBottom(lo, NumbersOf(l))
        /\ f \in NumbersOf(l)
    BY <1>2, LogTypes DEF Balanced, IsTop
  <1>4. f \in Nat /\ hi \in Nat /\ lo \in Nat /\ lo <= f /\ f <= hi /\ hi \in NumbersOf(l)
    BY <1>1, <1>3 DEF IsTop, IsBottom
  <1>5. Tallied(l, l2, k)
    BY FrameTallied
  <1>6. PICK hi2, lo2 : Grown(l, l2, k, hi, lo, hi2, lo2)
    BY <1>1, <1>3, <1>4, <1>5, LossGrows
  <1>7. PICK loss \in Int, loss2 \in Int : loss = LossOf(l, hi, lo) /\ loss2 = LossOf(l2, hi2, lo2)
    BY <1>6 DEF Grown
  <1>7a. Change(NumbersOf(l), k, hi, lo, loss, hi2, loss2)
    <2>1. \A x \in NumbersOf(l) : x \in Nat /\ x <= hi /\ lo <= x
      BY <1>1, <1>3 DEF IsTop, IsBottom
    <2> QED BY <1>4, <1>6, <1>7, <2>1 DEF Grown, Change
  <1>8. PICK t \in Nat, q \in Nat, m \in Nat :
          /\ t = Cardinality(SilencesOf(l)) /\ q = Cardinality(ArrivalsOf(l)) /\ m = Cardinality(NumbersOf(l))
    BY <1>5 DEF Tallied
  <1>9. /\ Cardinality(SilencesOf(l2)) = t /\ Cardinality(ArrivalsOf(l2)) = q + 1
        /\ k \in NumbersOf(l) => Cardinality(NumbersOf(l2)) = m
        /\ k \notin NumbersOf(l) => Cardinality(NumbersOf(l2)) = m + 1
    BY <1>5, <1>8 DEF Tallied
  <1>10. /\ InOrderOf(l2) => InOrderOf(l) /\ a >= 0 /\ a * Step <= Modulus \div 2
         /\ NearbyOf(l2) => NearbyOf(l) /\ abs_diff(a, 0) * Step < Modulus \div 2
    BY <1>3, OneMoreSuccessive
  <1>11. IsTop(n, ArrivalsOf(l2))
    <2>1. ArrivalsOf(l) \subseteq Int
      BY LogTypes
    <2> QED BY <2>1 DEF IsTop, Logged
  <1>12. PICK miss \in Nat, dup \in Nat, late \in Nat :
           miss = s.frames_missed /\ dup = s.frames_duplicate /\ late = s.frames_out_of_order
    BY DEF HasCounters
  <1>13. ASSUME InOrderOf(l2)
         PROVE  /\ l2[n].frame = hi2
                /\ r.frames_missed = t + loss2
                /\ r.frames_duplicate = Cardinality(ArrivalsOf(l2)) - Cardinality(NumbersOf(l2))
                /\ r.frames_out_of_order = 0
    <2>1. InOrderOf(l) /\ a >= 0 /\ a * Step <= Modulus \div 2
      BY <1>10, <1>13
    <2>2. f = hi /\ miss = t + loss /\ dup = q - m /\ late = 0
      BY <1>2, <1>7, <1>8, <1>12, <2>1 DEF Balanced
    <2>3. PICK x, y : x = r.frames_missed /\ y = r.frames_duplicate
      OBVIOUS
    <2>4. /\ x = t + loss + larger(a - 1, 0)
          /\ y = q - m + (IF a = 0 THEN 1 ELSE 0)
          /\ r.frames_out_of_order = 0
      BY <1>12, <2>1, <2>2, <2>3 DEF CountedAs
    <2>5. Exact(NumbersOf(l), k, hi2, loss2, t, q, m, x, y)
      BY <1>7a, <2>1, <2>2, <2>4, ExactSum
    <2> QED BY <1>1, <1>9, <2>3, <2>4, <2>5 DEF Exact
  <1>14. ASSUME NearbyOf(l2) PROVE r.frames_missed >= t + loss2
    <2>1. NearbyOf(l) /\ abs_diff(a, 0) * Step < Modulus \div 2
      BY <1>10, <1>14
    <2>2. miss >= t + loss
      BY <1>7, <1>8, <1>12, <2>1 DEF Balanced
    <2>3. PICK x : x = r.frames_missed
      OBVIOUS
    <2>4. PICK half : half = Modulus \div 2
      OBVIOUS
    <2>5. Step \in Int /\ half \in Int
      BY <2>4, RxAssumption
    <2>6. ASSUME a = -1 PROVE x = miss
      <3>1. abs_diff(a, 0) = 1
        BY <2>6 DEF abs_diff
      <3>2. Step < half
        BY <2>1, <2>4, <2>5, <3>1
      <3> QED BY <1>12, <2>3, <2>4, <2>6, <3>2 DEF CountedAs
    <2>7. ASSUME a >= 0 PROVE x = miss + larger(a - 1, 0)
      <3>1. abs_diff(a, 0) = a
        BY <2>7 DEF abs_diff
      <3>2. PICK z \in Int : z = a * Step
        BY <2>5
      <3>3. z < half
        BY <2>1, <2>4, <3>1, <3>2
      <3>4. a * Step <= Modulus \div 2
        BY <2>4, <2>5, <3>2, <3>3
      <3> QED BY <1>12, <2>3, <2>7, <3>4 DEF CountedAs
    <2>8. Follows(miss, a, x) /\ Enough(miss, t, loss)
      BY <2>2, <2>6, <2>7 DEF Follows, Enough
    <2>9. Enough(x, t, loss2)
      BY <1>3, <1>7a, <2>8, NearbySum
    <2> QED BY <2>3, <2>9 DEF Enough
  <1>15. Balanced(r, c2, l2, n, hi2, lo2)
    BY <1>1, <1>6, <1>7, <1>9, <1>11, <1>13, <1>14 DEF Balanced, Grown
  <1> QED BY <1>6, <1>15 DEF Grown

-----------------------------------------------------------------------------
(* The steps *)

(* Everything but the cycle counter leaves the counters alone. *)
LEMMA AcceptKeepsCounters ==
    ASSUME NEW s, NEW t, NEW r, r = accept(s, t), HasCounters(s), s.interval_disturbed \in BOOLEAN
    PROVE  SameCounters(r, s)
  <1>1. PICK top, jit, cnt : /\ top = larger(s.max_rx_interval, t - s.last_accepted_time)
                             /\ jit = larger(s.max_rx_jitter, abs_diff(t - s.last_accepted_time, Cycle))
                             /\ cnt = s.rx_interval_count + 1
    OBVIOUS
  <1>2. PICK m, st : /\ m = [s EXCEPT !.max_rx_interval = larger(@, t - s.last_accepted_time)]
                     /\ st = [m EXCEPT !.max_rx_jitter = larger(@, abs_diff(t - s.last_accepted_time, Cycle)),
                                       !.rx_interval_count = @ + 1]
    OBVIOUS
  <1>3. SameCounters(m, s)
    BY <1>2 DEF SameCounters, HasCounters
  <1>4. SameCounters(st, m)
    BY <1>2, <1>3 DEF SameCounters, HasCounters
  <1>5. PICK b : /\ b = s \/ b = m \/ b = st
                 /\ r = [b EXCEPT !.last_accepted_time = t, !.last_receive_time = t,
                                  !.interval_disturbed = FALSE]
    <2>1. r = [(CASE s.last_accepted_time = Never -> s
                  [] s.last_accepted_time # Never /\ s.interval_disturbed -> m
                  [] s.last_accepted_time # Never /\ ~s.interval_disturbed -> st)
                EXCEPT !.last_accepted_time = t, !.last_receive_time = t, !.interval_disturbed = FALSE]
      BY <1>2 DEF accept
    <2> QED BY <2>1
  <1>6. SameCounters(b, s) /\ HasCounters(b)
    BY <1>3, <1>4, <1>5 DEF SameCounters, HasCounters
  <1>7. SameCounters(r, b)
    BY <1>5, <1>6 DEF SameCounters, HasCounters
  <1> QED BY <1>6, <1>7 DEF SameCounters

LEMMA FrameCounts ==
    ASSUME NEW s, HasCounters(s), s.interval_disturbed \in BOOLEAN, NEW valid \in BOOLEAN, NEW t,
           NEW counted, counted = [s EXCEPT !.frames_received = @ + 1],
           NEW timed, timed = IF valid THEN accept(counted, t)
                              ELSE [counted EXCEPT !.interval_disturbed = TRUE],
           NEW prev, NEW rx, NEW tracked, tracked = track_cycle_counter(timed, prev, rx),
           NEW r, r = IF valid THEN tracked ELSE [tracked EXCEPT !.frames_invalid = @ + 1]
    PROVE  SameCounters(timed, s) /\ (HasCounters(tracked) => SameCounters(r, tracked))
  <1>1. SameCounters(counted, s) /\ HasCounters(counted)
    BY DEF SameCounters, HasCounters
  <1>2. counted.interval_disturbed \in BOOLEAN
    OBVIOUS
  <1>3. SameCounters(timed, counted)
    <2>1. CASE valid
      BY <1>1, <1>2, <2>1, AcceptKeepsCounters
    <2>2. CASE ~valid
      BY <1>1, <2>2 DEF SameCounters, HasCounters
    <2> QED BY <2>1, <2>2
  <1>4. HasCounters(tracked) => SameCounters(r, tracked)
    <2>1. CASE valid
      BY <2>1 DEF SameCounters
    <2>2. CASE ~valid
      BY <2>2 DEF SameCounters, HasCounters
    <2> QED BY <2>1, <2>2
  <1> QED BY <1>1, <1>3, <1>4 DEF SameCounters

LEMMA SameBalance ==
    ASSUME NEW s, NEW r, SameCounters(r, s), HasCounters(s), NEW c, NEW l, NEW v, NEW hi, NEW lo,
           Balanced(s, c, l, v, hi, lo)
    PROVE  Balanced(r, c, l, v, hi, lo)
  BY DEF SameCounters, Balanced

LEMMA SameHas == ASSUME NEW s, NEW r, SameCounters(r, s), HasCounters(s) PROVE HasCounters(r)
  BY DEF SameCounters, HasCounters

(* One frame k, at most one number behind the last one. *)
LEMMA FrameBooks ==
    ASSUME NEW s, NEW c, NEW l, Books(s, c, l), NEW k \in Nat, NEW e \in Events(Int), e.frame = k,
           NEW l2, l2 = Append(l, e), NEW b, SameCounters(b, s), NEW c2, c2 = CounterOf(k),
           NEW tracked, tracked = track_cycle_counter(b, c, c2),
           NEW r, HasCounters(tracked) => SameCounters(r, tracked),
           \A v : IsTop(v, ArrivalsOf(l)) => k - l[v].frame >= -1
    PROVE  Books(r, c2, l2)
  <1>1. l \in Seq(Events(Int)) /\ HasCounters(s) /\ Countable(l)
    BY DEF Books
  <1>2. l2 \in Seq(Events(Int))
    BY <1>1
  <1>3. PICK n : n = Len(l) + 1
    OBVIOUS
  <1>4. Logged(l, l2, n, k)
    BY <1>1, <1>3, FrameLogged
  <1>5. HasCounters(b)
    BY <1>1, SameHas
  <1>6. n \in ArrivalsOf(l2) /\ Countable(l2)
    <2>1. Tallied(l, l2, k)
      BY <1>1, <1>4, FrameTallied
    <2> QED BY <1>4, <2>1 DEF Logged, Tallied
  <1>7. CASE NoFrameYet(s, c, l)
    <2>1. tracked = b
      BY <1>7 DEF NoFrameYet, track_cycle_counter
    <2>2. SameCounters(r, s)
      BY <1>5, <2>1 DEF SameCounters
    <2>3. /\ Balanced(r, c2, l2, n, k, k) /\ HasCounters(r) /\ Countable(l2)
          /\ n \in ArrivalsOf(l2) /\ k \in NumbersOf(l2)
      BY <1>1, <1>4, <1>7, <2>2, FirstFrameBalances
    <2> QED BY <1>2, <2>3 DEF Books
  <1>8. ASSUME NEW v, NEW hi, NEW lo, Balanced(s, c, l, v, hi, lo) PROVE Books(r, c2, l2)
    <2>1. IsTop(v, ArrivalsOf(l))
      BY <1>8 DEF Balanced
    <2>2. l[v].frame \in Nat
      BY <1>1, <2>1, LogTypes DEF IsTop
    <2>3. PICK f \in Nat : f = l[v].frame
      BY <2>2
    <2>4. PICK a \in Int : a = k - f /\ a >= -1
      BY <2>1, <2>3
    <2>5. c = (f * Step) % Modulus /\ c2 = (k * Step) % Modulus
      BY <1>8, <2>3 DEF Balanced, CounterOf
    <2>6. HasCounters(tracked) /\ CountedAs(b, a, tracked)
      BY <1>5, <2>4, <2>5, TrackAhead
    <2>7. Balanced(b, c, l, v, hi, lo)
      BY <1>1, <1>8, SameBalance
    <2>8. PICK hi2 \in NumbersOf(l2), lo2 \in NumbersOf(l2) : Balanced(tracked, c2, l2, n, hi2, lo2)
      BY <1>1, <1>4, <1>5, <2>3, <2>4, <2>6, <2>7, NextFrameBalances
    <2>9. SameCounters(r, tracked) /\ HasCounters(r)
      BY <2>6, SameHas
    <2>10. Balanced(r, c2, l2, n, hi2, lo2)
      BY <2>6, <2>8, <2>9, SameBalance
    <2> QED BY <1>2, <1>6, <2>9, <2>10 DEF Books
  <1> QED BY <1>7, <1>8 DEF Books

LEMMA TimeoutBooks ==
    ASSUME NEW s, NEW c, NEW l, Books(s, c, l), NEW e \in Events(Int), e.frame = -1,
           NEW l2, l2 = Append(l, e), NEW t, NEW r,
           r = [handle_watchdog_timeout(s) EXCEPT !.last_receive_time = t]
    PROVE  Books(r, c, l2)
  <1>1. l \in Seq(Events(Int)) /\ HasCounters(s) /\ Countable(l)
    BY DEF Books
  <1>2. l2 \in Seq(Events(Int))
    BY <1>1
  <1>3. Waited(l, l2)
    BY <1>1, TimeoutLogged
  <1>4. PICK h : h = handle_watchdog_timeout(s)
    OBVIOUS
  <1>5. /\ DOMAIN h = DOMAIN s /\ h.frames_missed = s.frames_missed + 1
        /\ h.frames_duplicate = s.frames_duplicate /\ h.frames_out_of_order = s.frames_out_of_order
    BY <1>1, <1>4 DEF handle_watchdog_timeout, HasCounters
  <1>6. /\ DOMAIN r = DOMAIN s /\ r.frames_missed = s.frames_missed + 1
        /\ r.frames_duplicate = s.frames_duplicate /\ r.frames_out_of_order = s.frames_out_of_order
    BY <1>1, <1>4, <1>5 DEF HasCounters
  <1>7. HasCounters(r)
    BY <1>1, <1>6 DEF HasCounters
  <1>8. /\ ArrivalsOf(l2) = ArrivalsOf(l) /\ NumbersOf(l2) = NumbersOf(l) /\ Countable(l2)
        /\ Cardinality(SilencesOf(l2)) = Cardinality(SilencesOf(l)) + 1
    BY <1>1, <1>3 DEF Waited, Countable
  <1>9. PICK q \in Nat : q = Cardinality(SilencesOf(l)) /\ q + 1 = Cardinality(SilencesOf(l2))
    <2>1. Cardinality(SilencesOf(l)) \in Nat
      BY <1>1, FS_CardinalityType DEF Countable
    <2> QED BY <1>8, <2>1
  <1>10. PICK m \in Nat : m = s.frames_missed /\ m + 1 = r.frames_missed
    BY <1>1, <1>6 DEF HasCounters
  <1>11. CASE NoFrameYet(s, c, l)
    <2>1. NoFrameYet(r, c, l2)
      BY <1>6, <1>8, <1>9, <1>10, <1>11 DEF NoFrameYet
    <2> QED BY <1>2, <1>7, <1>8, <2>1 DEF Books
  <1>12. ASSUME NEW v \in ArrivalsOf(l), NEW hi \in NumbersOf(l), NEW lo \in NumbersOf(l),
                Balanced(s, c, l, v, hi, lo)
         PROVE  Books(r, c, l2)
    <2>1. l2[v] = l[v] /\ (InOrderOf(l2) <=> InOrderOf(l)) /\ (NearbyOf(l2) <=> NearbyOf(l))
      BY <1>3 DEF Waited
    <2>2. PICK z \in Int : z = LossOf(l, hi, lo) /\ z = LossOf(l2, hi, lo)
      <3>1. NumbersOf(l) \subseteq Nat
        BY <1>1, LogTypes
      <3>2. Cardinality(NumbersOf(l)) \in Nat
        BY <1>1, FS_CardinalityType DEF Countable
      <3> QED BY <1>8, <3>1, <3>2 DEF LossOf
    <2>3. InOrderOf(l) => m = q + z
      BY <1>9, <1>10, <1>12, <2>2 DEF Balanced
    <2>4. NearbyOf(l) => m >= q + z
      BY <1>9, <1>10, <1>12, <2>2 DEF Balanced
    <2>5. InOrderOf(l) => r.frames_missed = Cardinality(SilencesOf(l2)) + LossOf(l2, hi, lo)
      BY <1>9, <1>10, <2>2, <2>3
    <2>6. NearbyOf(l) => r.frames_missed >= Cardinality(SilencesOf(l2)) + LossOf(l2, hi, lo)
      BY <1>9, <1>10, <2>2, <2>4
    <2>7. Balanced(r, c, l2, v, hi, lo)
      BY <1>6, <1>8, <1>12, <2>1, <2>5, <2>6 DEF Balanced
    <2> QED BY <1>2, <1>7, <1>8, <2>7 DEF Books
  <1> QED BY <1>11, <1>12 DEF Books

(* start(): nothing counted yet *)
LEMMA FreshBooks ==
    ASSUME NEW s, NEW t, s = NewStats(t), NEW l, l = <<>>
    PROVE  Books(s, NoCounter, l)
  <1>1. DOMAIN l = {} /\ l \in Seq(Events(Int))
    OBVIOUS
  <1>2. ArrivalsOf(l) = {} /\ SilencesOf(l) = {} /\ NumbersOf(l) = {}
    BY <1>1 DEF ArrivalsOf, SilencesOf, NumbersOf
  <1>3. HasCounters(s) /\ s.frames_missed = 0 /\ s.frames_duplicate = 0 /\ s.frames_out_of_order = 0
    BY DEF HasCounters, NewStats
  <1> QED BY <1>1, <1>2, <1>3, FS_EmptySet DEF Books, Countable, NoFrameYet

LEMMA LossStep == LossInv /\ StatsInv /\ [RxNext]_rxVars => LossInv'
  <1>. SUFFICES ASSUME LossInv, StatsInv, [RxNext]_rxVars PROVE LossInv'
    OBVIOUS
  <1>1. PICK s, c, l, r, c2, l2 : /\ s = stats /\ c = last_rx_cycle_counter /\ l = log
                                  /\ r = stats' /\ c2 = last_rx_cycle_counter' /\ l2 = log'
    OBVIOUS
  <1>2. Books(s, c, l) /\ l \in Seq(Events(Int)) /\ HasCounters(s)
    BY <1>1 DEF LossInv, Books
  <1>3. s.interval_disturbed \in BOOLEAN /\ now \in Nat /\ s.last_receive_time \in Nat
    BY <1>1 DEF StatsInv, CurrentInv
  <1>4. Gaps \subseteq Nat /\ Jumps \subseteq Nat /\ FirstFrame \in Nat /\ Watchdog \in Nat
    BY RxAssumption
  <1>5. CASE Receive
    <2>1. PICK valid \in BOOLEAN, k \in NextFrames :
            /\ process_input_frame(k, valid)
            /\ log' = Append(log, [frame |-> k, valid |-> valid, at |-> now'])
      BY <1>5 DEF Receive
    <2>2. Arrivals = ArrivalsOf(l)
      BY <1>1 DEF Arrivals, ArrivalsOf
    <2>3. k \in Nat
      BY <1>4 DEF NextFrames
    <2>4. ASSUME NEW v, IsTop(v, ArrivalsOf(l)) PROVE k - l[v].frame >= -1
      <3>1. Max(Arrivals) = v /\ v \in Arrivals /\ l[v].frame \in Nat
        <4>1. ArrivalsOf(l) \subseteq Int
          BY <1>2, LogTypes
        <4>2. Max(ArrivalsOf(l)) = v
          BY <2>4, <4>1, MaxIsTop
        <4> QED BY <1>2, <2>2, <2>4, <4>2, LogTypes DEF IsTop
      <3>2. PICK f \in Nat : f = l[v].frame /\ f = last_frame
        BY <1>1, <3>1 DEF last_frame
      <3>3. (\E j \in Jumps : k = f + j) \/ k = f - 1
        BY <3>1, <3>2 DEF NextFrames
      <3>4. k - f >= -1
        BY <1>4, <2>3, <3>3
      <3> QED BY <3>2, <3>4
    <2>5. now' \in Nat
      BY <1>3, <1>4, <1>5 DEF Receive
    <2>6. PICK e, t : e = [frame |-> k, valid |-> valid, at |-> t] /\ t = now'
      OBVIOUS
    <2>7. e \in Events(Int) /\ e.frame = k /\ l2 = Append(l, e)
      BY <1>1, <2>1, <2>3, <2>5, <2>6 DEF Events
    <2>8. PICK counted, timed, tracked :
            /\ counted = [s EXCEPT !.frames_received = @ + 1]
            /\ timed = IF valid THEN accept(counted, t) ELSE [counted EXCEPT !.interval_disturbed = TRUE]
            /\ tracked = track_cycle_counter(timed, c, c2)
            /\ r = IF valid THEN tracked ELSE [tracked EXCEPT !.frames_invalid = @ + 1]
            /\ c2 = CounterOf(k)
      BY <1>1, <2>1, <2>6 DEF process_input_frame, CounterOf
    <2>9. SameCounters(timed, s) /\ (HasCounters(tracked) => SameCounters(r, tracked))
      BY <1>2, <1>3, <2>8, FrameCounts
    <2>10. Books(r, c2, l2)
      BY <1>2, <2>3, <2>4, <2>7, <2>8, <2>9, FrameBooks
    <2> QED BY <1>1, <2>10 DEF LossInv
  <1>6. CASE check_receive_watchdog
    <2>1. now' \in Nat
      BY <1>1, <1>3, <1>4, <1>6 DEF check_receive_watchdog
    <2>2. PICK e, t : e = [frame |-> -1, valid |-> FALSE, at |-> t] /\ t = now'
      OBVIOUS
    <2>3. e \in Events(Int) /\ e.frame = -1 /\ l2 = Append(l, e) /\ c2 = c
      BY <1>1, <1>6, <2>1, <2>2 DEF check_receive_watchdog, Events
    <2>4. r = [handle_watchdog_timeout(s) EXCEPT !.last_receive_time = t]
      BY <1>1, <1>6, <2>2 DEF check_receive_watchdog
    <2>5. Books(r, c, l2)
      BY <1>2, <2>3, <2>4, TimeoutBooks
    <2> QED BY <1>1, <2>3, <2>5 DEF LossInv
  <1>7. CASE Restart
    <2>1. r = NewStats(0) /\ l2 = <<>> /\ c2 = NoCounter
      BY <1>1, <1>7 DEF Restart
    <2>2. Books(r, NoCounter, l2)
      BY <2>1, FreshBooks
    <2> QED BY <1>1, <2>1, <2>2 DEF LossInv
  <1>8. CASE UNCHANGED rxVars
    <2>1. r = s /\ c2 = c /\ l2 = l
      BY <1>1, <1>8 DEF rxVars
    <2> QED BY <1>1, <1>2, <2>1 DEF LossInv
  <1> QED BY <1>5, <1>6, <1>7, <1>8 DEF RxNext

LEMMA LossIsAccounted == LossInv => LossAccounted
  <1>. SUFFICES ASSUME LossInv PROVE LossAccounted
    OBVIOUS
  <1>1. PICK s, c, l : s = stats /\ c = last_rx_cycle_counter /\ l = log
    OBVIOUS
  <1>2. Books(s, c, l) /\ l \in Seq(Events(Int)) /\ HasCounters(s) /\ Countable(l)
    BY <1>1 DEF LossInv, Books
  <1>3. Arrivals = ArrivalsOf(l)
    BY <1>1 DEF Arrivals, ArrivalsOf
  <1>4. Timeouts = Cardinality(SilencesOf(l)) /\ Numbers = NumbersOf(l)
    BY <1>1, <1>3 DEF Timeouts, Numbers, SilencesOf, NumbersOf
  <1>5. Successive = SuccessiveOf(l)
    BY <1>3 DEF Successive, SuccessiveOf
  <1>6. \A p : Ahead(p) = AheadOf(l, p)
    BY <1>1 DEF Ahead, AheadOf
  <1>7. (InOrder <=> InOrderOf(l)) /\ (Nearby <=> NearbyOf(l))
    BY <1>5, <1>6 DEF InOrder, InOrderOf, Nearby, NearbyOf
  <1>8. CASE NoFrameYet(s, c, l)
    <2>1. Numbers = {} /\ Arrivals = {}
      BY <1>3, <1>4, <1>8 DEF NoFrameYet, NumbersOf
    <2>2. Lost = 0 /\ Cardinality(Arrivals) = 0 /\ Cardinality(Numbers) = 0
      BY <2>1, FS_EmptySet DEF Lost
    <2>3. stats.frames_missed \in Nat /\ stats.frames_missed = Timeouts
      BY <1>1, <1>2, <1>4, <1>8 DEF NoFrameYet, HasCounters
    <2>4. stats.frames_duplicate = 0 /\ stats.frames_out_of_order = 0
      BY <1>1, <1>8 DEF NoFrameYet
    <2> QED BY <2>2, <2>3, <2>4 DEF LossAccounted
  <1>9. ASSUME NEW v, NEW hi \in NumbersOf(l), NEW lo, Balanced(s, c, l, v, hi, lo) PROVE LossAccounted
    <2>1. NumbersOf(l) \subseteq Int
      BY <1>2, LogTypes
    <2>2. IsTop(hi, NumbersOf(l)) /\ IsBottom(lo, NumbersOf(l))
      BY <1>9 DEF Balanced
    <2>3. Max(NumbersOf(l)) = hi /\ Min(NumbersOf(l)) = lo
      BY <2>1, <2>2, MaxIsTop, MinIsBottom
    <2>4. Lost = LossOf(l, hi, lo)
      BY <1>4, <1>9, <2>3 DEF Lost, LossOf
    <2> QED BY <1>1, <1>3, <1>4, <1>7, <1>9, <2>4 DEF LossAccounted, Balanced
  <1> QED BY <1>2, <1>8, <1>9 DEF Books

(* However frames are lost, repeated and swapped, for every counter modulus and       *)
(* step: in order, frames_missed and frames_duplicate are exactly what the log says    *)
(* and nothing is reported late, across every wrap of the cycle counter; out of order, *)
(* losses are never under-reported.                                                    *)
THEOREM LossesAreAccounted == RxSpec => []LossAccounted
  <1>1. RxInit => LossInv
    <2>. SUFFICES ASSUME RxInit PROVE LossInv
      OBVIOUS
    <2>1. PICK s, l : s = stats /\ l = log
      OBVIOUS
    <2>2. s = NewStats(0) /\ l = <<>> /\ last_rx_cycle_counter = NoCounter
      BY <2>1 DEF RxInit
    <2>3. Books(s, NoCounter, l)
      BY <2>2, FreshBooks
    <2> QED BY <2>1, <2>2, <2>3 DEF LossInv
  <1> QED BY <1>1, StatsInitial, StatsStep, LossStep, LossIsAccounted, PTL DEF RxSpec
=============================================================================
