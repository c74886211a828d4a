-------------------------------- MODULE Dcp --------------------------------
(***************************************************************************)
(* The layer-2 commands: DCP set, get, discover and the resolution of one  *)
(* station (profinet.rs, pcap.rs, dcp.rs).  A command sends one request    *)
(* and looks at every PROFINET frame of the segment until the answer or    *)
(* its deadline: answers to another controller, late answers to an earlier *)
(* command, repeated answers, its own request, alarms and cyclic data.     *)
(*                                                                         *)
(* How a response's blocks are decoded is in BlockWalk; here a response    *)
(* carries what that yields.                                               *)
(***************************************************************************)
EXTENDS Naturals, Sequences, SequencesExt, FiniteSets

CONSTANTS
  Devices,       \* MAC addresses of the devices
  Names,         \* station names
  Me, Other,     \* the controllers' MAC addresses
  Nothing,       \* no command, no value
  MaxXid         \* bound: requests of both controllers

ASSUME DcpAssumption ==
  /\ Me # Other /\ {Me, Other} \cap Devices = {}
  /\ Nothing \notin Names \cup Devices \cup [mac : Devices, name : Names]
  /\ MaxXid \in Nat

VARIABLES
  cmd,           \* the command under way, Nothing between two
  answer,        \* how the last command ended
  devices,       \* what aggregate_responses made of the frames so far
  net,           \* frames on the segment: each may be received once, again or never
  name,          \* the station name of each device
  xid,           \* the transaction ids used so far
  applied,       \* the requests a device has applied
  heard          \* the answers to this command that were received

dcpVars == <<cmd, answer, devices, net, name, xid, applied, heard>>

-----------------------------------------------------------------------------
(* Frames.  `origin` is not on the wire: the request that a frame answers. *)

Frame(dst, src, id, service, type, x, value, origin) ==
  [dst |-> dst, src |-> src, id |-> id, service |-> service, type |-> type, xid |-> x,
   value |-> value, origin |-> origin]

(* a multicast, as each device receives it *)
identify_all_request(src, x) ==
  {Frame(d, src, "identify_request", "identify", "request", x, Nothing, 0) : d \in Devices}
set_request(src, dst, x, v) == {Frame(dst, src, "get_set", "set", "request", x, v, 0)}
get_request(src, dst, x)    == {Frame(dst, src, "get_set", "get", "request", x, Nothing, 0)}

(* What a device says to a set: done, a block error, or that it has no such     *)
(* service.                                                                     *)
SetReplies == {"ok", "block_error", "unsupported"}

(* mutant: the transaction id is not compared *)
set_code_answer_AnyXid(f, x) ==
  CASE f.id # "get_set" \/ f.service # "set" -> "skip"
    [] f.id = "get_set" /\ f.service = "set" /\ f.type = "unsupported" -> "refused"
    [] f.id = "get_set" /\ f.service = "set" /\ f.type = "success" ->
         IF f.value = "ok" THEN "done" ELSE "refused"
    [] OTHER -> "skip"

(* parse_set_response, "skip" when the frame is not the answer *)
set_code_answer(f, x) ==
  LET ours == f.id = "get_set" /\ f.service = "set" /\ f.xid = x IN
  CASE ours /\ f.type = "unsupported" -> "refused"
    [] ours /\ f.type = "success"     -> IF f.value = "ok" THEN "done" ELSE "refused"
    [] OTHER -> "skip"

(* parse_get_response: an error is skipped like a foreign frame *)
is_get_response(f, x) == f.id = "get_set" /\ f.xid = x /\ f.type = "success"

is_identify_response(f) == f.id = "identify_response" /\ f.type = "success"

(* mutant: every answer is a device of its own *)
aggregate_responses_Append(ds, f, x) ==
  IF f.dst # Me \/ f.xid # x \/ ~is_identify_response(f) THEN ds
  ELSE Append(ds, [mac |-> f.src, name |-> f.value])

(* aggregate_responses for one more frame: one entry per MAC, the later answer  *)
(* in the place of the earlier                                                  *)
aggregate_responses(ds, f, x) ==
  LET at == {i \in DOMAIN ds : ds[i].mac = f.src}
      d  == [mac |-> f.src, name |-> f.value]
  IN CASE f.dst # Me \/ f.xid # x \/ ~is_identify_response(f) -> ds
       [] f.dst = Me /\ f.xid = x /\ is_identify_response(f) ->
            IF at = {} THEN Append(ds, d) ELSE [i \in DOMAIN ds |-> IF i \in at THEN d ELSE ds[i]]

device_matches(d, target) == d.name = target
match_device(ds, target) ==
  IF \E i \in DOMAIN ds : device_matches(ds[i], target)
  THEN ds[CHOOSE i \in DOMAIN ds : /\ device_matches(ds[i], target)
                                   /\ \A j \in 1 .. i - 1 : ~device_matches(ds[j], target)]
  ELSE Nothing

-----------------------------------------------------------------------------
DcpInit ==
  /\ cmd = Nothing
  /\ answer = Nothing
  /\ devices = <<>>
  /\ net = {}
  /\ name \in [Devices -> Names]
  /\ xid = 0
  /\ applied = {}
  /\ heard = {}

(* A command opens its socket, draws a transaction id and sends its request. *)
Begin(kind, target, value, request) ==
  /\ cmd = Nothing
  /\ xid < MaxXid
  /\ xid' = xid + 1
  /\ cmd' = [kind |-> kind, target |-> target, value |-> value, xid |-> xid']
  /\ net' = net \cup request
  /\ devices' = <<>>
  /\ heard' = {}
  /\ UNCHANGED <<answer, name, applied>>

cmd_set_param ==
  \E d \in Devices, n \in Names : Begin("set", d, n, set_request(Me, d, xid + 1, n))
cmd_get_param ==
  \E d \in Devices : Begin("get", d, Nothing, get_request(Me, d, xid + 1))
cmd_discover ==
  Begin("discover", Nothing, Nothing, identify_all_request(Me, xid + 1))
resolve_device ==
  \E n \in Names : Begin("resolve", n, Nothing, identify_all_request(Me, xid + 1))

End(outcome, value) ==
  /\ answer' = [cmd |-> cmd, outcome |-> outcome, value |-> value, heard |-> heard']
  /\ cmd' = Nothing

(* One frame of the capture. *)
Capture(f) ==
  /\ cmd # Nothing
  /\ f \in net
  /\ heard' = heard \cup {g \in {f} : g.origin = cmd.xid}
  /\ UNCHANGED <<net, name, xid, applied>>

(* dcp_set_roundtrip, set_code_answer, report_set *)
dcp_set_roundtrip ==
  \E f \in net :
    /\ Capture(f)
    /\ cmd.kind = "set"
    /\ UNCHANGED devices
    /\ IF f.dst # Me \/ set_code_answer(f, cmd.xid) = "skip"
       THEN UNCHANGED <<cmd, answer>>
       ELSE End(set_code_answer(f, cmd.xid), Nothing)

(* the loop of cmd_get_param *)
get_param_loop ==
  \E f \in net :
    /\ Capture(f)
    /\ cmd.kind = "get"
    /\ UNCHANGED devices
    /\ IF f.dst # Me \/ ~is_get_response(f, cmd.xid)
       THEN UNCHANGED <<cmd, answer>>
       ELSE End("done", f.value)

(* discover_until: a resolution ends with the first match *)
discover_until ==
  \E f \in net :
    /\ Capture(f)
    /\ cmd.kind \in {"discover", "resolve"}
    /\ devices' = aggregate_responses(devices, f, cmd.xid)
    /\ IF cmd.kind = "resolve" /\ match_device(devices', cmd.target) # Nothing
       THEN End("done", match_device(devices', cmd.target))
       ELSE UNCHANGED <<cmd, answer>>

(* The deadline: a discovery reports what it has, the others gave up. *)
Deadline ==
  /\ cmd # Nothing
  /\ UNCHANGED <<heard, devices, net, name, xid, applied>>
  /\ IF cmd.kind = "discover" THEN End("done", devices) ELSE End("timeout", Nothing)

-----------------------------------------------------------------------------
(* The segment: devices, another controller, other traffic (external) *)

DeviceSet ==
  \E f \in net : \E reply \in SetReplies :
    /\ f.type = "request" /\ f.service = "set"
    /\ net' = (net \ {f}) \cup
         {Frame(f.src, f.dst, "get_set", "set",
                IF reply = "unsupported" THEN "unsupported" ELSE "success", f.xid, reply, f.xid)}
    /\ name' = IF reply = "ok" THEN [name EXCEPT ![f.dst] = f.value] ELSE name
    /\ applied' = IF reply = "ok" THEN applied \cup {f.xid} ELSE applied
    /\ UNCHANGED <<cmd, answer, devices, xid, heard>>

DeviceGet ==
  \E f \in net :
    /\ f.type = "request" /\ f.service = "get"
    /\ net' = (net \ {f}) \cup
         {Frame(f.src, f.dst, "get_set", "get", "success", f.xid, name[f.dst], f.xid)}
    /\ UNCHANGED <<cmd, answer, devices, name, xid, applied, heard>>

DeviceIdentify ==
  \E f \in net :
    /\ f.type = "request" /\ f.service = "identify"
    /\ net' = (net \ {f}) \cup
         {Frame(f.src, f.dst, "identify_response", "identify", "success", f.xid, name[f.dst], f.xid)}
    /\ UNCHANGED <<cmd, answer, devices, name, xid, applied, heard>>

OtherController ==
  /\ xid < MaxXid
  /\ xid' = xid + 1
  /\ net' \in {net \cup identify_all_request(Other, xid')} \cup
              {net \cup set_request(Other, d, xid', n) : d \in Devices, n \in Names}
  /\ UNCHANGED <<cmd, answer, devices, name, applied, heard>>

(* An alarm whose bytes happen to look like an answer to the command. *)
Alarm ==
  \E d \in Devices :
    /\ cmd # Nothing
    /\ net' = net \cup {Frame(Me, d, "alarm", "set", "success", cmd.xid, "ok", 0)}
    /\ UNCHANGED <<cmd, answer, devices, name, xid, applied, heard>>

DcpNext ==
  \/ cmd_set_param \/ cmd_get_param \/ cmd_discover \/ resolve_device
  \/ dcp_set_roundtrip \/ get_param_loop \/ discover_until \/ Deadline
  \/ DeviceSet \/ DeviceGet \/ DeviceIdentify \/ OtherController \/ Alarm

DcpSpec == DcpInit /\ [][DcpNext]_dcpVars

-----------------------------------------------------------------------------
(* Properties *)

Ended(kinds) == answer # Nothing /\ answer.cmd.kind \in kinds

(* A set that reports success was applied by its device, one that reports a     *)
(* refusal was not, and a value that was read is what the addressed device said *)
(* about this very request: no alarm, no answer to another controller and no    *)
(* late answer to an earlier command is taken for it.                           *)
AnswerIsOurs ==
  /\ Ended({"set"}) /\ answer.outcome = "done" => answer.cmd.xid \in applied
  /\ Ended({"set"}) /\ answer.outcome = "refused" => answer.cmd.xid \notin applied
  /\ Ended({"get"}) /\ answer.outcome = "done" =>
       \E f \in answer.heard : f.src = answer.cmd.target /\ f.value = answer.value

(* A discovery lists exactly the devices that answered it before the deadline,  *)
(* each once and as it described itself; a resolution returns a device that     *)
(* answered and has the name, and gives up only if no such answer came.         *)
DiscoveryExact ==
  LET said == {[mac |-> f.src, name |-> f.value] : f \in answer.heard}
  IN /\ Ended({"discover"}) => /\ Range(answer.value) = said
                               /\ Len(answer.value) = Cardinality({d.mac : d \in said})
     /\ Ended({"resolve"}) =>
          IF answer.outcome = "done"
          THEN answer.value \in said /\ answer.value.name = answer.cmd.target
          ELSE \A d \in said : d.name # answer.cmd.target
=============================================================================
