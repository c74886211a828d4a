------------------------------- MODULE Takeover -------------------------------
(***************************************************************************)
(* The users of RpcConn and CyclicController: the record commands, the     *)
(* `cyclic` command and start_cyclic_tier of `serve --cyclic` in           *)
(* profinet.rs, and the library facade ProfinetDevice of device.rs.  One   *)
(* run of one of them, with a device that another controller may take and  *)
(* command at any time.  A call of RpcConn is one step here (RpcSession    *)
(* has its inside), and so are start() and stop() of the controller        *)
(* (CyclicController).  ARs are numbered by the connection that asked for  *)
(* them.                                                                   *)
(***************************************************************************)
EXTENDS IoLayout

CONSTANTS
  Topologies,          \* what slots the device may report
  Gsdmls,              \* which GSDMLs the caller may pass
  Fittings,            \* what else may be plugged in a device fitted as its GSDML says
  MaxConns,            \* bound: connections the facade opens
  PACED_READ_RETRIES   \* attempts of paced_read

ASSUME TakeoverAssumption ==
  /\ MaxConns \in Nat \ {0, 1}
  /\ PACED_READ_RETRIES \in Nat \ {0}
  /\ \A t \in Topologies : \A i, k \in DOMAIN t :
       i # k => <<t[i].slot, t[i].subslot>> # <<t[k].slot, t[k].subslot>>

(* What a GSDML makes of the slots of a device, fitted as it says or otherwise *)
Matches(exclusion) ==
  UNION {{apply_zero_io_exclusion(build_io_slots_from_device(g, t), exclusion) :
            t \in Topologies \union
                    {build_io_slots(g, fixed_slots(g), fitted) : fitted \in Fittings}} :
         g \in Gsdmls}

(* The IoSlots of the code have lengths of an unsigned type. *)
ASSUME MatchAssumption == \A x \in BOOLEAN : Matches(x) \subseteq Seq(IoSlots)

VARIABLES
  cmd,        \* "none", "record" (or serve without --cyclic), "cyclic", "serve",
              \* "command" (serve with an allow mask), "facade"
  exclude,    \* --exclude-zero-io-submodules
  pc,         \* where it is
  conn,       \* the RpcConn: its number, 0 for none, and its `connected` flag
  ars,        \* the device: the ARs it holds for us
  orphans,    \* history: ARs whose grant or release was lost on the way
  owner,      \* who holds the device's IO AR: 0, our AR, or OtherController
  output,     \* what of the device's output is driven: its gate byte, the rest, or both
  cyclic,     \* the CyclicController: "none", "new", "sending"
  io_slots,   \* the slots of the IO AR
  attempt,    \* attempts of paced_read so far
              \* history of a process that means to command:
  seized,     \* what was driven when the IO AR was granted
  since       \* has another controller been there since the probe?

vars == <<cmd, exclude, pc, conn, ars, orphans, owner, output, cyclic, io_slots, attempt, seized, since>>

OtherController == -1   \* another controller

(* The gate byte is the first byte of the first submodule with outputs, the   *)
(* one byte the ownership gate judges; the rest is every other output byte.    *)
OutputParts == {"gate", "rest"}

cli     == <<cmd, exclude>>
device  == <<ars, orphans, owner, output>>
history == <<seized, since>>

Init ==
  /\ cmd \in {"none", "facade"}
  /\ exclude = FALSE
  /\ pc = IF cmd = "facade" THEN "ready" ELSE "run"
  /\ conn = [id |-> 0, connected |-> FALSE]
  /\ ars = {}
  /\ orphans = {}
  /\ owner \in {0, OtherController}
  /\ output \in SUBSET OutputParts
  /\ cyclic = "none"
  /\ io_slots = <<>>
  /\ attempt = 0
  /\ seized = {}
  /\ since = FALSE

Goto(p) == pc' = p

-----------------------------------------------------------------------------
(* RpcConn's connect and release, and the drops at the end of a scope *)

(* A connect is granted, refused, or granted with the answer lost or the      *)
(* submodules withheld: then `connected` stays false.                          *)
Connects(isIo, ok, failed) ==
  LET id == conn.id + 1 IN
  \/ /\ conn' = [id |-> id, connected |-> TRUE]
     /\ ars' = ars \union {id}
     /\ Goto(ok)
     /\ UNCHANGED orphans
     /\ owner' = IF isIo THEN id ELSE owner
     /\ seized' = IF isIo /\ cmd = "command" THEN output ELSE seized
  \/ /\ conn' = [id |-> id, connected |-> FALSE]
     /\ Goto(failed)
     /\ UNCHANGED <<owner, seized>>
     /\ \/ UNCHANGED <<ars, orphans>>
        \/ ars' = ars \union {id} /\ orphans' = orphans \union {id}

(* release: one datagram when connected, no answer awaited *)
release ==
  IF conn.connected
  THEN /\ conn' = [conn EXCEPT !.connected = FALSE]
       /\ \/ /\ ars' = ars \ {conn.id}
             /\ owner' = IF owner = conn.id THEN 0 ELSE owner
             /\ UNCHANGED orphans
          \/ orphans' = orphans \union ({conn.id} \intersect ars) /\ UNCHANGED <<ars, owner>>
  ELSE UNCHANGED <<conn, ars, orphans, owner>>

(* Every way out, by `?`, by an explicit stop and release or at the end: the   *)
(* controller goes first, because it is declared after the connection.         *)
DropCyclic ==
  /\ pc = "unwind"
  /\ cyclic # "none"
  /\ cyclic' = "none"
  /\ UNCHANGED <<cli, pc, conn, device, io_slots, attempt, history>>

(* mutant: the connection is dropped first *)
DropConn_First ==
  /\ pc = "unwind"
  /\ conn.connected \/ cyclic = "none"
  /\ release
  /\ Goto(IF cyclic = "none" THEN "done" ELSE "unwind")
  /\ UNCHANGED <<cli, output, cyclic, io_slots, attempt, history>>

DropConn ==
  /\ pc = "unwind"
  /\ cyclic = "none"
  /\ release
  /\ Goto("done")
  /\ UNCHANGED <<cli, output, cyclic, io_slots, attempt, history>>

-----------------------------------------------------------------------------
(* The commands *)

(* What `serve` becomes: an option that only means something with --cyclic is  *)
(* refused without it, --cyclic needs a GSDML, and arming a bit needs the      *)
(* confirmation; read-only serves with no bit armed.                           *)
serve_command(opts) ==
  CASE ~opts.cyclic /\ (opts.mask \/ opts.exclude)                   -> "none"
    [] opts.cyclic /\ (~opts.gsdml \/ (opts.mask /\ ~opts.bench))    -> "none"
    [] ~opts.cyclic /\ ~opts.mask /\ ~opts.exclude                   -> "record"
    [] OTHER -> IF opts.mask /\ ~opts.read_only THEN "command" ELSE "serve"

(* Dispatch: arguments that are refused and commands that need no AR (proto,   *)
(* capture-check and the DCP commands, see Dcp) are over at once.              *)
run ==
  /\ pc = "run"
  /\ \E opts \in [{"cyclic", "mask", "exclude", "gsdml", "bench", "read_only"} -> BOOLEAN] :
       /\ cmd' \in {"none", "record", "cyclic", serve_command(opts)}
       /\ exclude' = (opts.exclude /\ cmd' \in {"cyclic", "serve", "command"})
  /\ Goto(IF cmd' = "none" THEN "done" ELSE "connect")
  /\ UNCHANGED <<conn, device, cyclic, io_slots, attempt, history>>

(* get_mac, resolve_device, source_address and new_raw may fail before the     *)
(* device is asked for an AR.                                                  *)
rpc_connect ==
  /\ pc = "connect"
  /\ \/ Goto("unwind") /\ UNCHANGED <<conn, device, history>>
     \/ /\ Connects(FALSE, IF cmd = "record" THEN "record" ELSE "discover", "unwind")
        /\ UNCHANGED <<output, since>>
  /\ UNCHANGED <<cli, cyclic, io_slots, attempt>>

(* cmd_read, cmd_write, cmd_read_inm0_filter, cmd_read_inm: one call, whatever *)
(* it returns *)
cmd_record ==
  /\ pc = "record"
  /\ Goto("unwind")
  /\ UNCHANGED <<cli, conn, device, cyclic, io_slots, attempt, history>>

(* discover_slots, load_gsdml and the match, any of which may fail.  The       *)
(* device is fitted as the GSDML says, or otherwise.                           *)
MatchSlots ==
  /\ pc = "discover"
  /\ \/ Goto("unwind") /\ UNCHANGED io_slots
     \/ io_slots' \in Matches(exclude) /\ Goto(IF cmd = "cyclic" THEN "rebind" ELSE "preflight")
  /\ UNCHANGED <<cli, conn, device, cyclic, attempt, history>>

HasInput  == \E s \in Range(io_slots) : s.input > 0
HasOutput == \E s \in Range(io_slots) : s.output > 0

(* BUSY is tried again, up to PACED_READ_RETRIES attempts. *)
paced_read ==
  /\ attempt + 1 < PACED_READ_RETRIES
  /\ attempt' = attempt + 1
  /\ UNCHANGED pc

(* The first submodule with inputs is read under paced_read: another error, a  *)
(* record that does not parse or a length that is not the declared one ends    *)
(* the command.                                                                *)
PreFlight ==
  /\ pc = "preflight"
  /\ \/ HasInput /\ Goto(IF cmd = "command" THEN "probe" ELSE "rebind") /\ attempt' = 0
     \/ HasInput /\ paced_read
     \/ Goto("unwind") /\ attempt' = 0
  /\ UNCHANGED <<cli, conn, device, cyclic, io_slots, history>>

(* mutant: a probe that cannot be read does not refuse *)
output_is_safe_OrUnknown(byte) == byte # "driven"
output_is_safe(byte) == byte = "safe"

(* parse_output_control_byte on the record of the first submodule with         *)
(* outputs: its first data byte, and nothing behind it.  Without such a        *)
(* submodule the record has no data.                                           *)
parse_output_control_byte ==
  CASE ~HasOutput         -> "unparsed"
    [] "gate" \in output  -> "driven"
    [] OTHER              -> "safe"

(* The ownership gate, only when this process means to command *)
Probe ==
  /\ pc = "probe"
  /\ \E byte \in {parse_output_control_byte, "unparsed", "error"} :
       /\ Goto(IF output_is_safe(byte) THEN "rebind" ELSE "unwind")
       /\ since' = FALSE
  /\ UNCHANGED <<cli, conn, device, cyclic, io_slots, attempt, seized>>

Rebind ==
  /\ pc = "rebind"
  /\ release
  /\ Goto("gap")
  /\ UNCHANGED <<cli, output, cyclic, io_slots, attempt, history>>

(* after the half second: resolve again, a new connection, Connect with the    *)
(* IOCRs *)
ConnectIo ==
  /\ pc = "gap"
  /\ \/ Goto("unwind") /\ UNCHANGED <<conn, device, history>>
     \/ Connects(TRUE, "granted", "unwind") /\ UNCHANGED <<output, since>>
  /\ UNCHANGED <<cli, cyclic, io_slots, attempt>>

(* no IOCR, no usable frame id, or no controller for the interface *)
NewController ==
  /\ pc = "granted"
  /\ \/ Goto("unwind") /\ UNCHANGED cyclic
     \/ Goto("start") /\ cyclic' = "new"
  /\ UNCHANGED <<cli, conn, device, io_slots, attempt, history>>

(* start() may fail before or after its TX thread runs. *)
StartCyclic ==
  /\ pc = "start"
  /\ \/ Goto("prm") /\ cyclic' = "sending"
     \/ Goto("unwind") /\ cyclic' \in {"new", "sending"}
  /\ UNCHANGED <<cli, conn, device, io_slots, attempt, history>>

(* prm_end and application_ready, with the output already flowing *)
Parametrise ==
  /\ pc = "prm"
  /\ pc' \in {"running", "unwind"}
  /\ UNCHANGED <<cli, conn, device, cyclic, io_slots, attempt, history>>

(* `cyclic` until its duration is over, `serve` until its loop ends (see       *)
(* ServeControl) *)
Finish ==
  /\ pc = "running"
  /\ Goto("unwind")
  /\ UNCHANGED <<cli, conn, device, cyclic, io_slots, attempt, history>>

(* A signal ends the process where it is, unless `serve` commands outputs.     *)
Kill ==
  /\ cmd # "command"
  /\ pc \notin {"done", "killed"}
  /\ Goto("killed")
  /\ cyclic' = "none"
  /\ UNCHANGED <<cli, conn, device, io_slots, attempt, history>>

-----------------------------------------------------------------------------
(* ProfinetDevice *)

(* The first operation connects; a read whose connect fails goes on without an *)
(* AR, everything else returns the error.  Once connected the operations use   *)
(* the AR and none of them looks whether the device still has it.              *)
ensure_connected ==
  /\ pc = "ready"
  /\ ~conn.connected
  /\ conn.id < MaxConns
  /\ Connects(FALSE, "ready", "ready")
  /\ UNCHANGED <<cli, output, cyclic, io_slots, attempt, since>>

disconnect ==
  /\ pc = "ready"
  /\ release
  /\ pc' \in {"ready", "done"}
  /\ UNCHANGED <<cli, output, cyclic, io_slots, attempt, history>>

-----------------------------------------------------------------------------
(* The device and the other controller *)

(* An AR whose partner is silent lapses. *)
DevExpires ==
  /\ \E id \in ars :
       /\ cyclic = "sending" => id # conn.id
       /\ ars' = ars \ {id}
       /\ owner' = IF owner = id THEN 0 ELSE owner
  /\ UNCHANGED <<cli, pc, conn, orphans, output, cyclic, io_slots, attempt, history>>

(* The controller starts with the zero image. *)
DevApplies ==
  /\ cyclic = "sending"
  /\ owner = conn.id
  /\ output' = {}
  /\ UNCHANGED <<cli, pc, conn, ars, orphans, owner, cyclic, io_slots, attempt, history>>

(* Another controller claims the IO AR, commands, or leaves. *)
Other ==
  /\ owner \in {0, OtherController}
  /\ owner' \in {0, OtherController}
  /\ output' \in SUBSET OutputParts
  /\ since' = (cmd = "command")
  /\ UNCHANGED <<cli, pc, conn, ars, orphans, cyclic, io_slots, attempt, seized>>

Command ==
  \/ run \/ rpc_connect \/ cmd_record \/ MatchSlots \/ PreFlight \/ Probe \/ Rebind
  \/ ConnectIo \/ NewController \/ StartCyclic \/ Parametrise \/ Finish
  \/ DropCyclic \/ DropConn

Facade == ensure_connected \/ disconnect

Next == Command \/ Facade \/ Kill \/ DevExpires \/ DevApplies \/ Other

Spec == Init /\ [][Next]_vars

-----------------------------------------------------------------------------
(* Properties *)

(* No exit path leaves an AR or a sending thread behind, and none sends frames *)
(* outside an AR: the device holds at most the AR of the current connection,   *)
(* plus those whose Connect answer or Release the network lost; the cyclic     *)
(* threads end before the AR is released; after the last drop nothing is left. *)
NothingLeft ==
  /\ ars \ orphans \subseteq {conn.id}
  /\ cyclic = "sending" => conn.connected
  /\ pc = "done" => cyclic = "none" /\ ars \subseteq orphans

(* What the ownership gate promises: a process that means to command gets the  *)
(* IO AR of a device whose gate byte is driven only if another controller came *)
(* in after the probe read it as safe.  The gate promises nothing of the other *)
(* output bytes: a device driven only there is taken over at once.             *)
TakenFromSafe ==
  cmd = "command" /\ conn.id # 0 /\ owner = conn.id /\ "gate" \in seized => since

(* From the Connect on, the controller and the device mean the same frames,    *)
(* and no submodule's bytes overlap another's, for every topology, GSDML and   *)
(* exclusion choice whose image fits the Connect's 16-bit fields.              *)
LayoutAgrees ==
  cyclic # "none" =>
    LET used == build_iocr_configs(io_slots) IN
    Fits(used) => /\ SameFrames(build_connect_request(io_slots), used)
                  /\ Separate(used.input)
                  /\ Separate(used.output)
=============================================================================
