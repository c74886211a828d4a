--------------------------- MODULE ServeRequests ---------------------------
(***************************************************************************)
(* `serve` without --cyclic (profinet.rs): requests come in on stdin, one  *)
(* line each, a reader thread queues them, and the main loop answers them  *)
(* over one AR until a quit, a signal, the end of stdin or the loss of the *)
(* AR.  Lines are numbered by their position; the id of a request is that  *)
(* number.                                                                 *)
(***************************************************************************)
EXTENDS Naturals, Sequences, SequencesExt, FiniteSets

CONSTANTS
  Cmds,                \* bound: the cmd fields the caller may write
  MaxLines,            \* bound: lines on stdin
  Sizes,               \* bound: the sizes of lines in bytes, newline included
  MAX_STDIN_LINE,      \* bytes read_bounded_line takes at a time
  SERVE_BUSY_RETRIES   \* attempts before BUSY is reported

ASSUME ServeRequestsAssumption ==
  /\ Cmds \subseteq {"read", "write", "ping", "quit", "set_level", "unknown"}
  /\ {MAX_STDIN_LINE, SERVE_BUSY_RETRIES} \subseteq Nat \ {0}
  /\ MaxLines \in Nat /\ Sizes \subseteq Nat \ {0}

VARIABLES
  read_only,     \* was --read-only given?
  stdin,         \* the lines the caller writes, see Lines
  line,          \* the line the reader is in
  rest,          \* what of it is still unread, newline included
  skipping,      \* the reader drops the rest of an over-long line
  reading,       \* is the reader thread alive?
  queue,         \* the channel to the main loop: line numbers, 0 for a fragment
  pc,            \* the main loop: "loop", "rpc", "stopping", "exited"
  request,       \* the request under way, 0 for the keepalive read
  attempt,       \* its attempts so far
  taken,         \* the lines the main loop has taken from the queue
  lines,         \* what was emitted: <<line number, answer>>
  executed,      \* the device: how often it carried out each request
  ar,            \* the AR: "up" or "released"
  stop,          \* why the loop ended
  SHUTDOWN       \* a signal has come

vars == <<read_only, stdin, line, rest, skipping, reading, queue, pc, request, attempt, taken,
          lines, executed, ar, stop, SHUTDOWN>>

readerVars == <<line, rest, skipping, reading>>
rpcVars    == <<request, attempt>>
input      == <<read_only, stdin>>

Overlong(n) == stdin[n].size > MAX_STDIN_LINE

(* A line has a cmd, an id or not, and the fields its cmd needs or not.  The    *)
(* cases the parser does not tell apart, and the over-long lines, have one      *)
(* representative each.                                                         *)
Lines ==
  {l \in [cmd : Cmds, id : BOOLEAN, complete : BOOLEAN, size : Sizes] :
     /\ l.id \/ l.complete
     /\ l.cmd \in {"ping", "quit", "unknown"} => l.complete
     /\ l.cmd \in {"set_level", "unknown"} => l.id
     /\ l.size > MAX_STDIN_LINE => l.cmd = "write" /\ l.id /\ l.complete}

(* `quit` is in both vocabularies and its id decides; a control command is      *)
(* judged by its own fields; everything else is a request and needs an id.      *)
parse_serve_line(n) ==
  LET l == stdin[n] IN
  CASE l.cmd = "quit" /\ ~l.id -> "bare_quit"
    [] l.cmd = "set_level" -> IF l.complete THEN "control" ELSE "malformed"
    [] OTHER -> IF l.id /\ l.complete /\ l.cmd # "unknown" THEN l.cmd ELSE "malformed"

-----------------------------------------------------------------------------
Init ==
  /\ read_only \in BOOLEAN
  /\ \E n \in 0 .. MaxLines : stdin \in [1..n -> Lines]
  /\ line = 1
  /\ rest = 0
  /\ skipping = FALSE
  /\ reading = TRUE
  /\ queue = <<>>
  /\ pc = "loop"
  /\ request = 0
  /\ attempt = 0
  /\ taken = <<>>
  /\ lines = <<>>
  /\ executed = [n \in DOMAIN stdin |-> 0]
  /\ ar = "up"
  /\ stop = "none"
  /\ SHUTDOWN = FALSE

emit(n, what) == lines' = Append(lines, <<n, what>>)

-----------------------------------------------------------------------------
(* The reader thread: read_bounded_line, one chunk of at most MAX_STDIN_LINE    *)
(* bytes a step                                                                 *)

(* mutant: the rest of an over-long line is taken for a line of its own *)
ReadChunk_Smuggles ==
  LET left == IF rest = 0 THEN stdin[line].size ELSE rest
      ends == left <= MAX_STDIN_LINE
  IN /\ reading
     /\ pc # "exited"
     /\ line <= Len(stdin)
     /\ rest' = IF ends THEN 0 ELSE left - MAX_STDIN_LINE
     /\ line' = IF ends THEN line + 1 ELSE line
     /\ skipping' = ~ends
     /\ queue' = IF ends THEN Append(queue, line) ELSE queue
     /\ IF ends /\ skipping THEN emit(line, "too_long") ELSE UNCHANGED lines
     /\ UNCHANGED <<reading, input, pc, rpcVars, taken, executed, ar, stop, SHUTDOWN>>

ReadChunk ==
  LET left == IF rest = 0 THEN stdin[line].size ELSE rest
      ends == left <= MAX_STDIN_LINE
  IN /\ reading
     /\ pc # "exited"
     /\ line <= Len(stdin)
     /\ rest' = IF ends THEN 0 ELSE left - MAX_STDIN_LINE
     /\ line' = IF ends THEN line + 1 ELSE line
     /\ skipping' = ~ends
     /\ queue' = IF ends /\ ~skipping THEN Append(queue, line) ELSE queue
     /\ IF ends /\ skipping THEN emit(line, "too_long") ELSE UNCHANGED lines
     /\ UNCHANGED <<reading, input, pc, rpcVars, taken, executed, ar, stop, SHUTDOWN>>

ReadEof ==
  /\ reading
  /\ pc # "exited"
  /\ line > Len(stdin)
  /\ reading' = FALSE
  /\ UNCHANGED <<line, rest, skipping, input, queue, pc, rpcVars, taken, lines, executed, ar,
                 stop, SHUTDOWN>>

-----------------------------------------------------------------------------
(* The main loop *)

Stop(reason) == stop' = reason /\ pc' = "stopping"

ServeStops ==
  /\ pc = "loop"
  /\ SHUTDOWN
  /\ Stop("signal")
  /\ UNCHANGED <<readerVars, input, queue, rpcVars, taken, lines, executed, ar, SHUTDOWN>>

(* The lines that need no device *)
LocalAnswer(n) ==
  LET cmd == parse_serve_line(n) IN
  \/ cmd = "malformed" /\ emit(n, "bad_command") /\ UNCHANGED <<pc, stop>>
  \/ cmd = "bare_quit" /\ Stop("quit") /\ UNCHANGED lines
  \/ cmd = "control" /\ emit(n, "needs_cyclic") /\ UNCHANGED <<pc, stop>>
  \/ cmd = "quit" /\ emit(n, "bye") /\ Stop("quit")
  \/ cmd = "ping" /\ emit(n, "pong") /\ UNCHANGED <<pc, stop>>
  \/ cmd = "write" /\ read_only /\ emit(n, "refused_read_only") /\ UNCHANGED <<pc, stop>>

NeedsDevice(n) ==
  parse_serve_line(n) = "read" \/ (parse_serve_line(n) = "write" /\ ~read_only)

ServeLine ==
  /\ pc = "loop"
  /\ ~SHUTDOWN
  /\ queue # <<>>
  /\ queue' = Tail(queue)
  /\ taken' = Append(taken, Head(queue))
  /\ UNCHANGED <<readerVars, input, executed, ar, SHUTDOWN>>
  /\ IF NeedsDevice(Head(queue))
     THEN /\ pc' = "rpc"
          /\ request' = Head(queue)
          /\ attempt' = 0
          /\ UNCHANGED <<lines, stop>>
     ELSE LocalAnswer(Head(queue)) /\ UNCHANGED rpcVars

(* nothing for one tick, and the AR has been idle for keepalive_ms *)
Keepalive ==
  /\ pc = "loop"
  /\ ~SHUTDOWN
  /\ queue = <<>>
  /\ reading
  /\ pc' = "rpc"
  /\ request' = 0
  /\ attempt' = 0
  /\ UNCHANGED <<readerVars, input, queue, taken, lines, executed, ar, stop, SHUTDOWN>>

(* mutant: a closed channel is taken for one more quiet tick *)
ServeEof_AsTimeout ==
  /\ pc = "loop"
  /\ ~SHUTDOWN
  /\ queue = <<>>
  /\ ~reading
  /\ UNCHANGED vars

(* the channel is closed once it is empty and the reader has gone *)
ServeEof ==
  /\ pc = "loop"
  /\ ~SHUTDOWN
  /\ queue = <<>>
  /\ ~reading
  /\ Stop("stdin_eof")
  /\ UNCHANGED <<readerVars, input, queue, rpcVars, taken, lines, executed, ar, SHUTDOWN>>

(* serve_rpc: one attempt.  BUSY is tried again, anything else is the answer;   *)
(* without an answer the request may have been carried out all the same.        *)
(* mutant: an attempt that timed out is tried again as well *)
retries_Always(reply) == reply # "ok" /\ attempt + 1 < SERVE_BUSY_RETRIES
retries(reply) == reply = "busy" /\ attempt + 1 < SERVE_BUSY_RETRIES

is_transport_failure(reply) == reply = "no_answer"

(* an error with the device's status in it, or without *)
serve_emit_error(reply) == IF reply = "no_answer" THEN "transport_error" ELSE "read_error"

Answered(reply) ==
  IF reply # "ok" THEN serve_emit_error(reply)
  ELSE IF parse_serve_line(request) = "read" THEN "data" ELSE "ok"

serve_rpc ==
  \E reply \in {"ok", "busy", "pnio_error", "no_answer"} : \E done \in BOOLEAN :
    /\ pc = "rpc"
    /\ reply = "ok" => done
    /\ reply \in {"busy", "pnio_error"} => ~done
    /\ attempt' = attempt + 1
    /\ executed' = IF request # 0 /\ done THEN [executed EXCEPT ![request] = @ + 1] ELSE executed
    /\ IF retries(reply)
       THEN UNCHANGED <<pc, stop, lines>>
       ELSE /\ IF request = 0 THEN UNCHANGED lines ELSE emit(request, Answered(reply))
            /\ IF is_transport_failure(reply)
               THEN Stop("ar_lost")
               ELSE pc' = "loop" /\ UNCHANGED stop
    /\ UNCHANGED <<readerVars, input, queue, request, taken, ar, SHUTDOWN>>

(* the end of cmd_serve: the ar_lost line, release, the stopped line and main's *)
(* exit                                                                         *)
ServeExit ==
  /\ pc = "stopping"
  /\ lines' = lines \o (IF stop = "ar_lost" THEN <<<<0, "ar_lost">>>> ELSE <<>>)
                    \o <<<<0, IF stop = "ar_lost" THEN "stopped_1" ELSE "stopped_0">>>>
  /\ ar' = "released"
  /\ pc' = "exited"
  /\ UNCHANGED <<readerVars, input, queue, rpcVars, taken, executed, stop, SHUTDOWN>>

-----------------------------------------------------------------------------
(* The handler of install_shutdown_handler: without commanded outputs a second  *)
(* signal ends the process where it is.                                         *)
Signal ==
  /\ pc # "exited"
  /\ SHUTDOWN' = TRUE
  /\ IF SHUTDOWN THEN pc' = "exited" /\ stop' = "hard_exit" ELSE UNCHANGED <<pc, stop>>
  /\ UNCHANGED <<readerVars, input, queue, rpcVars, taken, lines, executed, ar>>

Reader == ReadChunk \/ ReadEof
Main == ServeStops \/ ServeLine \/ ServeEof \/ serve_rpc \/ ServeExit
Next == Reader \/ Main \/ Keepalive \/ Signal

(* Both threads run; the caller decides when it signals, and the keepalive is   *)
(* not owed.                                                                    *)
Spec == Init /\ [][Next]_vars /\ WF_vars(Reader) /\ WF_vars(Main)

-----------------------------------------------------------------------------
(* Properties *)

Whole(n)   == n \in DOMAIN stdin /\ ~Overlong(n)
Took(n)    == \E i \in DOMAIN taken : taken[i] = n
Wants(n)   == parse_serve_line(n) # "bare_quit"
IsReply(l) == l[1] # 0 /\ l[2] # "too_long"
Replied(n) == \E i \in DOMAIN lines : IsReply(lines[i]) /\ lines[i][1] = n

(* the loop takes the lines that fit, in order and without passing one over *)
TakenInOrder ==
  /\ \A i, j \in DOMAIN taken : i < j => taken[i] < taken[j]
  /\ \A i \in DOMAIN taken : Whole(taken[i]) /\ \A n \in 1 .. taken[i] : Whole(n) => Took(n)
  /\ stop = "stdin_eof" => \A n \in DOMAIN stdin : Whole(n) => Took(n)

(* ... and replies to each but a bare quit, in order; only the last may be open *)
RepliedInOrder ==
  /\ \A i \in DOMAIN lines : IsReply(lines[i]) => Took(lines[i][1]) /\ Wants(lines[i][1])
  /\ \A i, j \in DOMAIN lines :
       i < j /\ IsReply(lines[i]) /\ IsReply(lines[j]) => lines[i][1] < lines[j][1]
  /\ \A i \in DOMAIN taken : Wants(taken[i]) =>
       \/ Replied(taken[i])
       \/ i = Len(taken) /\ taken[i] = request /\ (pc = "rpc" \/ stop = "hard_exit")
  /\ pc = "rpc" => ~Replied(request)

(* the reader reports the over-long lines it has passed, each once, and no other *)
ReportedOnce ==
  /\ \A i \in DOMAIN lines : lines[i][2] = "too_long" =>
       /\ lines[i][1] \in 1 .. line - 1 /\ Overlong(lines[i][1])
       /\ \A j \in DOMAIN lines : lines[j] = lines[i] => j = i
  /\ \A n \in 1 .. line - 1 : Overlong(n) => \E i \in DOMAIN lines : lines[i] = <<n, "too_long">>

(* nothing is answered after a transport error, which ends the session *)
SilentAfterLoss ==
  \A i \in DOMAIN lines : lines[i][2] = "transport_error" =>
    \A k \in i + 1 .. Len(lines) : lines[k][2] \in {"ar_lost", "stopped_1", "too_long"}

(* Every line that fits is answered exactly once and in order, whatever the     *)
(* device does and however the reader and the loop interleave; an over-long     *)
(* line is reported once and no piece of it is ever taken for a command; at the *)
(* end of stdin nothing is left unanswered.  Nothing is answered after a         *)
(* transport error, which ends the session.                                     *)
OneAnswerEach == TakenInOrder /\ RepliedInOrder /\ ReportedOnce /\ SilentAfterLoss

(* A request is carried out at most once, retries included: "ok" and "data"     *)
(* mean once, an error status, BUSY or a refusal never.  So a request answered  *)
(* BUSY may be sent again, and one that timed out may not.                      *)
ExecutedOnce ==
  /\ \A n \in DOMAIN stdin : executed[n] <= 1
  /\ \A i \in DOMAIN lines : LET l == lines[i] IN
       /\ l[2] \in {"ok", "data"} => executed[l[1]] = 1
       /\ l[2] \in {"read_error", "refused_read_only"} => executed[l[1]] = 0

(* When stdin ends or a signal comes the session ends, and unless the caller    *)
(* signals twice the AR is released and the stopped line is the last answer.    *)
SessionEnds ==
  (~reading \/ SHUTDOWN) ~>
    (pc = "exited" /\ (stop = "hard_exit" \/
       (ar = "released" /\ Last(SelectSeq(lines, LAMBDA l : l[2] # "too_long"))[1] = 0)))
=============================================================================
