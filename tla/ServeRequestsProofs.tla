------------------------- MODULE ServeRequestsProofs -------------------------
(***************************************************************************)
(* Proofs about ServeRequests for every number and length of lines, every  *)
(* number of BUSY retries and every interleaving of the reader, the main   *)
(* loop and the signals.                                                   *)
(***************************************************************************)
EXTENDS ServeRequests, TLAPS

Answers == {"too_long", "bad_command", "needs_cyclic", "bye", "pong", "refused_read_only",
            "transport_error", "read_error", "data", "ok", "ar_lost", "stopped_0", "stopped_1"}

(* Lines are numbered, the reader is in one of them, what it queued is in order. *)
QueueInv ==
    /\ stdin \in Seq(Lines) /\ line \in Nat \ {0}
    /\ queue \in Seq(DOMAIN stdin)
    /\ \A i \in DOMAIN queue : queue[i] < line
    /\ \A i, j \in DOMAIN queue : i < j => queue[i] < queue[j]

(* The line is behind the main loop: read, and before everything that is queued. *)
Behind(n) == n < line /\ \A i \in DOMAIN queue : n < queue[i]

(* What the device carried out is behind the loop, and the request under way was *)
(* not carried out yet.                                                         *)
DeviceInv ==
    /\ executed \in [DOMAIN stdin -> {0, 1}]
    /\ \A n \in DOMAIN stdin : executed[n] # 0 => Behind(n)
    /\ request \in Nat
    /\ pc = "rpc" /\ request # 0 =>
         request \in DOMAIN stdin /\ Behind(request) /\ executed[request] = 0

(* An answer is about a line behind the loop that is no longer under way, and *)
(* tells what the device did.                                                 *)
Verdict(n, what) ==
    what \in {"ok", "data", "read_error", "refused_read_only"} =>
      /\ n \in DOMAIN stdin /\ Behind(n) /\ (pc = "rpc" => n # request)
      /\ what \in {"ok", "data"} => executed[n] = 1
      /\ what \in {"read_error", "refused_read_only"} => executed[n] = 0

AnswersInv ==
    /\ lines \in Seq(Nat \X Answers)
    /\ \A k \in DOMAIN lines : Verdict(lines[k][1], lines[k][2])

OnceInv == QueueInv /\ DeviceInv /\ AnswersInv

-----------------------------------------------------------------------------
(* Sequences of answers *)

(* The answers stay right when the verdicts do and the new answer is right. *)
LEMMA AnswerAdded ==
    ASSUME AnswersInv, NEW n \in Nat, NEW what \in Answers,
           lines' = Append(lines, <<n, what>>),
           \A m, w : Verdict(m, w) => Verdict(m, w)',
           Verdict(n, what)'
    PROVE  AnswersInv'
  <1>1. lines' \in Seq(Nat \X Answers) /\ Len(lines') = Len(lines) + 1
    BY DEF AnswersInv
  <1>2. ASSUME NEW k \in DOMAIN lines' PROVE Verdict(lines[k][1], lines[k][2])'
    <2>1. CASE k \in DOMAIN lines
      <3>1. lines'[k] = lines[k] /\ Verdict(lines[k][1], lines[k][2])
        BY <2>1 DEF AnswersInv
      <3>2. PICK m, w : m = lines[k][1] /\ w = lines[k][2]
        OBVIOUS
      <3>3. Verdict(m, w)' /\ m = lines'[k][1] /\ w = lines'[k][2]
        BY <3>1, <3>2
      <3> QED BY <3>3 DEF Verdict
    <2>2. CASE k = Len(lines) + 1
      <3>1. n = lines'[k][1] /\ what = lines'[k][2]
        BY <2>2 DEF AnswersInv
      <3> QED BY <3>1 DEF Verdict
    <2> QED BY <1>1, <2>1, <2>2 DEF AnswersInv
  <1> QED BY <1>1, <1>2 DEF AnswersInv

LEMMA AnswersKept ==
    ASSUME AnswersInv, UNCHANGED lines, \A m, w : Verdict(m, w) => Verdict(m, w)'
    PROVE  AnswersInv'
  BY DEF AnswersInv

(* Steps that touch neither the queue nor the device nor the answers. *)
LEMMA OnceFrame ==
    ASSUME OnceInv, UNCHANGED <<stdin, line, queue, executed, request, lines>>,
           pc' = "rpc" => pc = "rpc"
    PROVE  OnceInv'
  <1>1. QueueInv' /\ DeviceInv'
    BY DEF OnceInv, QueueInv, DeviceInv, Behind
  <1>2. AnswersInv'
    <2>1. \A m, w : Verdict(m, w) => Verdict(m, w)'
      BY DEF Verdict, Behind
    <2> QED BY <2>1, AnswersKept DEF OnceInv
  <1> QED BY <1>1, <1>2 DEF OnceInv

-----------------------------------------------------------------------------
(* The steps *)

LEMMA InitOnce == Init => OnceInv
  <1> SUFFICES ASSUME Init PROVE OnceInv
    OBVIOUS
  <1>1. stdin \in Seq(Lines)
    BY DEF Init
  <1>2. QueueInv
    BY <1>1 DEF Init, QueueInv
  <1>3. DeviceInv
    BY DEF Init, DeviceInv
  <1>4. AnswersInv
    BY DEF Init, AnswersInv
  <1> QED BY <1>2, <1>3, <1>4 DEF OnceInv

LEMMA ReadChunkOnce == OnceInv /\ ReadChunk => OnceInv'
  <1> SUFFICES ASSUME OnceInv, ReadChunk PROVE OnceInv'
    OBVIOUS
  <1>1. /\ line \in DOMAIN stdin /\ line' \in {line, line + 1}
        /\ UNCHANGED <<stdin, executed, request, pc>>
        /\ queue' = queue \/ (queue' = Append(queue, line) /\ line' = line + 1)
        /\ lines' = lines \/ lines' = Append(lines, <<line, "too_long">>)
    BY DEF ReadChunk, OnceInv, QueueInv, emit, input, rpcVars
  <1>a. line \in Nat \ {0} /\ queue \in Seq(DOMAIN stdin) /\ \A i \in DOMAIN queue : queue[i] \in Nat
    BY DEF OnceInv, QueueInv
  <1>b. /\ queue' \in Seq(DOMAIN stdin)
        /\ \A i \in DOMAIN queue' :
             \/ i \in DOMAIN queue /\ queue'[i] = queue[i]
             \/ i = Len(queue) + 1 /\ queue'[i] = line /\ line' = line + 1
    <2>1. CASE queue' = queue
      BY <1>a, <2>1
    <2>2. CASE queue' = Append(queue, line) /\ line' = line + 1
      BY <1>1, <1>a, <2>2
    <2> QED BY <1>1, <2>1, <2>2
  <1>2. QueueInv'
    <2>1. \A i \in DOMAIN queue' : queue'[i] < line'
      BY <1>1, <1>a, <1>b DEF OnceInv, QueueInv
    <2>2. \A i, j \in DOMAIN queue' : i < j => queue'[i] < queue'[j]
      BY <1>1, <1>a, <1>b DEF OnceInv, QueueInv
    <2> QED BY <1>1, <1>b, <2>1, <2>2 DEF OnceInv, QueueInv
  <1>3. ASSUME NEW n \in DOMAIN stdin, Behind(n) PROVE Behind(n)'
    <2>1. n \in Nat
      BY DEF OnceInv, QueueInv
    <2> QED BY <1>1, <1>3, <1>a, <1>b, <2>1 DEF Behind
  <1>4. DeviceInv'
    BY <1>1, <1>3 DEF OnceInv, DeviceInv
  <1>5. \A m, w : Verdict(m, w) => Verdict(m, w)'
    BY <1>1, <1>3 DEF Verdict
  <1>6. AnswersInv'
    <2>1. CASE lines' = lines
      BY <1>5, <2>1, AnswersKept DEF OnceInv
    <2>2. CASE lines' = Append(lines, <<line, "too_long">>)
      <3>1. Verdict(line, "too_long")' /\ line \in Nat /\ "too_long" \in Answers
        BY DEF Verdict, Answers, OnceInv, QueueInv
      <3> QED BY <1>5, <2>2, <3>1, AnswerAdded DEF OnceInv, Verdict, Answers
    <2> QED BY <1>1, <2>1, <2>2
  <1> QED BY <1>2, <1>4, <1>6 DEF OnceInv

LEMMA ServeLineOnce == OnceInv /\ ServeLine => OnceInv'
  <1> SUFFICES ASSUME OnceInv, ServeLine PROVE OnceInv'
    OBVIOUS
  <1>0. PICK n : n = Head(queue)
    OBVIOUS
  <1>1. /\ pc = "loop" /\ queue # <<>> /\ queue' = Tail(queue)
        /\ UNCHANGED <<stdin, line, executed>>
        /\ \/ pc' = "rpc" /\ request' = n /\ UNCHANGED lines
           \/ LocalAnswer(n) /\ UNCHANGED request
    BY <1>0 DEF ServeLine, readerVars, input, rpcVars
  <1>2. /\ queue' \in Seq(DOMAIN stdin) /\ n \in DOMAIN stdin /\ n \in Nat /\ n < line /\ n # 0
        /\ \A i \in DOMAIN queue' : i + 1 \in DOMAIN queue /\ queue'[i] = queue[i + 1]
        /\ 1 \in DOMAIN queue /\ n = queue[1] /\ \A i \in DOMAIN queue : i \in Nat /\ queue[i] \in Nat
    <2>1. stdin \in Seq(Lines) /\ queue \in Seq(DOMAIN stdin) /\ \A i \in DOMAIN queue : queue[i] < line
      BY DEF OnceInv, QueueInv
    <2>2. queue' \in Seq(DOMAIN stdin) /\ Len(queue) \in Nat /\ Len(queue) # 0
      BY <1>1, <2>1
    <2>3. 1 \in DOMAIN queue /\ n = queue[1] /\ DOMAIN queue = 1 .. Len(queue)
      BY <1>0, <2>1, <2>2
    <2>4. \A i \in DOMAIN queue : queue[i] \in DOMAIN stdin
      BY <2>1
    <2>5. \A m \in DOMAIN stdin : m \in Nat /\ m # 0
      BY <2>1
    <2>6. \A i \in DOMAIN queue' : i + 1 \in DOMAIN queue /\ queue'[i] = queue[i + 1]
      BY <1>1, <2>1, <2>2
    <2> QED BY <2>1, <2>2, <2>3, <2>4, <2>5, <2>6
  <1>3. QueueInv'
    <2>1. \A i \in DOMAIN queue' : queue'[i] < line' /\ i \in Nat
      <3>1. DOMAIN queue' = 1 .. Len(queue') /\ Len(queue') \in Nat
        BY <1>2
      <3> QED BY <1>1, <1>2, <3>1 DEF OnceInv, QueueInv
    <2>2. \A i, j \in DOMAIN queue' : i < j => queue'[i] < queue'[j]
      <3> TAKE i, j \in DOMAIN queue'
      <3> HAVE i < j
      <3>1. i + 1 < j + 1
        BY <2>1
      <3>2. \A a, c \in DOMAIN queue : a < c => queue[a] < queue[c]
        BY DEF OnceInv, QueueInv
      <3> QED BY <1>2, <3>1, <3>2
    <2> QED BY <1>1, <1>2, <2>1, <2>2 DEF OnceInv, QueueInv
  <1>4. Behind(n)'
    <2>1. \A a, c \in DOMAIN queue : a < c => queue[a] < queue[c]
      BY DEF OnceInv, QueueInv
    <2>2. \A i \in DOMAIN queue' : i \in Nat /\ 1 < i + 1
      BY <1>2
    <2>3. \A i \in DOMAIN queue' : n < queue'[i]
      BY <1>2, <2>1, <2>2
    <2> QED BY <1>1, <1>2, <2>3 DEF Behind
  <1>5. ASSUME NEW m, Behind(m) PROVE Behind(m)' /\ m # n
    <2>1. Behind(m)'
      BY <1>1, <1>2, <1>5 DEF Behind
    <2>2. m < n
      BY <1>2, <1>5 DEF Behind
    <2> QED BY <1>2, <2>1, <2>2
  <1>6. executed[n] = 0
    BY <1>2, <1>5 DEF OnceInv, DeviceInv
  <1>7. DeviceInv'
    <2>1. pc' = "rpc" => request' = n
      BY <1>1 DEF LocalAnswer, Stop
    <2>2. request' \in Nat
      BY <1>1, <1>2 DEF OnceInv, DeviceInv
    <2>3. \A m \in DOMAIN stdin : executed[m] # 0 => Behind(m)'
      BY <1>5 DEF OnceInv, DeviceInv
    <2>4. pc' = "rpc" => request' \in DOMAIN stdin /\ Behind(request)' /\ executed[request'] = 0
      BY <1>2, <1>4, <1>6, <2>1 DEF Behind
    <2> QED BY <1>1, <2>2, <2>3, <2>4 DEF OnceInv, DeviceInv
  <1>8. \A m, w : Verdict(m, w) => Verdict(m, w)'
    <2>1. pc' = "rpc" => request' = n
      BY <1>1 DEF LocalAnswer, Stop
    <2> QED BY <1>1, <1>5, <2>1 DEF Verdict
  <1>9. AnswersInv'
    <2>1. CASE UNCHANGED lines
      BY <1>8, <2>1, AnswersKept DEF OnceInv
    <2>2. CASE ~UNCHANGED lines
      <3>1. LocalAnswer(n)
        BY <1>1, <2>2
      <3>2. PICK what \in {"bad_command", "needs_cyclic", "bye", "pong", "refused_read_only"} :
              lines' = Append(lines, <<n, what>>)
        BY <2>2, <3>1 DEF LocalAnswer, emit
      <3>3. pc' # "rpc"
        BY <1>1, <3>1 DEF LocalAnswer, Stop
      <3>4. Verdict(n, what)'
        BY <1>1, <1>2, <1>4, <1>6, <3>2, <3>3 DEF Verdict
      <3>5. what \in Answers
        BY DEF Answers
      <3> QED BY <1>2, <1>8, <3>2, <3>4, <3>5, AnswerAdded DEF OnceInv
    <2> QED BY <2>1, <2>2
  <1> QED BY <1>3, <1>7, <1>9 DEF OnceInv

LEMMA KeepaliveOnce == OnceInv /\ Keepalive => OnceInv'
  <1> SUFFICES ASSUME OnceInv, Keepalive PROVE OnceInv'
    OBVIOUS
  <1>1. UNCHANGED <<stdin, line, queue, executed, lines>> /\ request' = 0
    BY DEF Keepalive, readerVars, input
  <1>2. QueueInv' /\ DeviceInv'
    BY <1>1 DEF OnceInv, QueueInv, DeviceInv, Behind
  <1>3. \A m, w : Verdict(m, w) => Verdict(m, w)'
    BY <1>1 DEF Verdict, Behind, OnceInv, QueueInv
  <1>4. AnswersInv'
    BY <1>1, <1>3, AnswersKept DEF OnceInv
  <1> QED BY <1>2, <1>4 DEF OnceInv

LEMMA ServeRpcOnce == OnceInv /\ serve_rpc => OnceInv'
  <1> SUFFICES ASSUME OnceInv, serve_rpc PROVE OnceInv'
    OBVIOUS
  <1>1. PICK reply \in {"ok", "busy", "pnio_error", "no_answer"}, done \in BOOLEAN :
          /\ pc = "rpc"
          /\ reply = "ok" => done
          /\ reply \in {"busy", "pnio_error"} => ~done
          /\ executed' = IF request # 0 /\ done THEN [executed EXCEPT ![request] = @ + 1] ELSE executed
          /\ IF retries(reply)
             THEN UNCHANGED <<pc, stop, lines>>
             ELSE /\ IF request = 0 THEN UNCHANGED lines ELSE emit(request, Answered(reply))
                  /\ IF is_transport_failure(reply)
                     THEN Stop("ar_lost")
                     ELSE pc' = "loop" /\ UNCHANGED stop
          /\ UNCHANGED <<stdin, line, queue, request>>
    BY DEF serve_rpc, readerVars, input
  <1>2. \A m : Behind(m) <=> Behind(m)'
    BY <1>1 DEF Behind
  <1>3. QueueInv'
    BY <1>1 DEF OnceInv, QueueInv
  <1>4. /\ request \in Nat /\ executed \in [DOMAIN stdin -> {0, 1}]
        /\ request # 0 => request \in DOMAIN stdin /\ Behind(request) /\ executed[request] = 0
    BY <1>1 DEF OnceInv, DeviceInv
  <1>5. /\ executed' \in [DOMAIN stdin -> {0, 1}]
        /\ \A m \in DOMAIN stdin : m # request => executed'[m] = executed[m]
        /\ request # 0 => executed'[request] = IF done THEN 1 ELSE 0
    BY <1>1, <1>4
  <1>6. pc' = "rpc" => ~done /\ UNCHANGED lines
    BY <1>1 DEF retries, Stop
  <1>7. DeviceInv'
    <2>1. \A m \in DOMAIN stdin : executed'[m] # 0 => Behind(m)'
      <3> SUFFICES ASSUME NEW m \in DOMAIN stdin, executed'[m] # 0 PROVE Behind(m)
        BY <1>2
      <3>1. m # 0
        BY DEF OnceInv, QueueInv
      <3> QED BY <1>4, <1>5, <3>1 DEF OnceInv, DeviceInv
    <2>2. pc' = "rpc" /\ request # 0 =>
            request' \in DOMAIN stdin /\ Behind(request)' /\ executed'[request'] = 0
      <3> SUFFICES ASSUME pc' = "rpc", request # 0
                   PROVE  request' \in DOMAIN stdin /\ Behind(request)' /\ executed'[request'] = 0
        OBVIOUS
      <3>1. request \in DOMAIN stdin /\ Behind(request) /\ executed'[request'] = 0
        BY <1>1, <1>4, <1>5, <1>6
      <3> QED BY <1>1, <3>1 DEF Behind
    <2> QED BY <1>1, <1>4, <1>5, <2>1, <2>2 DEF DeviceInv
  <1>8. \A m, w : Verdict(m, w) => Verdict(m, w)'
    BY <1>1, <1>2, <1>5 DEF Verdict
  <1>9. AnswersInv'
    <2>1. CASE UNCHANGED lines
      BY <1>8, <2>1, AnswersKept DEF OnceInv
    <2>2. CASE ~UNCHANGED lines
      <3>1. /\ lines' = Append(lines, <<request, Answered(reply)>>) /\ request # 0
            /\ pc' \in {"loop", "stopping"}
        BY <1>1, <2>2 DEF emit, Stop
      <3>2. /\ Answered(reply) \in {"transport_error", "read_error", "data", "ok"}
            /\ Answered(reply) \in {"data", "ok"} => reply = "ok"
            /\ Answered(reply) = "read_error" => reply \in {"busy", "pnio_error"}
        BY DEF Answered, serve_emit_error
      <3>3. PICK n, what : n = request /\ what = Answered(reply)
        OBVIOUS
      <3>4. Verdict(n, what)'
        BY <1>1, <1>2, <1>4, <1>5, <3>1, <3>2, <3>3 DEF Verdict
      <3>5. n \in Nat /\ what \in Answers /\ lines' = Append(lines, <<n, what>>)
        BY <1>4, <3>1, <3>2, <3>3 DEF Answers
      <3> QED BY <1>8, <3>4, <3>5, AnswerAdded DEF OnceInv
    <2> QED BY <2>1, <2>2
  <1> QED BY <1>3, <1>7, <1>9 DEF OnceInv

LEMMA ServeExitOnce == OnceInv /\ ServeExit => OnceInv'
  <1> SUFFICES ASSUME OnceInv, ServeExit PROVE OnceInv'
    OBVIOUS
  <1>1. UNCHANGED <<stdin, line, queue, executed, request>> /\ pc' = "exited"
    BY DEF ServeExit, readerVars, input, rpcVars
  <1>2. QueueInv' /\ DeviceInv'
    BY <1>1 DEF OnceInv, QueueInv, DeviceInv, Behind
  <1>3. \A m, w : Verdict(m, w) => Verdict(m, w)'
    BY <1>1 DEF Verdict, Behind
  <1> DEFINE first == IF stop = "ar_lost" THEN <<<<0, "ar_lost">>>> ELSE <<>>
             last == <<<<0, IF stop = "ar_lost" THEN "stopped_1" ELSE "stopped_0">>>>
  <1>4. /\ lines \in Seq(Nat \X Answers) /\ first \in Seq(Nat \X Answers)
        /\ last \in Seq(Nat \X Answers)
        /\ \A k \in DOMAIN first : first[k][2] = "ar_lost"
        /\ \A k \in DOMAIN last : last[k][2] \in {"stopped_0", "stopped_1"}
    <2>1. \A w \in Answers : <<<<0, w>>>> \in Seq(Nat \X Answers)
      OBVIOUS
    <2>2. {"ar_lost", "stopped_0", "stopped_1"} \subseteq Answers
      BY DEF Answers
    <2>3. first \in Seq(Nat \X Answers) /\ \A k \in DOMAIN first : first[k][2] = "ar_lost"
      BY <2>1, <2>2
    <2>4. last \in Seq(Nat \X Answers)
      <3>1. CASE stop = "ar_lost"
        BY <2>1, <2>2, <3>1
      <3>2. CASE stop # "ar_lost"
        BY <2>1, <2>2, <3>2
      <3> QED BY <3>1, <3>2
    <2>5. \A k \in DOMAIN last : last[k][2] \in {"stopped_0", "stopped_1"}
      OBVIOUS
    <2> QED BY <2>3, <2>4, <2>5 DEF OnceInv, AnswersInv
  <1>5. lines' = (lines \o first) \o last
    BY DEF ServeExit
  <1> HIDE DEF first, last
  <1>6. lines' \in Seq(Nat \X Answers)
    BY <1>4, <1>5
  <1>7. ASSUME NEW k \in DOMAIN lines' PROVE Verdict(lines[k][1], lines[k][2])'
    <2>1. \/ k \in DOMAIN lines /\ lines'[k] = lines[k]
          \/ lines'[k][2] \in {"ar_lost", "stopped_0", "stopped_1"}
      <3>1. \A i \in DOMAIN (lines \o first) :
              \/ i \in DOMAIN lines /\ (lines \o first)[i] = lines[i]
              \/ (lines \o first)[i][2] = "ar_lost"
        BY <1>4
      <3>2. lines \o first \in Seq(Nat \X Answers)
        BY <1>4
      <3>3. \/ k \in DOMAIN (lines \o first) /\ lines'[k] = (lines \o first)[k]
            \/ lines'[k][2] \in {"stopped_0", "stopped_1"}
        BY <1>4, <1>5, <3>2
      <3> QED BY <3>1, <3>3
    <2>2. PICK m, w : m = lines'[k][1] /\ w = lines'[k][2]
      OBVIOUS
    <2>3. k \in DOMAIN lines /\ lines'[k] = lines[k] => Verdict(m, w)'
      BY <1>3, <2>2 DEF OnceInv, AnswersInv
    <2> QED BY <2>1, <2>2, <2>3 DEF Verdict
  <1>8. AnswersInv'
    BY <1>6, <1>7 DEF AnswersInv
  <1> QED BY <1>2, <1>8 DEF OnceInv

LEMMA OnceInvariant == Spec => []OnceInv
  <1>1. OnceInv /\ [Next]_vars => OnceInv'
    <2> SUFFICES ASSUME OnceInv, [Next]_vars PROVE OnceInv'
      OBVIOUS
    <2>1. CASE ReadEof \/ ServeStops \/ ServeEof \/ Signal
      <3>1. /\ UNCHANGED <<stdin, line, queue, executed, request, lines>>
            /\ pc' = "rpc" => pc = "rpc"
        BY <2>1 DEF ReadEof, ServeStops, ServeEof, Signal, Stop, readerVars, input, rpcVars
      <3> QED BY <3>1, OnceFrame
    <2>2. CASE UNCHANGED vars
      BY <2>2, OnceFrame DEF vars
    <2> QED
      BY <2>1, <2>2, ReadChunkOnce, ServeLineOnce, KeepaliveOnce, ServeRpcOnce, ServeExitOnce
      DEF Next, Reader, Main
  <1> QED BY <1>1, InitOnce, PTL DEF Spec

(* serve_rpc carries a request out at most once, its BUSY retries included, and the *)
(* answer tells which: "ok" and "data" mean once, an error status or a refusal      *)
(* never, for any stdin and however reader, main loop and signals interleave.       *)
THEOREM RequestsRunOnce == Spec => []ExecutedOnce
  <1>1. OnceInv => ExecutedOnce
    BY DEF OnceInv, DeviceInv, AnswersInv, Verdict, ExecutedOnce
  <1> QED BY <1>1, OnceInvariant, PTL

-----------------------------------------------------------------------------
(* One answer each *)

(* The reader drops the rest of a line exactly while it is in an over-long one, *)
(* and stops only behind the last line.                                         *)
ReaderInv ==
    /\ rest \in Nat /\ skipping \in BOOLEAN /\ (skipping <=> rest # 0)
    /\ skipping => line \in DOMAIN stdin /\ Overlong(line)
    /\ line <= Len(stdin) + 1
    /\ ~reading => line = Len(stdin) + 1

Queued(n) == \E i \in DOMAIN queue : queue[i] = n

(* Every line the reader has passed and that fits is queued or was taken, and the *)
(* taken ones are before the queued ones.                                         *)
TakenInv ==
    /\ taken \in Seq(DOMAIN stdin)
    /\ \A i \in DOMAIN taken : Behind(taken[i]) /\ ~Overlong(taken[i])
    /\ \A i, j \in DOMAIN taken : i < j => taken[i] < taken[j]
    /\ \A i \in DOMAIN queue : ~Overlong(queue[i])
    /\ \A n \in 1 .. line - 1 : ~Overlong(n) => Took(n) \/ Queued(n)
    /\ stop = "stdin_eof" => ~reading /\ queue = <<>>

(* The request under way is the last line taken. *)
RequestInv ==
    /\ stop = "hard_exit" => pc = "exited"
    /\ pc = "rpc" /\ request # 0 =>
         Len(taken) > 0 /\ request = taken[Len(taken)] /\ Wants(request)

(* A transport error is only in the answers once the loop has ended for it. *)
LossInv ==
    /\ SilentAfterLoss
    /\ \A i \in DOMAIN lines : lines[i][2] = "transport_error" =>
         pc = "exited" \/ (pc = "stopping" /\ stop = "ar_lost")

EachInv ==
    /\ OnceInv /\ ReaderInv /\ TakenInv /\ RequestInv
    /\ RepliedInOrder /\ ReportedOnce /\ LossInv

(* The step adds answers from S, and changes none. *)
Adds(S) ==
    /\ Len(lines) \in Nat /\ DOMAIN lines = 1 .. Len(lines)
    /\ Len(lines') \in Nat /\ DOMAIN lines' = 1 .. Len(lines') /\ Len(lines) <= Len(lines')
    /\ \A i \in DOMAIN lines : lines'[i] = lines[i]
    /\ \A i \in DOMAIN lines' : i > Len(lines) => lines'[i] \in S

(* ... and just this one. *)
AddsOne(e) == Adds({e}) /\ Len(lines') = Len(lines) + 1

LEMMA AddsNone == AnswersInv /\ UNCHANGED lines => Adds({})
  BY DEF AnswersInv, Adds

LEMMA AddsAppended ==
    ASSUME AnswersInv, NEW e \in Nat \X Answers, lines' = Append(lines, e)
    PROVE  AddsOne(e)
  BY DEF AnswersInv, Adds, AddsOne

(* The replies in themselves: each to a line taken, in order. *)
RepliesInOrder ==
    /\ \A i \in DOMAIN lines : IsReply(lines[i]) => Took(lines[i][1]) /\ Wants(lines[i][1])
    /\ \A i, j \in DOMAIN lines :
         i < j /\ IsReply(lines[i]) /\ IsReply(lines[j]) => lines[i][1] < lines[j][1]

(* What is no reply leaves the replies alone. *)
LEMMA NoReply ==
    ASSUME NEW S, Adds(S), \A e \in S : ~IsReply(e), RepliesInOrder, UNCHANGED stdin,
           \A n : Took(n) => Took(n)'
    PROVE  RepliesInOrder' /\ \A n : Replied(n)' <=> Replied(n)
  <1>1. \A i \in DOMAIN lines : i \in DOMAIN lines' /\ lines'[i] = lines[i]
    BY DEF Adds
  <1>2. \A i \in DOMAIN lines' : IsReply(lines'[i]) => i \in DOMAIN lines
    BY DEF Adds
  <1>3. \A n : Wants(n)' <=> Wants(n)
    BY DEF Wants, parse_serve_line
  <1>4. \A n : Replied(n)' <=> Replied(n)
    BY <1>1, <1>2 DEF Replied, IsReply
  <1>5. \A i \in DOMAIN lines' : IsReply(lines'[i]) => Took(lines[i][1])' /\ Wants(lines[i][1])'
    <2> TAKE i \in DOMAIN lines'
    <2> HAVE IsReply(lines'[i])
    <2>1. PICK n : n = lines[i][1] /\ n = lines'[i][1]
      BY <1>1, <1>2
    <2>2. Took(n) /\ Wants(n)
      BY <1>1, <1>2, <2>1 DEF RepliesInOrder
    <2>3. Took(n)' /\ Wants(n)'
      BY <1>3, <2>2
    <2> QED BY <2>1, <2>3 DEF Took, Wants, parse_serve_line
  <1>6. \A i, j \in DOMAIN lines' :
          i < j /\ IsReply(lines'[i]) /\ IsReply(lines'[j]) => lines'[i][1] < lines'[j][1]
    BY <1>1, <1>2 DEF RepliesInOrder
  <1> QED BY <1>4, <1>5, <1>6 DEF RepliesInOrder, IsReply

(* A reply to a line that was taken, behind everything replied to. *)
LEMMA ReplyAdded ==
    ASSUME NEW n \in Nat, NEW w, AddsOne(<<n, w>>), IsReply(<<n, w>>), RepliesInOrder,
           UNCHANGED stdin, \A m : Took(m) => Took(m)', Took(n)', Wants(n)',
           \A m : Replied(m) => m < n
    PROVE  RepliesInOrder' /\ \A m : Replied(m)' <=> Replied(m) \/ m = n
  <1>0. PICK k : k = Len(lines) + 1
    OBVIOUS
  <1>1. /\ \A i \in DOMAIN lines : i \in DOMAIN lines' /\ lines'[i] = lines[i] /\ i < k
        /\ k \in DOMAIN lines' /\ lines'[k] = <<n, w>>
        /\ \A i \in DOMAIN lines' : i = k \/ i \in DOMAIN lines
        /\ \A i \in DOMAIN lines' : i \in Nat
    BY <1>0 DEF AddsOne, Adds
  <1>2. lines'[k][1] = n /\ IsReply(lines'[k])
    BY <1>1
  <1>3. \A m : Wants(m)' <=> Wants(m)
    BY DEF Wants, parse_serve_line
  <1>4. \A m : Replied(m)' <=> Replied(m) \/ m = n
    BY <1>1, <1>2 DEF Replied, IsReply
  <1>5. \A i \in DOMAIN lines' : IsReply(lines'[i]) => Took(lines[i][1])' /\ Wants(lines[i][1])'
    <2> TAKE i \in DOMAIN lines'
    <2> HAVE IsReply(lines'[i])
    <2>1. PICK m : m = lines'[i][1]
      OBVIOUS
    <2>2. CASE i = k
      BY <1>2, <2>1, <2>2 DEF Took, Wants, parse_serve_line
    <2>3. CASE i \in DOMAIN lines
      <3>1. Took(m) /\ Wants(m)
        BY <1>1, <2>1, <2>3 DEF RepliesInOrder
      <3>2. Took(m)' /\ Wants(m)'
        BY <1>3, <3>1
      <3> QED BY <2>1, <3>2 DEF Took, Wants, parse_serve_line
    <2> QED BY <1>1, <2>2, <2>3
  <1>6. ASSUME NEW i \in DOMAIN lines', NEW j \in DOMAIN lines', i < j,
               IsReply(lines'[i]), IsReply(lines'[j])
        PROVE  lines'[i][1] < lines'[j][1]
    <2>1. i \in DOMAIN lines
      BY <1>1, <1>6
    <2>2. CASE j \in DOMAIN lines
      BY <1>1, <1>6, <2>1, <2>2 DEF RepliesInOrder
    <2>3. CASE j = k
      <3>1. Replied(lines'[i][1])
        BY <1>1, <1>6, <2>1 DEF Replied
      <3> QED BY <1>2, <2>3, <3>1
    <2> QED BY <1>1, <2>2, <2>3
  <1> QED BY <1>4, <1>5, <1>6 DEF RepliesInOrder, IsReply

(* What is no report leaves the reports alone. *)
LEMMA NoReport ==
    ASSUME NEW S, Adds(S), \A e \in S : e[2] # "too_long", ReportedOnce, UNCHANGED <<stdin, line>>
    PROVE  ReportedOnce'
  <1>1. \A i \in DOMAIN lines : i \in DOMAIN lines' /\ lines'[i] = lines[i]
    BY DEF Adds
  <1>2. \A i \in DOMAIN lines' : lines'[i][2] = "too_long" => i \in DOMAIN lines
    BY DEF Adds
  <1>3. \A n : Overlong(n)' <=> Overlong(n)
    BY DEF Overlong
  <1>4. ASSUME NEW i \in DOMAIN lines', lines'[i][2] = "too_long"
        PROVE  /\ lines'[i][1] \in 1 .. line' - 1 /\ Overlong(lines[i][1])'
               /\ \A j \in DOMAIN lines' : lines'[j] = lines'[i] => j = i
    <2>1. PICK n : n = lines'[i][1]
      OBVIOUS
    <2>2. n \in 1 .. line - 1 /\ Overlong(n)
      BY <1>1, <1>2, <1>4, <2>1 DEF ReportedOnce
    <2>3. \A j \in DOMAIN lines' : lines'[j] = lines'[i] => j = i
      BY <1>1, <1>2, <1>4 DEF ReportedOnce
    <2> QED BY <2>1, <2>2, <2>3 DEF Overlong
  <1>5. \A n \in 1 .. line' - 1 : Overlong(n)' => \E i \in DOMAIN lines' : lines'[i] = <<n, "too_long">>
    BY <1>1, <1>3 DEF ReportedOnce
  <1> QED BY <1>4, <1>5 DEF ReportedOnce

(* Before a transport error anything may be said, after it only the farewell. *)
LEMMA NoLoss ==
    ASSUME NEW S, Adds(S), LossInv, \A e \in S : e[2] # "transport_error",
           \A i \in DOMAIN lines : lines[i][2] = "transport_error" =>
             /\ pc' = "exited" \/ (pc' = "stopping" /\ stop' = "ar_lost")
             /\ \A e \in S : e[2] \in {"ar_lost", "stopped_1", "too_long"}
    PROVE  LossInv'
  <1>1. \A i \in DOMAIN lines : i \in DOMAIN lines' /\ lines'[i] = lines[i]
    BY DEF Adds
  <1>2. \A i \in DOMAIN lines' : lines'[i][2] = "transport_error" => i \in DOMAIN lines
    BY DEF Adds
  <1>3. ASSUME NEW i \in DOMAIN lines', lines'[i][2] = "transport_error",
               NEW k \in i + 1 .. Len(lines')
        PROVE  lines'[k][2] \in {"ar_lost", "stopped_1", "too_long"}
    <2>1. CASE k <= Len(lines)
      <3>1. i \in Nat /\ k \in i + 1 .. Len(lines) /\ k \in DOMAIN lines
        BY <1>2, <1>3, <2>1 DEF Adds
      <3> QED BY <1>1, <1>2, <1>3, <3>1 DEF LossInv, SilentAfterLoss
    <2>2. CASE k > Len(lines)
      <3>1. k \in DOMAIN lines' /\ lines'[k] \in S
        BY <1>2, <1>3, <2>2 DEF Adds
      <3> QED BY <1>1, <1>2, <1>3, <3>1
    <2> QED BY <1>2, <1>3, <2>1, <2>2 DEF Adds
  <1>4. \A i \in DOMAIN lines' : lines'[i][2] = "transport_error" =>
          pc' = "exited" \/ (pc' = "stopping" /\ stop' = "ar_lost")
    BY <1>1, <1>2
  <1> QED BY <1>3, <1>4 DEF LossInv, SilentAfterLoss

LEMMA RepliesSplit ==
    RepliedInOrder <=>
      /\ RepliesInOrder
      /\ \A i \in DOMAIN taken : Wants(taken[i]) =>
           \/ Replied(taken[i])
           \/ i = Len(taken) /\ taken[i] = request /\ (pc = "rpc" \/ stop = "hard_exit")
      /\ pc = "rpc" => ~Replied(request)
  BY DEF RepliedInOrder, RepliesInOrder

(* Steps that reply to nothing and take nothing from the queue. *)
LEMMA RepliedFrame ==
    ASSUME NEW S, Adds(S), \A e \in S : ~IsReply(e), RepliedInOrder,
           UNCHANGED <<stdin, taken, request>>,
           pc = "rpc" => pc' = "rpc" \/ stop' = "hard_exit",
           pc' = "rpc" => pc = "rpc",
           stop = "hard_exit" => stop' = "hard_exit"
    PROVE  RepliedInOrder'
  <1>1. RepliesInOrder
    BY RepliesSplit
  <1>2. \A n : Took(n) => Took(n)'
    BY DEF Took
  <1>3. RepliesInOrder' /\ \A n : Replied(n)' <=> Replied(n)
    BY <1>1, <1>2, NoReply
  <1>4. \A n : Wants(n)' <=> Wants(n)
    BY DEF Wants, parse_serve_line
  <1>5. ASSUME NEW i \in DOMAIN taken', Wants(taken[i])'
        PROVE  \/ Replied(taken[i])'
               \/ i = Len(taken') /\ taken'[i] = request' /\ (pc' = "rpc" \/ stop' = "hard_exit")
    <2>1. PICK n : n = taken[i] /\ n = taken'[i]
      OBVIOUS
    <2>2. Wants(n)
      BY <1>4, <1>5, <2>1 DEF Wants, parse_serve_line
    <2>3. \/ Replied(n)
          \/ i = Len(taken) /\ n = request /\ (pc = "rpc" \/ stop = "hard_exit")
      BY <2>1, <2>2, RepliesSplit
    <2>4. Replied(n) => Replied(taken[i])'
      <3> HAVE Replied(n)
      <3>1. Replied(n)'
        BY <1>3
      <3> QED BY <2>1, <3>1 DEF Replied
    <2> QED BY <2>1, <2>3, <2>4
  <1>6. pc' = "rpc" => ~Replied(request)'
    <2> HAVE pc' = "rpc"
    <2>1. PICK n : n = request /\ n = request'
      OBVIOUS
    <2>2. ~Replied(n)
      BY <2>1, RepliesSplit
    <2>3. ~Replied(n)'
      BY <1>3, <2>2
    <2> QED BY <2>1, <2>3 DEF Replied
  <1> QED BY <1>3, <1>5, <1>6 DEF RepliedInOrder, RepliesInOrder

LEMMA InitEach == Init => EachInv
  <1> SUFFICES ASSUME Init PROVE EachInv
    OBVIOUS
  <1>1. OnceInv /\ QueueInv
    BY InitOnce DEF OnceInv
  <1>2. stdin \in Seq(Lines) /\ Len(stdin) \in Nat
    BY <1>1 DEF QueueInv
  <1>3. ReaderInv
    <2>1. rest = 0 /\ line = 1
      BY DEF Init
    <2>2. skipping \in BOOLEAN /\ ~skipping /\ reading
      BY Zenon DEF Init
    <2> QED BY <1>2, <2>1, <2>2 DEF ReaderInv
  <1>4. taken = <<>> /\ queue = <<>> /\ lines = <<>> /\ line = 1 /\ pc = "loop" /\ stop = "none"
    BY DEF Init
  <1>5. TakenInv
    BY <1>4 DEF TakenInv
  <1>6. RequestInv /\ LossInv
    BY <1>4 DEF RequestInv, LossInv, SilentAfterLoss
  <1>7. RepliedInOrder /\ ReportedOnce
    BY <1>4 DEF RepliedInOrder, ReportedOnce
  <1> QED BY <1>1, <1>3, <1>5, <1>6, <1>7 DEF EachInv

LEMMA ReadChunkEach == EachInv /\ ReadChunk => EachInv'
  <1> SUFFICES ASSUME EachInv, ReadChunk PROVE EachInv'
    OBVIOUS
  <1>1. OnceInv'
    BY ReadChunkOnce DEF EachInv
  <1>2. /\ AnswersInv /\ QueueInv /\ ReaderInv /\ TakenInv
        /\ UNCHANGED <<stdin, reading, pc, request, taken, stop>>
        /\ reading /\ pc # "exited" /\ line \in DOMAIN stdin /\ line \in Nat \ {0}
        /\ Len(stdin) \in Nat /\ line <= Len(stdin)
    BY DEF EachInv, OnceInv, QueueInv, ReadChunk, input, rpcVars
  <1>3. stdin[line].size \in Nat \ {0} /\ MAX_STDIN_LINE \in Nat \ {0} /\ rest \in Nat
    <2>1. stdin[line] \in Lines
      BY <1>2 DEF QueueInv
    <2> QED BY <1>2, <2>1, ServeRequestsAssumption DEF Lines, ReaderInv
  <1>a. PICK left : left = IF rest = 0 THEN stdin[line].size ELSE rest
    OBVIOUS
  <1>b. /\ rest' = IF left <= MAX_STDIN_LINE THEN 0 ELSE left - MAX_STDIN_LINE
        /\ line' = IF left <= MAX_STDIN_LINE THEN line + 1 ELSE line
        /\ queue' = IF left <= MAX_STDIN_LINE /\ ~skipping THEN Append(queue, line) ELSE queue
        /\ lines' = IF left <= MAX_STDIN_LINE /\ skipping
                    THEN Append(lines, <<line, "too_long">>) ELSE lines
    BY <1>a DEF ReadChunk, emit
  <1>c. skipping' = ~(left <= MAX_STDIN_LINE)
    BY <1>a DEF ReadChunk
  <1>d. skipping' \in BOOLEAN /\ (skipping' <=> ~(left <= MAX_STDIN_LINE))
    BY <1>c, Zenon
  <1>e. /\ left \in Nat \ {0}
        /\ left > MAX_STDIN_LINE => Overlong(line)
        /\ skipping => Overlong(line)
        /\ left <= MAX_STDIN_LINE /\ ~skipping => ~Overlong(line)
    <2>1. CASE skipping
      <3>1. rest # 0 /\ Overlong(line)
        BY <1>2, <2>1 DEF ReaderInv
      <3>2. left \in Nat \ {0}
        BY <1>3, <1>a, <3>1
      <3> QED BY <2>1, <3>1, <3>2
    <2>2. CASE ~skipping
      BY <1>2, <1>3, <1>a, <2>2 DEF ReaderInv, Overlong
    <2> QED BY <2>1, <2>2
  <1>4. \/ /\ ~skipping /\ ~Overlong(line) /\ rest' = 0 /\ line' = line + 1 /\ ~skipping'
           /\ queue' = Append(queue, line) /\ lines' = lines
        \/ /\ skipping /\ Overlong(line) /\ rest' = 0 /\ line' = line + 1 /\ ~skipping'
           /\ queue' = queue /\ lines' = Append(lines, <<line, "too_long">>)
        \/ /\ Overlong(line) /\ rest' \in Nat \ {0} /\ line' = line /\ skipping'
           /\ queue' = queue /\ lines' = lines
    <2>0. left \in Nat
      BY <1>e, Zenon
    <2>1. left <= MAX_STDIN_LINE \/ (left > MAX_STDIN_LINE /\ left - MAX_STDIN_LINE \in Nat \ {0})
      BY <1>3, <2>0
    <2>2. CASE left <= MAX_STDIN_LINE /\ ~skipping
      BY <1>b, <1>d, <1>e, <2>2
    <2>3. CASE left <= MAX_STDIN_LINE /\ skipping
      BY <1>b, <1>d, <1>e, <2>3
    <2>4. CASE ~(left <= MAX_STDIN_LINE)
      BY <1>b, <1>d, <1>e, <2>1, <2>4
    <2> QED BY <2>2, <2>3, <2>4
  <1>5. ReaderInv'
    <2>1. rest' \in Nat /\ (skipping' <=> rest' # 0) /\ line' <= Len(stdin') + 1
      BY <1>2, <1>4
    <2>2. skipping' => line' \in DOMAIN stdin' /\ Overlong(line)'
      BY <1>2, <1>4 DEF Overlong
    <2> QED BY <1>2, <1>d, <2>1, <2>2 DEF ReaderInv
  <1>6. /\ \A n : Overlong(n)' <=> Overlong(n)
        /\ \A n : Took(n)' <=> Took(n)
    BY <1>2 DEF Overlong, Took
  <1>7. TakenInv'
    <2>1. /\ \A i \in DOMAIN queue : i \in DOMAIN queue' /\ queue'[i] = queue[i]
          /\ \A i \in DOMAIN queue' : i \in DOMAIN queue \/ (queue'[i] = line /\ ~Overlong(line))
          /\ line' \in {line, line + 1}
      <3>1. queue \in Seq(DOMAIN stdin)
        BY <1>2 DEF QueueInv
      <3>2. CASE queue' = queue
        BY <1>4, <3>2
      <3>3. CASE queue' = Append(queue, line) /\ ~Overlong(line)
        BY <1>2, <1>4, <3>1, <3>3
      <3> QED BY <1>4, <3>2, <3>3
    <2>2. \A i \in DOMAIN taken : taken[i] \in Nat
      BY <1>2 DEF TakenInv, QueueInv
    <2>3. ASSUME NEW i \in DOMAIN taken' PROVE Behind(taken[i])' /\ ~Overlong(taken[i])'
      <3>1. Behind(taken[i]) /\ ~Overlong(taken[i]) /\ taken'[i] = taken[i]
        BY <1>2 DEF TakenInv
      <3>2. taken[i] < line' /\ \A k \in DOMAIN queue' : taken[i] < queue'[k]
        BY <1>2, <2>1, <2>2, <3>1 DEF Behind
      <3> QED BY <1>2, <3>1, <3>2 DEF Behind, Overlong
    <2>4. ASSUME NEW i \in DOMAIN queue' PROVE ~Overlong(queue[i])'
      BY <1>2, <2>1 DEF TakenInv, Overlong
    <2>5. ASSUME NEW n \in 1 .. line' - 1, ~Overlong(n)' PROVE Took(n)' \/ Queued(n)'
      <3>1. CASE n < line
        <4>1. Took(n) \/ Queued(n)
          BY <1>2, <1>6, <2>5, <3>1 DEF TakenInv
        <4> QED BY <1>6, <2>1, <4>1 DEF Queued
      <3>2. CASE n = line
        <4>1. queue' = Append(queue, line)
          BY <1>2, <1>4, <1>6, <2>1, <2>5, <3>2
        <4>2. Len(queue) + 1 \in DOMAIN queue' /\ queue'[Len(queue) + 1] = line
          BY <1>2, <4>1 DEF QueueInv
        <4> QED BY <3>2, <4>2 DEF Queued
      <3> QED BY <1>2, <2>1, <3>1, <3>2
    <2> QED BY <1>2, <2>3, <2>4, <2>5 DEF TakenInv
  <1>8. RequestInv'
    BY <1>2 DEF EachInv, RequestInv, Wants, parse_serve_line
  <1>9. PICK S : Adds(S) /\ S \subseteq {<<line, "too_long">>}
    <2>1. CASE lines' = lines
      BY <1>2, <2>1, AddsNone
    <2>2. CASE lines' = Append(lines, <<line, "too_long">>)
      <3>1. PICK e : e = <<line, "too_long">>
        OBVIOUS
      <3>2. e \in Nat \X Answers
        BY <1>2, <3>1 DEF Answers
      <3> QED BY <1>2, <2>2, <3>1, <3>2, AddsAppended DEF AddsOne
    <2> QED BY <1>4, <2>1, <2>2
  <1>10. \A e \in S : ~IsReply(e) /\ e[2] = "too_long"
    BY <1>9 DEF IsReply
  <1>11. RepliedInOrder'
    BY <1>2, <1>9, <1>10, RepliedFrame DEF EachInv
  <1>12. LossInv'
    BY <1>2, <1>9, <1>10, NoLoss DEF EachInv, LossInv
  <1>13. ReportedOnce'
    <2>1. ReportedOnce
      BY DEF EachInv
    <2>2. CASE line' = line
      <3>1. lines' = lines /\ UNCHANGED stdin
        BY <1>2, <1>4, <2>2
      <3> QED BY <2>1, <2>2, <3>1 DEF ReportedOnce, Overlong
    <2>3. CASE line' = line + 1 /\ ~Overlong(line)
      <3>1. lines' = lines
        BY <1>4, <2>3
      <3>2. ASSUME NEW n \in 1 .. line' - 1, Overlong(n) PROVE n \in 1 .. line - 1
        BY <1>2, <2>3, <3>2
      <3>3. 1 .. line - 1 \subseteq 1 .. line' - 1
        BY <1>2, <2>3
      <3> QED BY <1>2, <2>1, <3>1, <3>2, <3>3 DEF ReportedOnce, Overlong
    <2>4. CASE line' = line + 1 /\ Overlong(line)
      <3>1. PICK e : e = <<line, "too_long">>
        OBVIOUS
      <3>2. lines' = Append(lines, e) /\ e \in Nat \X Answers
        BY <1>2, <1>4, <2>4, <3>1 DEF Answers
      <3>3. AddsOne(e)
        BY <1>2, <3>2, AddsAppended
      <3>4. PICK k : k = Len(lines) + 1
        OBVIOUS
      <3>5. /\ \A i \in DOMAIN lines : i \in DOMAIN lines' /\ lines'[i] = lines[i]
            /\ k \in DOMAIN lines' /\ lines'[k] = e
            /\ \A i \in DOMAIN lines' : i = k \/ i \in DOMAIN lines
        BY <3>3, <3>4 DEF AddsOne, Adds
      <3>6. \A i \in DOMAIN lines : lines[i] # e
        BY <1>2, <2>1, <3>1 DEF ReportedOnce
      <3>7. 1 .. line - 1 \subseteq 1 .. line' - 1 /\ line \in 1 .. line' - 1
            /\ \A n \in 1 .. line' - 1 : n \in 1 .. line - 1 \/ n = line
        BY <1>2, <2>4
      <3>8. ASSUME NEW i \in DOMAIN lines', lines'[i][2] = "too_long"
            PROVE  /\ lines'[i][1] \in 1 .. line' - 1 /\ Overlong(lines[i][1])'
                   /\ \A j \in DOMAIN lines' : lines'[j] = lines'[i] => j = i
        <4>1. CASE i = k
          BY <1>2, <2>4, <3>1, <3>5, <3>6, <3>7, <4>1 DEF Overlong
        <4>2. CASE i \in DOMAIN lines
          BY <1>2, <2>1, <3>5, <3>6, <3>7, <3>8, <4>2 DEF Overlong, ReportedOnce
        <4> QED BY <3>5, <4>1, <4>2
      <3>9. ASSUME NEW n \in 1 .. line' - 1, Overlong(n)'
            PROVE  \E i \in DOMAIN lines' : lines'[i] = <<n, "too_long">>
        <4>1. Overlong(n)
          BY <1>6, <3>9
        <4> QED BY <2>1, <3>1, <3>5, <3>7, <4>1 DEF ReportedOnce
      <3> QED BY <3>8, <3>9 DEF ReportedOnce
    <2> QED BY <1>4, <2>2, <2>3, <2>4
  <1> QED BY <1>1, <1>5, <1>7, <1>8, <1>11, <1>12, <1>13 DEF EachInv

(* The open request is settled when the loop turns: everything taken is replied to. *)
LEMMA AllReplied ==
    ASSUME EachInv, pc = "loop", NEW i \in DOMAIN taken, Wants(taken[i])
    PROVE  Replied(taken[i])
  BY DEF EachInv, RequestInv, RepliedInOrder

(* Steps that leave reader, queue, request and answers alone. *)
LEMMA EachFrame ==
    ASSUME EachInv, OnceInv', UNCHANGED <<stdin, line, rest, skipping, queue, taken, request, lines>>,
           ~reading' => ~reading \/ line = Len(stdin) + 1,
           stop' = "stdin_eof" => ~reading' /\ queue = <<>>,
           pc' = "rpc" => pc = "rpc",
           pc = "rpc" => pc' = "rpc" \/ stop' = "hard_exit",
           stop = "hard_exit" => stop' = "hard_exit",
           stop' = "hard_exit" => pc' = "exited",
           pc = "exited" => pc' = "exited",
           pc = "stopping" /\ stop = "ar_lost" => pc' = "exited" \/ (pc' = "stopping" /\ stop' = "ar_lost")
    PROVE  EachInv'
  <1>1. ReaderInv'
    <2>1. line' \in Nat \ {0} /\ rest' \in Nat /\ skipping' \in BOOLEAN /\ (skipping' <=> rest' # 0)
      BY DEF EachInv, OnceInv, QueueInv, ReaderInv
    <2> QED BY <2>1 DEF EachInv, ReaderInv, Overlong
  <1>2. TakenInv'
    BY DEF EachInv, TakenInv, Behind, Overlong, Took, Queued
  <1>3. RequestInv'
    BY DEF EachInv, RequestInv, Wants, parse_serve_line
  <1>4. Adds({})
    BY AddsNone DEF EachInv, OnceInv
  <1>5. RepliedInOrder'
    BY <1>4, RepliedFrame DEF EachInv
  <1>6. ReportedOnce'
    BY <1>4, NoReport DEF EachInv
  <1>7. LossInv'
    BY <1>4, NoLoss DEF EachInv, LossInv
  <1> QED BY <1>1, <1>2, <1>3, <1>5, <1>6, <1>7 DEF EachInv

LEMMA KeepaliveEach == EachInv /\ Keepalive => EachInv'
  <1> SUFFICES ASSUME EachInv, Keepalive PROVE EachInv'
    OBVIOUS
  <1>1. OnceInv'
    BY KeepaliveOnce DEF EachInv
  <1>2. /\ UNCHANGED <<stdin, line, rest, skipping, reading, queue, taken, lines, stop>>
        /\ pc = "loop" /\ pc' = "rpc" /\ request' = 0
    BY DEF Keepalive, readerVars, input
  <1>3. ReaderInv'
    BY <1>2 DEF EachInv, ReaderInv, Overlong
  <1>4. TakenInv'
    BY <1>2 DEF EachInv, TakenInv, Behind, Overlong, Took, Queued
  <1>5. RequestInv'
    BY <1>2 DEF EachInv, RequestInv
  <1>6. Adds({})
    BY <1>2, AddsNone DEF EachInv, OnceInv
  <1>7. RepliedInOrder'
    <2>1. \A i \in DOMAIN taken : Wants(taken[i]) => Replied(taken[i])
      BY <1>2, AllReplied
    <2>2. ~Replied(0)
      BY DEF Replied, IsReply
    <2> QED BY <1>2, <2>1, <2>2 DEF EachInv, RepliedInOrder, Took, Wants, parse_serve_line, Replied, IsReply
  <1>8. ReportedOnce'
    BY <1>2, <1>6, NoReport DEF EachInv
  <1>9. LossInv'
    BY <1>2, <1>6, NoLoss DEF EachInv, LossInv
  <1> QED BY <1>1, <1>3, <1>4, <1>5, <1>7, <1>8, <1>9 DEF EachInv

LEMMA ServeRpcEach == EachInv /\ serve_rpc => EachInv'
  <1> SUFFICES ASSUME EachInv, serve_rpc PROVE EachInv'
    OBVIOUS
  <1>1. OnceInv'
    BY ServeRpcOnce DEF EachInv
  <1>2. PICK reply \in {"ok", "busy", "pnio_error", "no_answer"} :
          IF retries(reply)
          THEN UNCHANGED <<pc, stop, lines>>
          ELSE /\ IF request = 0 THEN UNCHANGED lines ELSE emit(request, Answered(reply))
               /\ IF is_transport_failure(reply)
                  THEN Stop("ar_lost")
                  ELSE pc' = "loop" /\ UNCHANGED stop
    BY DEF serve_rpc
  <1>3. pc = "rpc" /\ UNCHANGED <<stdin, line, rest, skipping, reading, queue, taken, request>>
    BY DEF serve_rpc, readerVars, input
  <1>4. CASE UNCHANGED <<pc, stop, lines>>
    BY <1>1, <1>3, <1>4, EachFrame DEF EachInv, TakenInv, RequestInv
  <1>5. CASE ~UNCHANGED <<pc, stop, lines>>
    <2>1. /\ request = 0 => UNCHANGED lines
          /\ request # 0 => lines' = Append(lines, <<request, Answered(reply)>>)
          /\ \/ pc' = "stopping" /\ stop' = "ar_lost"
             \/ pc' = "loop" /\ stop' = stop /\ reply # "no_answer"
      BY <1>2, <1>5 DEF emit, Stop, is_transport_failure
    <2>2. stop # "hard_exit" /\ \A i \in DOMAIN lines : lines[i][2] # "transport_error"
      BY <1>3 DEF EachInv, RequestInv, LossInv
    <2>3. ReaderInv' /\ RequestInv'
      <3>1. ReaderInv'
        BY <1>3 DEF EachInv, ReaderInv, Overlong
      <3>2. RequestInv'
        BY <2>1, <2>2 DEF RequestInv
      <3> QED BY <3>1, <3>2
    <2>4. TakenInv'
      BY <1>3, <2>1 DEF EachInv, TakenInv, Behind, Overlong, Took, Queued
    <2>5. \A i \in DOMAIN taken : taken[i] \in Nat \ {0}
      BY DEF EachInv, OnceInv, QueueInv, TakenInv
    <2>6. CASE request = 0
      <3>1. Adds({}) /\ UNCHANGED lines
        BY <2>1, <2>6, AddsNone DEF EachInv, OnceInv
      <3>2. RepliedInOrder'
        <4>1. \A i \in DOMAIN taken : Wants(taken[i]) => Replied(taken[i])
          BY <2>2, <2>5, <2>6 DEF EachInv, RepliedInOrder
        <4>2. UNCHANGED <<stdin, taken, lines>> /\ pc' # "rpc"
          BY <1>3, <2>1, <3>1
        <4> QED BY <4>1, <4>2 DEF EachInv, RepliedInOrder, Took, Wants, parse_serve_line, Replied, IsReply
      <3>3. ReportedOnce'
        BY <1>3, <3>1, NoReport DEF EachInv
      <3>4. LossInv'
        BY <2>2, <3>1, NoLoss DEF EachInv, LossInv
      <3> QED BY <1>1, <2>3, <2>4, <3>2, <3>3, <3>4 DEF EachInv
    <2>7. CASE request # 0
      <3>1. PICK n, w : n = request /\ w = Answered(reply)
        OBVIOUS
      <3>2. /\ w \in {"transport_error", "read_error", "data", "ok"}
            /\ w = "transport_error" <=> reply = "no_answer"
        BY <3>1 DEF Answered, serve_emit_error
      <3>3. n \in Nat \ {0} /\ lines' = Append(lines, <<n, w>>) /\ w \in Answers
        BY <2>1, <2>7, <3>1, <3>2 DEF Answers, EachInv, OnceInv, DeviceInv
      <3>4. AddsOne(<<n, w>>)
        <4>1. PICK e : e = <<n, w>>
          OBVIOUS
        <4>2. e \in Nat \X Answers /\ AnswersInv
          BY <3>3, <4>1 DEF EachInv, OnceInv
        <4> QED BY <3>3, <4>1, <4>2, AddsAppended
      <3>5. IsReply(<<n, w>>) /\ <<n, w>>[2] = w
        BY <3>2, <3>3 DEF IsReply
      <3>6. /\ Len(taken) > 0 /\ n = taken[Len(taken)] /\ Wants(n) /\ ~Replied(n)
            /\ taken \in Seq(DOMAIN stdin) /\ Len(taken) \in DOMAIN taken
        BY <1>3, <2>7, <3>1 DEF EachInv, RequestInv, RepliedInOrder, TakenInv
      <3>7. (\A m : Took(m)' <=> Took(m)) /\ (\A m : Wants(m)' <=> Wants(m)) /\ Took(n)
        BY <1>3, <3>6 DEF Took, Wants, parse_serve_line
      <3>8. ASSUME NEW m, Replied(m) PROVE m < n
        <4>1. Took(m) /\ m # n
          BY <3>6, <3>8 DEF EachInv, RepliedInOrder, Replied
        <4>2. PICK i \in DOMAIN taken : taken[i] = m
          BY <4>1 DEF Took
        <4>3. i < Len(taken)
          BY <3>6, <4>1, <4>2
        <4> QED BY <3>6, <4>2, <4>3 DEF EachInv, TakenInv
      <3>9. RepliesInOrder
        BY RepliesSplit DEF EachInv
      <3>10. RepliesInOrder' /\ \A m : Replied(m)' <=> Replied(m) \/ m = n
        BY <1>3, <3>3, <3>4, <3>5, <3>6, <3>7, <3>8, <3>9, ReplyAdded
      <3>11. RepliedInOrder'
        <4>1. ASSUME NEW i \in DOMAIN taken', Wants(taken[i])' PROVE Replied(taken[i])'
          <5>1. PICK m : m = taken[i] /\ m = taken'[i] /\ i \in DOMAIN taken
            BY <1>3
          <5>2. Wants(m)'
            BY <4>1, <5>1 DEF Wants, parse_serve_line
          <5>3. Wants(m)
            BY <3>7, <5>2
          <5>4. Replied(m) \/ m = n
            BY <2>2, <3>1, <5>1, <5>3 DEF EachInv, RepliedInOrder
          <5>5. Replied(m)'
            BY <3>10, <5>4
          <5> QED BY <5>1, <5>5 DEF Replied
        <4>2. pc' # "rpc"
          BY <2>1
        <4> QED BY <3>10, <4>1, <4>2 DEF RepliedInOrder, RepliesInOrder
      <3>12. ReportedOnce'
        BY <1>3, <3>2, <3>4, NoReport DEF AddsOne, EachInv
      <3>13. LossInv'
        <4>1. CASE w # "transport_error"
          BY <2>2, <3>4, <4>1, NoLoss DEF AddsOne, EachInv
        <4>2. CASE w = "transport_error"
          <5>1. pc' = "stopping" /\ stop' = "ar_lost"
            BY <2>1, <3>2, <4>2
          <5>2. \A i \in DOMAIN lines' : lines'[i][2] = "transport_error" => i = Len(lines')
            BY <2>2, <3>4 DEF AddsOne, Adds
          <5>3. \A i \in DOMAIN lines' : lines'[i][2] = "transport_error" => i + 1 .. Len(lines') = {}
            BY <3>4, <5>2 DEF AddsOne, Adds
          <5> QED BY <5>1, <5>3 DEF LossInv, SilentAfterLoss
        <4> QED BY <4>1, <4>2
      <3> QED BY <1>1, <2>3, <2>4, <3>11, <3>12, <3>13 DEF EachInv
    <2> QED BY <2>6, <2>7
  <1> QED BY <1>4, <1>5

LEMMA ServeLineEach == EachInv /\ ServeLine => EachInv'
  <1> SUFFICES ASSUME EachInv, ServeLine PROVE EachInv'
    OBVIOUS
  <1>1. OnceInv'
    BY ServeLineOnce DEF EachInv
  <1>2. PICK n : n = Head(queue)
    OBVIOUS
  <1>3. /\ pc = "loop" /\ queue # <<>> /\ queue' = Tail(queue) /\ taken' = Append(taken, n)
        /\ UNCHANGED <<stdin, line, rest, skipping, reading>>
        /\ \/ NeedsDevice(n) /\ pc' = "rpc" /\ request' = n /\ UNCHANGED <<lines, stop>>
           \/ LocalAnswer(n) /\ UNCHANGED request
    BY <1>2 DEF ServeLine, readerVars, input, rpcVars
  <1>4. /\ stdin \in Seq(Lines) /\ queue \in Seq(DOMAIN stdin) /\ taken \in Seq(DOMAIN stdin)
        /\ AnswersInv /\ line \in Nat \ {0} /\ TakenInv /\ QueueInv
    BY DEF EachInv, OnceInv, QueueInv, TakenInv
  <1>5. /\ 1 \in DOMAIN queue /\ n = queue[1] /\ n \in DOMAIN stdin /\ n \in Nat \ {0}
        /\ DOMAIN queue = 1 .. Len(queue) /\ Len(queue) \in Nat
        /\ DOMAIN queue' = 1 .. Len(queue) - 1
        /\ \A i \in DOMAIN queue' : queue'[i] = queue[i + 1]
        /\ \A i \in DOMAIN queue : queue[i] \in Nat
    BY <1>2, <1>3, <1>4
  <1>6. /\ \A i \in DOMAIN taken : i \in DOMAIN taken' /\ taken'[i] = taken[i] /\ taken[i] \in Nat
        /\ Len(taken') = Len(taken) + 1 /\ Len(taken') \in DOMAIN taken' /\ taken'[Len(taken')] = n
        /\ taken' \in Seq(DOMAIN stdin)
        /\ \A i \in DOMAIN taken' : (i \in DOMAIN taken /\ i < Len(taken')) \/ i = Len(taken')
    BY <1>3, <1>4, <1>5
  <1>7. \A i \in DOMAIN taken : taken[i] < n
    BY <1>4, <1>5 DEF TakenInv, Behind
  <1>8. (\A m : Took(m)' <=> Took(m) \/ m = n) /\ ~Took(n)
    <2>1. \A m : Took(m)' <=> Took(m) \/ m = n
      BY <1>6 DEF Took
    <2>2. ~Took(n)
      BY <1>5, <1>6, <1>7 DEF Took
    <2> QED BY <2>1, <2>2
  <1>9. ReaderInv'
    BY <1>3 DEF EachInv, ReaderInv, Overlong
  <1>10. stop' # "stdin_eof" /\ stop' # "hard_exit" /\ stop # "hard_exit"
    <2>1. stop # "stdin_eof" /\ stop # "hard_exit"
      BY <1>3 DEF EachInv, TakenInv, RequestInv
    <2> QED BY <1>3, <2>1 DEF LocalAnswer, Stop
  <1>11. TakenInv'
    <2>1. ASSUME NEW i \in DOMAIN taken' PROVE Behind(taken[i])' /\ ~Overlong(taken[i])'
      <3>1. CASE i \in DOMAIN taken
        <4>1. taken'[i] = taken[i] /\ Behind(taken[i]) /\ ~Overlong(taken[i])
          BY <1>4, <1>6, <3>1 DEF TakenInv
        <4>2. \A k \in DOMAIN queue' : k + 1 \in DOMAIN queue
          BY <1>5
        <4>3. taken'[i] < line' /\ \A k \in DOMAIN queue' : taken'[i] < queue'[k]
          BY <1>3, <1>5, <4>1, <4>2 DEF Behind
        <4> QED BY <1>3, <4>1, <4>3 DEF Behind, Overlong
      <3>2. CASE i = Len(taken')
        <4>1. taken'[i] = n /\ n < line /\ ~Overlong(n)
          BY <1>4, <1>5, <1>6, <3>2 DEF QueueInv, TakenInv
        <4>2. \A k \in DOMAIN queue' : k + 1 \in DOMAIN queue /\ 1 < k + 1
          BY <1>5
        <4>3. \A k \in DOMAIN queue' : n < queue'[k]
          BY <1>4, <1>5, <4>2 DEF QueueInv
        <4> QED BY <1>3, <4>1, <4>3 DEF Behind, Overlong
      <3> QED BY <1>6, <3>1, <3>2
    <2>2. \A i, j \in DOMAIN taken' : i < j => taken'[i] < taken'[j]
      <3> SUFFICES ASSUME NEW i \in DOMAIN taken', NEW j \in DOMAIN taken', i < j
                   PROVE  taken'[i] < taken'[j]
        OBVIOUS
      <3>1. i \in DOMAIN taken
        BY <1>4, <1>6
      <3>2. CASE j \in DOMAIN taken
        BY <1>4, <1>6, <3>1, <3>2 DEF TakenInv
      <3>3. CASE j = Len(taken')
        BY <1>6, <1>7, <3>1, <3>3
      <3> QED BY <1>6, <3>2, <3>3
    <2>3. ASSUME NEW i \in DOMAIN queue' PROVE ~Overlong(queue[i])'
      <3>1. i + 1 \in DOMAIN queue /\ queue'[i] = queue[i + 1]
        BY <1>5
      <3> QED BY <1>3, <1>4, <3>1 DEF TakenInv, Overlong
    <2>4. ASSUME NEW m \in 1 .. line' - 1, ~Overlong(m)' PROVE Took(m)' \/ Queued(m)'
      <3>1. Took(m) \/ Queued(m)
        BY <1>3, <1>4, <2>4 DEF TakenInv, Overlong
      <3>2. ASSUME NEW i \in DOMAIN queue, queue[i] = m, i # 1 PROVE Queued(m)'
        <4>1. i - 1 \in DOMAIN queue' /\ queue'[i - 1] = queue[i]
          BY <1>5, <3>2
        <4> QED BY <3>2, <4>1 DEF Queued
      <3> QED BY <1>5, <1>8, <3>1, <3>2 DEF Queued
    <2> QED BY <1>3, <1>6, <1>10, <2>1, <2>2, <2>3, <2>4 DEF TakenInv
  <1>12. (\A m : Wants(m)' <=> Wants(m)) /\ (NeedsDevice(n) => Wants(n))
    BY <1>3 DEF Wants, parse_serve_line, NeedsDevice
  <1>13. RequestInv'
    <2>1. pc' = "rpc" => NeedsDevice(n) /\ request' = n
      BY <1>3 DEF LocalAnswer, Stop
    <2>2. Len(taken') > 0
      BY <1>4, <1>6
    <2>3. pc' = "rpc" => Wants(request)'
      <3> HAVE pc' = "rpc"
      <3>1. Wants(n)' /\ request' = n
        BY <1>12, <2>1
      <3> QED BY <3>1 DEF Wants, parse_serve_line
    <2> QED BY <1>6, <1>10, <2>1, <2>2, <2>3 DEF RequestInv
  <1>14. ASSUME NEW m, Replied(m) PROVE m < n
    <2>1. Took(m)
      BY <1>14 DEF EachInv, RepliedInOrder, Replied
    <2> QED BY <1>7, <2>1 DEF Took
  <1>15. RepliesInOrder
    BY RepliesSplit DEF EachInv
  <1>16. \A i \in DOMAIN lines : lines[i][2] # "transport_error"
    BY <1>3 DEF EachInv, LossInv
  <1>17. ASSUME RepliesInOrder', \A m : Replied(m) => Replied(m)',
                Wants(n) => Replied(n)' \/ (pc' = "rpc" /\ request' = n),
                pc' = "rpc" => ~Replied(n)' /\ request' = n
         PROVE  RepliedInOrder'
    <2>1. ASSUME NEW i \in DOMAIN taken', Wants(taken[i])'
          PROVE  \/ Replied(taken[i])'
                 \/ i = Len(taken') /\ taken'[i] = request' /\ pc' = "rpc"
      <3>1. PICK m : m = taken'[i]
        OBVIOUS
      <3>2. Wants(m)'
        BY <2>1, <3>1 DEF Wants, parse_serve_line
      <3>3. Wants(m)
        BY <1>12, <3>2
      <3>4. CASE i \in DOMAIN taken
        <4>1. Replied(m)
          BY <1>3, <1>6, <3>1, <3>3, <3>4, AllReplied
        <4>2. Replied(m)'
          BY <1>17, <4>1
        <4> QED BY <3>1, <4>2 DEF Replied
      <3>5. CASE i = Len(taken')
        <4>1. m = n
          BY <1>6, <3>1, <3>5
        <4>2. Replied(n)' \/ (pc' = "rpc" /\ request' = n)
          BY <1>17, <3>3, <4>1
        <4> QED BY <3>1, <3>5, <4>1, <4>2 DEF Replied
      <3> QED BY <1>6, <3>4, <3>5
    <2>2. pc' = "rpc" => ~Replied(request)'
      BY <1>17 DEF Replied
    <2> QED BY <1>17, <2>1, <2>2 DEF RepliedInOrder, RepliesInOrder
  <1>18. CASE UNCHANGED lines
    <2>1. Adds({})
      BY <1>4, <1>18, AddsNone
    <2>2. RepliesInOrder' /\ \A m : Replied(m)' <=> Replied(m)
      BY <1>3, <1>8, <1>15, <2>1, NoReply
    <2>3. \/ pc' = "rpc" /\ request' = n
          \/ pc' # "rpc" /\ ~Wants(n)
      <3>1. CASE LocalAnswer(n)
        <4>1. PICK cmd : cmd = parse_serve_line(n)
          OBVIOUS
        <4>2. \A w : lines # Append(lines, w)
          BY <1>4 DEF AnswersInv
        <4> QED BY <1>3, <1>18, <3>1, <4>2 DEF LocalAnswer, Wants, emit, Stop
      <3> QED BY <1>3, <3>1
    <2>4. ~Replied(n)
      <3>1. ~(n < n)
        BY <1>5
      <3> QED BY <1>14, <3>1
    <2>5. RepliedInOrder'
      BY <1>17, <2>2, <2>3, <2>4
    <2>6. ReportedOnce'
      BY <1>3, <2>1, NoReport DEF EachInv
    <2>7. LossInv'
      BY <1>16, <2>1, NoLoss DEF EachInv
    <2> QED BY <1>1, <1>9, <1>11, <1>13, <2>5, <2>6, <2>7 DEF EachInv
  <1>19. CASE ~UNCHANGED lines
    <2>1. PICK w \in {"bad_command", "needs_cyclic", "bye", "pong", "refused_read_only"} :
            lines' = Append(lines, <<n, w>>) /\ pc' # "rpc" /\ Wants(n)
      BY <1>3, <1>19 DEF LocalAnswer, emit, Stop, Wants
    <2>2. AddsOne(<<n, w>>)
      <3>1. PICK e : e = <<n, w>>
        OBVIOUS
      <3>2. e \in Nat \X Answers
        BY <1>5, <3>1 DEF Answers
      <3> QED BY <1>4, <2>1, <3>1, <3>2, AddsAppended
    <2>3. IsReply(<<n, w>>)
      BY <1>5 DEF IsReply
    <2>4. Took(n)' /\ Wants(n)'
      BY <1>8, <1>12, <2>1
    <2>5. RepliesInOrder' /\ \A m : Replied(m)' <=> Replied(m) \/ m = n
      BY <1>3, <1>5, <1>8, <1>14, <1>15, <2>2, <2>3, <2>4, ReplyAdded
    <2>6. RepliedInOrder'
      BY <1>17, <2>1, <2>5
    <2>7. ReportedOnce'
      BY <1>3, <2>2, NoReport DEF AddsOne, EachInv
    <2>8. LossInv'
      BY <1>16, <2>2, NoLoss DEF AddsOne, EachInv
    <2> QED BY <1>1, <1>9, <1>11, <1>13, <2>6, <2>7, <2>8 DEF EachInv
  <1> QED BY <1>18, <1>19

(* Joining one element to a sequence. *)
LEMMA Joined ==
    ASSUME NEW T, NEW l \in Seq(T), NEW e \in T, NEW m, m = l \o <<e>>
    PROVE  /\ m \in Seq(T) /\ Len(m) = Len(l) + 1 /\ Len(l) \in Nat
           /\ DOMAIN l = 1 .. Len(l) /\ DOMAIN m = 1 .. Len(m)
           /\ \A i \in DOMAIN l : m[i] = l[i]
           /\ m[Len(l) + 1] = e
  <1>1. <<e>> \in Seq(T) /\ Len(<<e>>) = 1 /\ <<e>>[1] = e
    OBVIOUS
  <1> QED BY <1>1

LEMMA ServeExitEach == EachInv /\ ServeExit => EachInv'
  <1> SUFFICES ASSUME EachInv, ServeExit PROVE EachInv'
    OBVIOUS
  <1>1. OnceInv' /\ AnswersInv /\ AnswersInv'
    BY ServeExitOnce DEF EachInv, OnceInv
  <1>2. /\ UNCHANGED <<stdin, line, rest, skipping, reading, queue, taken, request, stop>>
        /\ pc = "stopping" /\ pc' = "exited"
    BY DEF ServeExit, readerVars, input, rpcVars
  <1> DEFINE S == {<<0, "ar_lost">>, <<0, IF stop = "ar_lost" THEN "stopped_1" ELSE "stopped_0">>}
  <1>3. Adds(S)
    <2>1. PICK a, b : a = <<0, "ar_lost">> /\ b = <<0, IF stop = "ar_lost" THEN "stopped_1" ELSE "stopped_0">>
      OBVIOUS
    <2>2. /\ stop = "ar_lost" => lines' = (lines \o <<a>>) \o <<b>>
          /\ stop # "ar_lost" => lines' = (lines \o <<>>) \o <<b>>
          /\ S = {a, b}
      BY <2>1 DEF ServeExit
    <2> HIDE DEF S
    <2>3. lines \in Seq(Nat \X Answers) /\ lines' \in Seq(Nat \X Answers)
      BY <1>1 DEF AnswersInv
    <2>4. PICK l, m : l = lines /\ m = lines'
      OBVIOUS
    <2>5. a \in Nat \X Answers /\ b \in Nat \X Answers
      BY <2>1 DEF Answers
    <2>6. CASE stop = "ar_lost"
      <3>1. /\ Len(m) = Len(l) + 2 /\ Len(l) \in Nat /\ DOMAIN l = 1 .. Len(l) /\ DOMAIN m = 1 .. Len(m)
            /\ \A i \in DOMAIN l : m[i] = l[i]
            /\ m[Len(l) + 1] = a /\ m[Len(l) + 2] = b
        <4>1. PICK k : k = l \o <<a>>
          OBVIOUS
        <4>2. m = k \o <<b>> /\ l \in Seq(Nat \X Answers)
          BY <2>2, <2>3, <2>4, <2>6, <4>1
        <4>3. /\ k \in Seq(Nat \X Answers) /\ Len(k) = Len(l) + 1 /\ Len(l) \in Nat
              /\ DOMAIN l = 1 .. Len(l) /\ DOMAIN k = 1 .. Len(k)
              /\ \A i \in DOMAIN l : k[i] = l[i]
              /\ k[Len(l) + 1] = a
          BY <2>5, <4>1, <4>2, Joined
        <4>4. /\ Len(m) = Len(k) + 1 /\ DOMAIN m = 1 .. Len(m)
              /\ \A i \in DOMAIN k : m[i] = k[i]
              /\ m[Len(k) + 1] = b
          BY <2>5, <4>2, <4>3, Joined
        <4>5. m[Len(l) + 1] = a /\ \A i \in DOMAIN l : m[i] = l[i]
          BY <4>3, <4>4
        <4> QED BY <4>3, <4>4, <4>5
      <3>2. \A i \in DOMAIN m : i > Len(l) => m[i] \in S
        BY <2>2, <3>1
      <3> QED BY <2>4, <3>1, <3>2 DEF Adds
    <2>7. CASE stop # "ar_lost"
      <3>1. /\ Len(m) = Len(l) + 1 /\ Len(l) \in Nat /\ DOMAIN l = 1 .. Len(l) /\ DOMAIN m = 1 .. Len(m)
            /\ \A i \in DOMAIN l : m[i] = l[i]
            /\ m[Len(l) + 1] = b
        <4>1. m = l \o <<b>> /\ l \in Seq(Nat \X Answers)
          BY <2>2, <2>3, <2>4, <2>7
        <4> QED BY <2>5, <4>1, Joined
      <3>2. \A i \in DOMAIN m : i > Len(l) => m[i] \in S
        BY <2>2, <3>1
      <3> QED BY <2>4, <3>1, <3>2 DEF Adds
    <2> QED BY <2>6, <2>7
  <1>4. /\ \A e \in S : ~IsReply(e) /\ e[2] # "too_long" /\ e[2] # "transport_error"
        /\ stop = "ar_lost" => \A e \in S : e[2] \in {"ar_lost", "stopped_1", "too_long"}
    BY DEF IsReply
  <1> HIDE DEF S
  <1>5. ReaderInv'
    BY <1>2 DEF EachInv, ReaderInv, Overlong
  <1>6. TakenInv'
    BY <1>2 DEF EachInv, TakenInv, Behind, Overlong, Took, Queued
  <1>7. RequestInv'
    BY <1>2 DEF RequestInv
  <1>8. RepliedInOrder'
    BY <1>2, <1>3, <1>4, RepliedFrame DEF EachInv
  <1>9. ReportedOnce'
    BY <1>2, <1>3, <1>4, NoReport DEF EachInv
  <1>10. LossInv'
    BY <1>2, <1>3, <1>4, NoLoss DEF EachInv, LossInv
  <1> QED BY <1>1, <1>5, <1>6, <1>7, <1>8, <1>9, <1>10 DEF EachInv

LEMMA EachInvariant == Spec => []EachInv
  <1>1. EachInv /\ [Next]_vars => EachInv'
    <2> SUFFICES ASSUME EachInv, [Next]_vars PROVE EachInv'
      OBVIOUS
    <2>1. CASE ReadEof \/ ServeStops \/ ServeEof \/ Signal \/ UNCHANGED vars
      <3>1. UNCHANGED <<stdin, line, rest, skipping, queue, taken, request, lines>>
        BY <2>1 DEF ReadEof, ServeStops, ServeEof, Signal, Stop, readerVars, input, rpcVars, vars
      <3>2. OnceInv'
        <4>1. UNCHANGED executed /\ (pc' = "rpc" => pc = "rpc")
          BY <2>1 DEF ReadEof, ServeStops, ServeEof, Signal, Stop, vars
        <4> QED BY <3>1, <4>1, OnceFrame DEF EachInv
      <3>3. (~reading' => ~reading \/ line = Len(stdin) + 1) /\ (~reading => ~reading')
        <4>1. CASE ReadEof
          <5>1. line \in Nat /\ Len(stdin) \in Nat /\ line <= Len(stdin) + 1 /\ line > Len(stdin)
            BY <4>1 DEF ReadEof, EachInv, OnceInv, QueueInv, ReaderInv
          <5>2. line = Len(stdin) + 1
            BY <5>1
          <5> QED BY <4>1, <5>2 DEF ReadEof
        <4>2. CASE UNCHANGED reading
          BY <4>2
        <4> QED BY <2>1, <4>1, <4>2 DEF ServeStops, ServeEof, Signal, readerVars, vars
      <3>4. stop' = "stdin_eof" => ~reading' /\ queue = <<>>
        <4>1. stop = "stdin_eof" => ~reading /\ queue = <<>>
          BY DEF EachInv, TakenInv
        <4>2. stop' = "stdin_eof" => stop = "stdin_eof" \/ ServeEof
          BY <2>1 DEF ReadEof, ServeStops, Signal, Stop, vars
        <4> QED BY <3>3, <4>1, <4>2 DEF ServeEof
      <3>5. /\ pc' = "rpc" => pc = "rpc"
            /\ pc = "rpc" => pc' = "rpc" \/ stop' = "hard_exit"
            /\ stop' = "hard_exit" => pc' = "exited"
            /\ stop = "hard_exit" => stop' = "hard_exit"
            /\ pc = "exited" => pc' = "exited"
            /\ pc = "stopping" /\ stop = "ar_lost" =>
                 pc' = "exited" \/ (pc' = "stopping" /\ stop' = "ar_lost")
        BY <2>1 DEF ReadEof, ServeStops, ServeEof, Signal, Stop, vars, EachInv, RequestInv
      <3> QED BY <3>1, <3>2, <3>3, <3>4, <3>5, EachFrame
    <2> QED
      BY <2>1, ReadChunkEach, ServeLineEach, KeepaliveEach, ServeRpcEach, ServeExitEach
      DEF Next, Reader, Main
  <1> QED BY <1>1, InitEach, PTL DEF Spec

(* Every line that fits, and no part of one that does not, is taken by the main loop *)
(* of cmd_serve in order and replied to exactly once and in order; read_bounded_line *)
(* reports every over-long line it has passed once; at the end of stdin no line is   *)
(* left, and after a transport error nothing more is answered: for any stdin, any    *)
(* line limit, and however the reader, the loop, the device and signals interleave.  *)
THEOREM OneAnswerForEachLine == Spec => []OneAnswerEach
  <1>1. EachInv => TakenInOrder
    <2> SUFFICES ASSUME EachInv PROVE TakenInOrder
      OBVIOUS
    <2>1. /\ TakenInv /\ taken \in Seq(DOMAIN stdin) /\ stdin \in Seq(Lines)
          /\ \A i \in DOMAIN taken : taken[i] \in DOMAIN stdin /\ taken[i] \in Nat
          /\ \A i \in DOMAIN queue : queue[i] \in Nat
          /\ line \in Nat \ {0} /\ Len(stdin) \in Nat /\ DOMAIN stdin = 1 .. Len(stdin)
      BY DEF EachInv, OnceInv, QueueInv, TakenInv
    <2>2. ASSUME NEW i \in DOMAIN taken
          PROVE  Whole(taken[i]) /\ \A n \in 1 .. taken[i] : Whole(n) => Took(n)
      <3>1. Whole(taken[i]) /\ Behind(taken[i])
        BY <2>1 DEF TakenInv, Whole
      <3>2. ASSUME NEW n \in 1 .. taken[i], Whole(n) PROVE Took(n)
        <4>1. n \in 1 .. line - 1 /\ \A k \in DOMAIN queue : queue[k] # n
          BY <2>1, <3>1 DEF Behind
        <4> QED BY <2>1, <3>2, <4>1 DEF TakenInv, Whole, Queued
      <3> QED BY <3>1, <3>2
    <2>3. ASSUME stop = "stdin_eof", NEW n \in DOMAIN stdin, Whole(n) PROVE Took(n)
      <3>1. line = Len(stdin) + 1 /\ queue = <<>>
        BY <2>3 DEF EachInv, TakenInv, ReaderInv
      <3>2. n \in 1 .. line - 1
        BY <2>1, <3>1
      <3> QED BY <2>1, <2>3, <3>1, <3>2 DEF TakenInv, Whole, Queued
    <2> QED BY <2>1, <2>2, <2>3 DEF TakenInOrder, TakenInv
  <1>2. EachInv => OneAnswerEach
    BY <1>1 DEF EachInv, LossInv, OneAnswerEach
  <1> QED BY <1>2, EachInvariant, PTL

==============================================================================
