------------------------------ MODULE RxStats ------------------------------
(***************************************************************************)
(* What the receive path of the cyclic controller (cyclic.rs) says about   *)
(* the link: the statistics and the cycle counter of the frames.           *)
(*                                                                         *)
(* The device numbers its frames; frame k carries the counter              *)
(* k * Step % Modulus.  The wire loses, repeats and swaps frames.  Every   *)
(* event is kept in `log`, and the properties compare the counters with    *)
(* what the log as a whole says.                                           *)
(***************************************************************************)
EXTENDS Integers, Sequences, SequencesExt, FiniteSetsExt

CONSTANTS
  Modulus,       \* of the cycle counter; 2^16 in the code
  Step,          \* rx_counter_step: send clock factor times reduction ratio
  Cycle,         \* the target cycle time
  Watchdog,      \* the watchdog time
  Gaps,          \* bound: the times between two events
  FirstFrame,    \* bound: the first frame to arrive, shortly before the wrap
  Jumps,         \* bound: how far ahead of the last frame the next may be
  MaxEvents      \* bound: events of a run

ASSUME RxAssumption ==
  /\ {Modulus, Step, Cycle, Watchdog, MaxEvents} \subseteq Nat \ {0}
  /\ Gaps \cup Jumps \cup {FirstFrame} \subseteq Nat

VARIABLES
  stats,                  \* CyclicStats
  last_rx_cycle_counter,  \* NoCounter before the first frame
  now,                    \* the clock
  log                     \* the events since start()

rxVars == <<stats, last_rx_cycle_counter, now, log>>

NoCounter == -1
Never     == -1

abs_diff(a, b) == IF a < b THEN b - a ELSE a - b
larger(a, b)   == IF a < b THEN b ELSE a

(* CyclicStats::new; min_rx_interval_us starts at 2^31 and is left out *)
NewStats(t) ==
  [frames_received |-> 0, frames_missed |-> 0, frames_invalid |-> 0, frames_duplicate |-> 0,
   frames_out_of_order |-> 0, max_rx_jitter |-> 0, max_rx_interval |-> 0, rx_interval_count |-> 0,
   last_receive_time |-> t, last_accepted_time |-> Never, interval_disturbed |-> FALSE]

RxInit ==
  /\ stats = NewStats(0)
  /\ last_rx_cycle_counter = NoCounter
  /\ now = 0
  /\ log = <<>>

-----------------------------------------------------------------------------
(* mutant: exactly half the counter ahead counts as late *)
track_cycle_counter_HalfIsLate(s, prev, rx) ==
  LET forward == (rx - prev) % Modulus IN
  CASE prev = NoCounter \/ (rx # prev /\ rx = (prev + Step) % Modulus) -> s
    [] prev # NoCounter /\ rx = prev -> [s EXCEPT !.frames_duplicate = @ + 1]
    [] prev # NoCounter /\ rx \notin {prev, (prev + Step) % Modulus} ->
         IF forward >= Modulus \div 2 THEN [s EXCEPT !.frames_out_of_order = @ + 1]
         ELSE [s EXCEPT !.frames_missed = @ + larger(forward \div Step - 1, 0)]

(* track_cycle_counter: duplicates, gaps and frames that are late *)
track_cycle_counter(s, prev, rx) ==
  LET forward == (rx - prev) % Modulus IN
  CASE prev = NoCounter \/ (rx # prev /\ rx = (prev + Step) % Modulus) -> s
    [] prev # NoCounter /\ rx = prev -> [s EXCEPT !.frames_duplicate = @ + 1]
    [] prev # NoCounter /\ rx \notin {prev, (prev + Step) % Modulus} ->
         IF forward > Modulus \div 2 THEN [s EXCEPT !.frames_out_of_order = @ + 1]
         ELSE [s EXCEPT !.frames_missed = @ + larger(forward \div Step - 1, 0)]

(* the intervals between accepted frames; only undisturbed ones are jitter *)
accept(s, t) ==
  LET interval == t - s.last_accepted_time
      measured == [s EXCEPT !.max_rx_interval = larger(@, interval)]
      steady   == [measured EXCEPT !.max_rx_jitter = larger(@, abs_diff(interval, Cycle)),
                                   !.rx_interval_count = @ + 1]
  IN [(CASE s.last_accepted_time = Never -> s
         [] s.last_accepted_time # Never /\ s.interval_disturbed -> measured
         [] s.last_accepted_time # Never /\ ~s.interval_disturbed -> steady)
       EXCEPT !.last_accepted_time = t, !.last_receive_time = t, !.interval_disturbed = FALSE]

(* one frame of our IOCR *)
process_input_frame(k, valid) ==
  LET rx == (k * Step) % Modulus
      counted == [stats EXCEPT !.frames_received = @ + 1]
      timed == IF valid THEN accept(counted, now') ELSE [counted EXCEPT !.interval_disturbed = TRUE]
      tracked == track_cycle_counter(timed, last_rx_cycle_counter, rx)
  IN /\ stats' = IF valid THEN tracked ELSE [tracked EXCEPT !.frames_invalid = @ + 1]
     /\ last_rx_cycle_counter' = rx

(* the places in the log where a frame arrived, and where the last one did *)
Arrivals   == {i \in DOMAIN log : log[i].frame >= 0}
last_frame == log[Max(Arrivals)].frame

(* the wire: the next frame, a later one, the same one or the one before *)
NextFrames ==
  IF Arrivals = {} THEN {FirstFrame}
  ELSE ({last_frame + j : j \in Jumps} \cup {last_frame - 1}) \cap Nat

Receive ==
  /\ Len(log) < MaxEvents
  /\ \E d \in Gaps : now' = now + d
  /\ now' - stats.last_receive_time <= Watchdog + 1
  /\ \E valid \in BOOLEAN, k \in NextFrames :
       /\ process_input_frame(k, valid)
       /\ log' = Append(log, [frame |-> k, valid |-> valid, at |-> now'])

(* mutant: a timeout leaves the interval undisturbed *)
handle_watchdog_timeout_Steady(s) == [s EXCEPT !.frames_missed = @ + 1]

(* check_receive_watchdog, handle_watchdog_timeout *)
handle_watchdog_timeout(s) == [s EXCEPT !.frames_missed = @ + 1, !.interval_disturbed = TRUE]

check_receive_watchdog ==
  /\ Len(log) < MaxEvents
  /\ now' = stats.last_receive_time + Watchdog + 1
  /\ now' >= now
  /\ stats' = [handle_watchdog_timeout(stats) EXCEPT !.last_receive_time = now']
  /\ log' = Append(log, [frame |-> -1, valid |-> FALSE, at |-> now'])
  /\ UNCHANGED last_rx_cycle_counter

(* stop() and start() again *)
Restart ==
  /\ log # <<>>
  /\ now' = 0
  /\ stats' = NewStats(now')
  /\ last_rx_cycle_counter' = NoCounter
  /\ log' = <<>>

RxNext == Receive \/ check_receive_watchdog \/ Restart

RxSpec == RxInit /\ [][RxNext]_rxVars

-----------------------------------------------------------------------------
(* Properties *)

Timeouts == Cardinality(DOMAIN log \ Arrivals)
Numbers  == {log[i].frame : i \in Arrivals}
Lost     == IF Numbers = {} THEN 0 ELSE Max(Numbers) - Min(Numbers) + 1 - Cardinality(Numbers)

(* Two frames with no other frame between them, and how far the second is ahead *)
Successive ==
  {p \in Arrivals \X Arrivals : p[1] < p[2] /\ \A m \in p[1] + 1 .. p[2] - 1 : m \notin Arrivals}
Ahead(p) == log[p[2]].frame - log[p[1]].frame

(* no frame overtook another, and no outage was longer than half the counter *)
InOrder == \A p \in Successive : Ahead(p) >= 0 /\ Ahead(p) * Step <= Modulus \div 2

(* frames overtook each other by less than half the counter *)
Nearby == \A p \in Successive : abs_diff(Ahead(p), 0) * Step < Modulus \div 2

(* frames_missed, frames_duplicate and frames_out_of_order are exact across the *)
(* wrap of the counter when frames arrive in order, up to an outage of half the *)
(* counter; when frames overtake each other losses are never under-reported.    *)
LossAccounted ==
  /\ InOrder => /\ stats.frames_missed = Timeouts + Lost
                /\ stats.frames_duplicate = Cardinality(Arrivals) - Cardinality(Numbers)
                /\ stats.frames_out_of_order = 0
  /\ Nearby => stats.frames_missed >= Timeouts + Lost

(* Two accepted frames with nothing accepted between them ... *)
Intervals ==
  {p \in (DOMAIN log) \X (DOMAIN log) :
     /\ p[1] < p[2] /\ log[p[1]].valid /\ log[p[2]].valid
     /\ \A m \in p[1] + 1 .. p[2] - 1 : ~log[m].valid}
Length(p) == log[p[2]].at - log[p[1]].at

(* ... are a steady interval if nothing at all happened between them: the       *)
(* jitter and the interval count come from exactly those, however timeouts,     *)
(* invalid frames and recoveries alternate, and the longest gap from all.       *)
JitterIsSteady ==
  LET steady == {p \in Intervals : p[2] = p[1] + 1} IN
  /\ stats.rx_interval_count = Cardinality(steady)
  /\ stats.max_rx_jitter = Max({0} \cup {abs_diff(Length(p), Cycle) : p \in steady})
  /\ stats.max_rx_interval = Max({0} \cup {Length(p) : p \in Intervals})
=============================================================================
