----------------------------- MODULE MCReceive -----------------------------
(***************************************************************************)
(* Three independent machines on the receiving side, checked in one run:   *)
(* the block walkers, the statistics of the receive path and the layer-2   *)
(* commands.  They share nothing, so the run takes their sum and not their *)
(* product: one of them moves and the two others rest in a state of their  *)
(* own.                                                                    *)
(***************************************************************************)
EXTENDS BlockWalk, RxStats, Dcp

VARIABLE machine     \* the one that moves

mcVars == <<machine, walkVars, rxVars, dcpVars>>

WalkRests ==
  /\ walker = "set" /\ units = <<>> /\ honest = FALSE /\ walking = FALSE
  /\ len = 0 /\ off = 0 /\ lim = 0 /\ left = <<0, 0, 0>>
  /\ out = {} /\ touched = 0 /\ steps = 0

DcpRests == DcpInit /\ name = [d \in Devices |-> CHOOSE n \in Names : TRUE]

MCInit ==
  \/ machine = "walk" /\ WalkInit /\ RxInit /\ DcpRests
  \/ machine = "rx" /\ WalkRests /\ RxInit /\ DcpRests
  \/ machine = "dcp" /\ WalkRests /\ RxInit /\ DcpInit

MCNext ==
  /\ UNCHANGED machine
  /\ \/ machine = "walk" /\ WalkNext /\ UNCHANGED <<rxVars, dcpVars>>
     \/ machine = "rx" /\ RxNext /\ UNCHANGED <<walkVars, dcpVars>>
     \/ machine = "dcp" /\ DcpNext /\ UNCHANGED <<walkVars, rxVars>>

MCSpec == MCInit /\ [][MCNext]_mcVars
=============================================================================
