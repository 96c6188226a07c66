------------------------------- MODULE MCView --------------------------------
(* What mkdev watches and shows, and how it stops: the states of the prober, *)
(* the menu of the bar, and the end of a daemon.  The three share no         *)
(* variable, so a behaviour of the run moves one of them: in the others'     *)
(* parts the prober has stopped, the menu is as it was drawn first, with     *)
(* nothing to draw, and the daemon serves.  The prober begins with one       *)
(* upstream that answers and one that does not.                              *)
EXTENDS Prober, BarMenu, DaemonStop

CONSTANTS listener, refresh, t1, t2

MCTargets == {t1, t2}
MCMenuNames == 1..3
MCRows == 1..2

VARIABLE part

ProberStays ==
  /\ routes = [h \in Hosts |-> None] /\ answers = {} /\ cancelled = TRUE /\ passes = FALSE
  /\ states = [h \in Hosts |-> None]
  /\ tick = "stopped" /\ todo = [h \in Hosts |-> None] /\ live = {}
  /\ job = [w \in Workers |-> None]
  /\ moved = {} /\ moves = 0

AsServing == shared /\ Subscribed = {}

MCInit ==
  /\ MenuInit /\ StopInit
  /\ \/ part = "prober" /\ ProberInit /\ answers = {t1} /\ AsServing
     \/ part = "menu" /\ ProberStays /\ AsServing
     \/ part = "stop" /\ ProberStays

MCNext ==
  /\ UNCHANGED part
  /\ \/ part = "prober" /\ ProberNext /\ UNCHANGED <<menuVars, stopVars>>
     \/ part = "menu" /\ MenuNext /\ UNCHANGED <<proberVars, stopVars>>
     \/ part = "stop" /\ DaemonStopNext /\ UNCHANGED <<proberVars, menuVars>>

MCSpec ==
  /\ MCInit /\ [][MCNext]_<<part, proberVars, menuVars, stopVars>>
  /\ ProberFairness /\ MenuFairness /\ DaemonStopFairness

TypesOK == ProberTypeOK /\ MenuTypeOK /\ StopTypeOK
=============================================================================
