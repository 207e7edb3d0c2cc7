--------------------------- MODULE MCMarketData ---------------------------
(***************************************************************************)
(* Instances for TLC of components of the market data system, in one run:  *)
(* what the TCP receiver calls of the others changes nothing in it, so a   *)
(* behaviour is about the one that focus names, and the others stand still.*)
(***************************************************************************)
EXTENDS TcpReceiver, AlertManager, MetricsCollector

VARIABLE focus

allVars == <<focus, vars, alertVars, metricsVars>>

AllInit ==
  /\ focus \in {"TCPReceiver", "AlertManager", "windows", "gauge"}
  /\ Init /\ AlertInit /\ MetricsInit

AllNext ==
  /\ UNCHANGED focus
  /\ \/ /\ focus = "TCPReceiver" /\ Next
        /\ UNCHANGED <<alertVars, metricsVars>>
     \/ /\ focus = "AlertManager" /\ AlertNext
        /\ UNCHANGED <<vars, metricsVars>>
     \/ /\ focus = "windows" /\ WindowsNext
        /\ UNCHANGED <<vars, alertVars, gaugeVars>>
     \/ /\ focus = "gauge" /\ GaugeNext
        /\ UNCHANGED <<vars, alertVars, windowVars>>

(* What fairness asks for is enabled only when the focus is on it.         *)
AllSpec == AllInit /\ [][AllNext]_allVars /\ Fairness
=============================================================================
