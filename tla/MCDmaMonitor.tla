------------------------------ MODULE MCDmaMonitor ------------------------------
(* Values for the sequence of monitors: a cfg cannot write one.                 *)
EXTENDS DmaMonitor

(* Two WDMA engines and, behind them, a monitor that keeps no pointer.          *)
WdmaAndQdma == <<"wdma_rx", "qdma_tx">>
QdmaRx == <<"qdma_rx">>
=================================================================================
