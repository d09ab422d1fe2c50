------------------------------- MODULE DmaMonitor -------------------------------
(* mtk_dma_monitor: a timer looks once a second at the DMA engines of the frame *)
(* engine and asks for a reset when one of them seems to hang.  Each monitor    *)
(* compares a pointer of its engine with the one of its last look and counts.   *)
(* The engines are external: they move, they are busy, they hang until the      *)
(* frame engine is reset.  EthReset models what becomes of the request.         *)
EXTENDS Naturals, Sequences

CONSTANTS
  Monitors,   \* mtk_reset_monitor_func, or a part of it, in its order
  WdmaCount,  \* MTK_WDMA_CNT
  Pointers    \* the values of the pointers, 0 among them

Names == {"wdma_tx", "wdma_rx", "qdma_tx", "qdma_rx", "adma_rx", "tdma_tx", "tdma_rx"}

ASSUME MonitorsAssumption == Monitors \in Seq(Names)
ASSUME WdmaAssumption == WdmaCount \in Nat \ {0} /\ 0 \in Pointers

Wdma == {"wdma_tx", "wdma_rx"}

(* Every monitor has its own static counters, the WDMA ones one per engine.     *)
Engines == {e \in Names \X (0 .. WdmaCount - 1) :
              /\ \E k \in DOMAIN Monitors : Monitors[k] = e[1]
              /\ e[1] \in Wdma \/ e[2] = 0}

VARIABLES
  pointer,   \* hardware: what the pointer register of an engine reads
  blocked,   \* hardware: the engine is busy and its queues do not move
  hung,      \* hardware: it will stay so until the frame engine is reset
  pre,       \* the pointer at the last look: pre_dtx, pre_drx, pre_fq_head, ...
  err_cnt,   \* counted up to Limit
  request    \* what the last run asked for: "none", "reset" or "stop"

vars == <<pointer, blocked, hung, pre, err_cnt, request>>

Limit == 3

(* mtk_monitor_qdma_tx keeps no pointer.                                        *)
Stuck(e) == blocked[e] /\ (e[1] = "qdma_tx" \/ pointer[e] = pre[e])

FaultyCount(e) ==
  IF Stuck(e) /\ err_cnt[e] + 1 >= Limit THEN err_cnt[e] + 1 ELSE 0

(* The counter after a look.  In mtk_monitor_qdma_rx the ELSE that clears it    *)
(* belongs to the test of the limit, not to the test of the engine.             *)
Count(e) ==
  IF e[1] = "qdma_rx"
  THEN IF ~Stuck(e) THEN err_cnt[e] ELSE IF err_cnt[e] + 1 >= Limit THEN Limit ELSE 0
  ELSE IF ~Stuck(e) THEN 0 ELSE IF err_cnt[e] < Limit THEN err_cnt[e] + 1 ELSE Limit

Reports(k) ==
  \E e \in Engines : e[1] = Monitors[k] /\ Stuck(e) /\ Count(e) >= Limit

FaultyHasRun(k) == \A j \in DOMAIN Monitors : Reports(j) => k >= j

(* The run ends with the first monitor that reports; the ones behind it do not  *)
(* look at all.                                                                 *)
HasRun(k) == \A j \in 1 .. k - 1 : ~Reports(j)

Looked(e) == \E k \in DOMAIN Monitors : Monitors[k] = e[1] /\ HasRun(k)

Tick ==
  /\ err_cnt' = [e \in Engines |-> IF Looked(e) THEN Count(e) ELSE err_cnt[e]]
  /\ pre' = [e \in Engines |-> IF Looked(e) THEN pointer[e] ELSE pre[e]]
  /\ request' = IF \A k \in DOMAIN Monitors : ~Reports(k) THEN "none"
                ELSE IF \E k \in DOMAIN Monitors :
                          HasRun(k) /\ Reports(k) /\ Monitors[k] \in Wdma
                THEN "reset" ELSE "stop"
  /\ UNCHANGED <<pointer, blocked, hung>>

Move(e) ==
  /\ ~hung[e] /\ \E p \in Pointers : pointer' = [pointer EXCEPT ![e] = p]
  /\ blocked' \in {blocked, [blocked EXCEPT ![e] = ~@]}
  /\ UNCHANGED <<hung, pre, err_cnt, request>>

Hang(e) ==
  /\ ~hung[e]
  /\ hung' = [hung EXCEPT ![e] = TRUE] /\ blocked' = [blocked EXCEPT ![e] = TRUE]
  /\ UNCHANGED <<pointer, pre, err_cnt, request>>

(* The reset that was asked for: it clears the engines and no counter.          *)
FeReset ==
  /\ request # "none" /\ request' = "none"
  /\ pointer' = [e \in Engines |-> 0]
  /\ blocked' = [e \in Engines |-> FALSE] /\ hung' = [e \in Engines |-> FALSE]
  /\ UNCHANGED <<pre, err_cnt>>

Init ==
  /\ pointer = [e \in Engines |-> 0] /\ blocked = [e \in Engines |-> FALSE]
  /\ hung = [e \in Engines |-> FALSE]
  /\ pre = [e \in Engines |-> 0] /\ err_cnt = [e \in Engines |-> 0]
  /\ request = "none"

Next == Tick \/ FeReset \/ \E e \in Engines : Move(e) \/ Hang(e)

(* The timer re-arms itself at the end of every run.                            *)
Spec == Init /\ [][Next]_vars /\ WF_vars(Tick)

---------------------------------------------------------------------------------
(* Properties                                                                   *)

(* A hang does not go unnoticed, whatever the other engines do: no counter is   *)
(* shared, and the monitors that are skipped are skipped for a request.         *)
HangIsSeen == \A e \in Engines : hung[e] ~> request # "none" \/ ~hung[e]

(* A hang of WDMA is never treated as one of the others for long: it leads to   *)
(* a reset of the Wi-Fi chips, although other monitors report at the same time, *)
(* unless the frame engine is reset for another reason.                         *)
WdmaComesFirst ==
  \A e \in Engines : e[1] \in Wdma => (hung[e] ~> request = "reset" \/ ~hung[e])
=================================================================================
