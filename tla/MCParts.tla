------------------------------ MODULE MCParts ------------------------------
(***************************************************************************)
(* The parts that share no state with others: the kernel's heap and lists, *)
(* the CLINT, the timer, the XMODEM loader and the LCD with its DMA.  Init *)
(* picks which of them a behaviour is about; the others stay as they were. *)
(***************************************************************************)
EXTENDS Heap4, ListC, Clint, Timer, Xmodem, LcdPanel

VARIABLE which

CONSTANTS U1, U2, Rdy, Dly, X, Y, Z

(* Sizes: none, small ones, more than the heap, and the last ones before   *)
(* the allocated bit and before size_t run out.                            *)
MCSizes == {0, 1, 4, 31, 61, 63}

(* Delays within one half of the time and across its roll-over.            *)
MCDelays == {0, W + 2, 2 * W - 1}

Mode(armed, periodic, presc) ==
    [en |-> TRUE, armed |-> armed, periodic |-> periodic, presc_en |-> presc,
     irq_en |-> TRUE, soft_reset |-> FALSE]
MCCtrl == {Off, [Off EXCEPT !.soft_reset = TRUE], Mode(FALSE, FALSE, FALSE),
           Mode(TRUE, FALSE, FALSE), Mode(TRUE, TRUE, TRUE)}
MCWrites ==
    [reg : {"CTRL"}, val : MCCtrl] \cup [reg : {"STATUS"}, val : {TRUE}] \cup
    [reg : {"COUNT", "CMP"}, val : 0 .. CountMod - 1] \cup
    [reg : {"PERIOD", "PRESC"}, val : {0, 1}]
MCTicks == 0 .. CountMod - 1

(* Data that looks like control bytes, and so does noise.                  *)
HardImage == <<<<SOH, 2, 5>>, <<EOT, SOH, CAN>>>>
HardNoise == {SOH, EOT, 2, ERR}

MCInit ==
    /\ which \in {"heap", "list", "clint", "timer", "xmodem", "lcd"}
    /\ HeapInit /\ ListInit /\ ClintInit /\ TimerInit /\ XmodemInit /\ LcdInit
    /\ which # "list" => xItemValue = [x \in Items |-> 0]

MCNext ==
    /\ UNCHANGED which
    /\ \/ which = "heap" /\ HeapNext
          /\ UNCHANGED <<listVars, clintVars, timerVars, xmodemVars, lcdVars>>
       \/ which = "list" /\ ListNext
          /\ UNCHANGED <<heapVars, clintVars, timerVars, xmodemVars, lcdVars>>
       \/ which = "clint" /\ ClintNext
          /\ UNCHANGED <<heapVars, listVars, timerVars, xmodemVars, lcdVars>>
       \/ which = "timer" /\ TimerNext
          /\ UNCHANGED <<heapVars, listVars, clintVars, xmodemVars, lcdVars>>
       \/ which = "xmodem" /\ XmodemNext
          /\ UNCHANGED <<heapVars, listVars, clintVars, timerVars, lcdVars>>
       \/ which = "lcd" /\ LcdNext
          /\ UNCHANGED <<heapVars, listVars, clintVars, timerVars, xmodemVars>>

partsVars == <<heapVars, listVars, clintVars, timerVars, xmodemVars, lcdVars, which>>

(* XmodemFairness and LcdFairness, each for the behaviours about its part. *)
PartsFairness ==
    /\ WF_xmodemVars(which = "xmodem" /\ ReceiverStep)
    /\ WF_xmodemVars(which = "xmodem" /\ SenderStep)
    /\ WF_lcdVars(which = "lcd" /\ Calibrate)
    /\ WF_lcdVars(which = "lcd" /\ PixelClock)
    /\ WF_lcdVars(which = "lcd" /\ ServedAppClock)

MCSpec == MCInit /\ [][MCNext]_partsVars /\ PartsFairness

(* LoadSucceeds of Xmodem, for the behaviours that are about the loader.   *)
LoadingSucceeds == which = "xmodem" => LoadSucceeds

(* PanelFed of LcdPanel, for the behaviours that are about the LCD.        *)
PanelKeepsFed == which = "lcd" => PanelFed
=============================================================================
