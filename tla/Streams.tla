------------------------------- MODULE Streams -------------------------------
(* The drivers whose data is moved by interrupt handlers and DMA, side by   *)
(* side: the UART transmit engine, CAN FD, the TDM domains, one TDM stream  *)
(* and the DMA channels.  They share no state, so a behaviour picks one of  *)
(* them and leaves the others in their first state.                         *)
EXTENDS UartTx, CanFd, TdmDomains, TdmFrame, TdmStream, Dma

VARIABLE moving  \* the driver of this behaviour

flowVars == <<moving, vars, canVars, tdmVars, streamVars, dmaVars>>

FlowInit == /\ moving \in {"uart", "can", "domains", "stream", "dma"}
            /\ Init /\ CanInitState /\ TdmInitState /\ StreamInitState /\ DmaInitState
            /\ moving # "domains" => pins = [l \in Legs |-> "none"]

FlowNext ==
  /\ UNCHANGED moving
  /\ \/ moving = "uart" /\ Next /\ UNCHANGED <<canVars, tdmVars, streamVars, dmaVars>>
     \/ moving = "can" /\ CanNext /\ UNCHANGED <<vars, tdmVars, streamVars, dmaVars>>
     \/ moving = "domains" /\ TdmNext /\ UNCHANGED <<vars, canVars, streamVars, dmaVars>>
     \/ moving = "stream" /\ StreamNext /\ UNCHANGED <<vars, canVars, tdmVars, dmaVars>>
     \/ moving = "dma" /\ DmaNext /\ UNCHANGED <<vars, canVars, tdmVars, streamVars>>

\* The fairness of UartTx and of CanFd; neither asks anything of a driver that
\* is still in its first state.
FlowSpec ==
  /\ FlowInit /\ [][FlowNext]_flowVars
  /\ WF_vars(Shift) /\ WF_vars(Isr) /\ WF_vars(Continue) /\ CanFairness

-----------------------------------------------------------------------------
(* Properties: what the drivers promise, each in its own terms.             *)

\* Every variable has its type, the legs and the DMA positions their range; and
\* between calls every driver agrees with its hardware: whatever is under way
\* has its interrupt armed, no interrupt finds nothing to do, none runs for a DMA channel
\* that is being programmed, and no enable of another peripheral is undone.
DriversAreSettled ==
  /\ TypeOK /\ TdmTypeOK /\ StreamTypeOK /\ DmaTypeOK /\ CanSettled /\ HandlerHasWork
  /\ ConfigIsQuiet /\ NeighboursKeepTheirs

\* What is reported as sent was submitted in full and in order, and a frame
\* without room leaves its mark until someone was told.
NothingIsLostUnseen == WholeTransfers /\ CompleteMeansSubmitted /\ DropIsTold

\* Domains run as a whole, on a clock logic that is returned with the last, and the
\* frame sync they run to is the one their slots ask for.
DomainsRunWhole == DomainsAreWhole /\ ClcIsReturned /\ FramesFit

\* Every half of a DMA buffer is handed over once, fresh and whole, or counted
\* as missed, and none is announced by what the channel did before it was configured.
StreamIsAccounted == HalvesAreAccounted /\ FreshUnlessCounted /\ ReadingIsWhole /\ SnapshotIsOfThisRun

\* Every UART transfer and every CAN transmission that was started ends.
TransmissionsEnd == TransfersEnd /\ SendsComplete

=============================================================================
