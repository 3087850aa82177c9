------------------------------ MODULE MCUartTx ------------------------------
EXTENDS UartTx
Pipe == INSTANCE SerialPipe WITH Capacity <- Size + 1, accepted <- Accepted
PipeSpec == Pipe!Spec
=============================================================================
