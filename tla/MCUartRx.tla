------------------------------ MODULE MCUartRx ------------------------------
EXTENDS UartRx
Pipe == INSTANCE SerialPipe WITH Capacity <- Size - 1, accepted <- written, wire <- Taken
PipeSpec == Pipe!Spec
=============================================================================
