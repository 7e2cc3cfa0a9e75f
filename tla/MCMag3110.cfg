CONSTANTS
    Width = 3
    Device <- MCDevice
    CtrlReg1 <- MCCtrlReg1
    CtrlReg2 <- MCCtrlReg2
    OutX <- MCOutX
    Active <- MCActive
    Raw <- MCRaw
    NBytes = 2
    Timeout = 2
SPECIFICATION Spec
INVARIANTS StartOnFreeBus AckMeansWritten ReadExact
PROPERTIES ReadReturns
