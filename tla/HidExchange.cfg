CONSTANTS
  Frame = 12
  ReqLengths <- MCReqLengths
  RepLengths <- MCRepLengths
  MaxExchanges = 2
SPECIFICATION UsbSpec
INVARIANTS
  InStep
PROPERTIES
  ExchangesEnd
