SPECIFICATION Spec
CONSTANTS
  NCPU = 2
  NPROC = 2
  INPUT_BUF = 2
  UART_TX_BUF_SIZE = 1
  UINT = 4
  TXFIFO = 2
  RXFIFO = 1
  Text <- MCText
  Scripts <- MCScripts
INVARIANTS LocksSound OutputSound
PROPERTIES  AllServed
