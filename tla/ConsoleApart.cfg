\* Two writers on core 1, a reader on core 0.
\* Nothing happens when nobody writes and no character arrives.
CONSTANTS
  Writers = {"w1", "w2"}
  Readers = {"r1"}
  Core <- Apart
  UART_OBLEN = 2
  UART_IBLEN = 2
  MaxOut = 5
  MaxIn = 3
SPECIFICATION Spec
INVARIANTS TypeOK OutputConserved SemaphoresCount InputInOrder
CHECK_DEADLOCK FALSE
