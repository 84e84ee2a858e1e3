SPECIFICATION ApartSpec
CONSTANTS
  RxQueueMin = 4
  RxCapacity = 5
  TxBufferSize = 2
  MaxTransfer = 2
  MaxChars = 6
  MaxBytes = 6
  MaxRead = 4
INVARIANTS TypeOK ReceivedInOrder TransmittedInOrder
PROPERTIES EveryCharIsRead EverythingIsSent
