SPECIFICATION Spec
CONSTANTS
  DataSize = 2
  BufferSize = 3
  MaxData = 7
  MaxPacket = 5
  OutBuffers = 2
  Opcodes <- MCReading
PROPERTY SendsLastPartAgain
