\* Memory of 6 bytes, words of 6 bits.  A caller may stop calling.
SPECIFICATION LibcSpec
CHECK_DEADLOCK FALSE
CONSTANTS
  MemSize = 6
  WordMod = 64
  Clients <- MCClients
PROPERTIES
  BytesMoved
  TokensOfText
  SearchesAgree
  FormatsAgree
  NumbersReadBack
