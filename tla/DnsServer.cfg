\* Buffers of 64 and 6 bytes instead of 256 and 128: three answers fit behind
\* the shortest requests only, and names of 6 bytes are the longest.
SPECIFICATION Spec
CONSTANTS
  DNS_MAX_LEN = 64
  NAME_MAX = 6
  Ip <- MCIp
  Fd <- MCFd
  Request <- MCRequest
INVARIANTS
  TypeOK
  ReadsInside
  AnswersA
  ReplyEchoes
  OneSocket
  OthersKeepSockets
