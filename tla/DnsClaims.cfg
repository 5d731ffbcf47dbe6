\* The same buffers, and the requests that begin with the name of a host.
SPECIFICATION Spec
CONSTANTS
  DNS_MAX_LEN = 64
  NAME_MAX = 6
  Ip <- MCIp
  Fd <- MCFd
  Request <- MCHostRequest
INVARIANT OneAnswerEach
