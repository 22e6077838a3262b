SPECIFICATION Spec
CONSTANTS
  Epts = {e1, e2}
  Names = {none, n1}
  NONAME = none
  RemoteAddrs = {r1}
  ANY = any
  RPMSG_RESERVED_ADDRESSES = 1
  RPMSG_ADDR_BMP_SIZE = 1
  SUPPORT_NS = TRUE
  MaxMsgs = 2
SYMMETRY Symmetry
INVARIANTS AddressesExact ListExact ChannelsFollow
