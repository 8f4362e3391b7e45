SPECIFICATION FairSpec
CONSTANTS
  Requests = {r1, r2}
  Configs = {c1, c2}
  Nodes = {n1}
  Users = {u1, u2}
  Pool = {2}
  None = None
  Faults = {"refuse", "timeout", "abandon", "reboot"}
  Serial = TRUE
INVARIANT TunnelIsAccounted
INVARIANT PeerHoldsItsAddress
INVARIANT AddressFollowsStatus
INVARIANT NamedOwner
INVARIANT ReplacedIsRevoked
PROPERTY RevokeIsTerminal
PROPERTY ContractSpec
PROPERTY RequestsEnd
