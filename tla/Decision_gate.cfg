SPECIFICATION Spec
CONSTANTS
  p1 = p1  u1 = u1  u2 = u2  u3 = u3  s1 = s1  s2 = s2  k1 = k1  k2 = k2
  Proposal = {p1}
  User = {u1, u2, u3}
  Requester = {u1}
  Approver = {u1, u2, u3}
  Session = {s1, s2}
  Key = {k1, k2}
  Governance <- OnlyIsolate
  AutomaticEnabled = FALSE
  RequestTtl = 2
  AuthorizationTtl = 1
  BatchSize = 1
  MaxTime = 3
  MaxVersion = 1
  NoUser = NoUser  NoProposal = NoProposal  NoKey = NoKey
INVARIANTS TypeOK QuorumBehindExecution StatusesAgree
PROPERTIES RequestsSettle GateImplemented
