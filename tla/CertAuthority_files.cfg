SPECIFICATION Spec
CONSTANTS
  p1 = p1
  p2 = p2
  Authority = {a1}
  Weak = Weak
  Name = {alice, Blank}
  BlankName = Blank
  Payload = {p1, p2}
  Printable = {p1}
  Extensions <- SomeExtensions
  Second = 3
  Clock = {4}
  Ttls = {0, 1, 5, 9}
  Asked = {3}
  LastSecond = 3
  Proc = {q1, q2}
  MaxIssues = 2
SYMMETRY Symmetric
INVARIANTS TypeOK VerifiedWasIssued EchoedWasEmbedded ValidityKept AckedVerifies
CHECK_DEADLOCK FALSE
