\* Two sessions around one agent with one capability, and one peer.
SPECIFICATION Spec
CONSTANTS
  Sessions = {s1, s2}
  Capabilities = {x}
  Home = home
  Peers = {p}
  PeerStatus = {"active"}
  NoAgent = NoAgent
  Kept = Kept
  MaxRows = 3
SYMMETRY Symmetry
INVARIANTS ChangesSerialise HiddenHasCause
