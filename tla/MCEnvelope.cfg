CONSTANTS
  home = home
  integrator = integrator
  other = other
  None = None
  Person = {home, integrator, other}
  Sender = home
  Address <- MCAddress
  Invalid = {"?"}
  Owner <- MCOwner
  AddressOf <- MCAddressOf
  Text = {"t"}
  Meta = {"m"}
SPECIFICATION EnvelopeSpec
INVARIANTS
  NobodyLeftOut
  ReadersAreAddressed
  AddressedRead
