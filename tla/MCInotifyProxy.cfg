CONSTANTS
  Files = {f, g}
  MaxEvents = 4
SPECIFICATION ProxySpec
INVARIANTS EachEventOnce ReadNeverWaits
PROPERTY EventsArePrinted
