\* Two workers, three messages added, two requests or answers under way, and
\* a server stopped.
CONSTANTS
  Messages <- MCMessages
  KeyOf <- MCKeyOf
  FullOf <- MCFullOf
  PersonalOf <- MCPersonalOf
  DateOf <- MCDateOf
  Before <- MCBefore
  Recently = 1
  w1 = w1
  w2 = w2
  Workers = {w1, w2}
  None = None
  MaxClock = 1
  MaxAdds = 3
  MaxRequests = 2
  MaxStops = 1
SPECIFICATION Spec
SYMMETRY Symmetry
INVARIANTS
  TableRight
  ComesNext
CHECK_DEADLOCK FALSE
