\* Two captures, two handlers at a time, a plan with room for one and a half.
\* Nothing more happens once the two captures are used up.
SPECIFICATION Spec
CONSTANTS
  Assets = {a1, a2}
  Handlers = {h1, h2}
  Reservation = 2
  PlanBytes = 3
CHECK_DEADLOCK FALSE
SYMMETRY Symmetry
INVARIANTS ChargesExact WithinPlan
