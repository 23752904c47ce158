\* The operator forgets a person whose notes are queued.
SPECIFICATION Spec
CONSTANTS
  UserFacts = {u1, u2}
  GeneralFacts = {g1}
  DayFacts = {u1}
  MaxNotes = 2
  MaxEdits = 2
PROPERTIES
  ForgetTakesNotes
CHECK_DEADLOCK FALSE
