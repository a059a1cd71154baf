SPECIFICATION Spec
CONSTANTS
  Speakers = 2
  Marks = {",", ".", "?", "-"}
  MaxResults = 5
  MaxMessages = 1
INVARIANTS RunsAreTheKeptWords PunctuationIsReconciled
CHECK_DEADLOCK FALSE
