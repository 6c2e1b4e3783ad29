\* One character is enough.
CONSTANTS
    MaxText = 1
SPECIFICATION TextsSpec
INVARIANT SerializersMatch
CHECK_DEADLOCK FALSE
