SPECIFICATION Spec
CONSTANTS
  Names = {"n"}
  Numbers = {"long", "huge", "-inf"}
  MaxLength = 9
INVARIANTS
  AcceptsExactly
  RoundTrip
  NothingLeaked
  ReadsInText
