CONSTANTS
  Numbers = {0}
  Texts <- ShortTexts
  Offsets <- SomeOffsets
SPECIFICATION Spec
INVARIANT TrimsAll
