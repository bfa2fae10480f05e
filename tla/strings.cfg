CONSTANTS
  Numbers <- SomeNumbers
  Texts <- ShortTexts
  Offsets <- SomeOffsets
SPECIFICATION Spec
INVARIANTS NamesAsLinux Decodes
