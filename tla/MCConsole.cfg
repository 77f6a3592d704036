SPECIFICATION AllSpec
CONSTANTS
  Width = 4
  Height = 2
  Tab = 2
  Letters = {"Z"}
  Blank = " "
  MaxGone = 2
  MaxSize = 21
  Distances <- MCDistances
  Alphabet = {"", "a", "b"}
  MaxLength = 3
  Ascii <- MCAscii
  Word = 256
  PointerDigits = 2
  Calls <- MCCalls
CHECK_DEADLOCK FALSE
INVARIANTS
  TypesOK
  PositionSound
  NewLineIsBlank
  LibraryAsAsked
  FieldsRight
  ArgumentsInStep
PROPERTY
  ActsAsTeletype
