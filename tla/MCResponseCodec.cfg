\* Every packet of up to 6 bytes over the root, labels of one to three bytes, dots
\* and pointers into the packet and behind it; longer queries of one or two names.
CONSTANTS
  Byte = {0, 1, 2, 3, 7, 46, 192}
  ShortLength = 6
  ShortByte = {0, 1, 2, 3, 46, 192}
  MaxLength = 60
  HeaderSize = 1
  FieldSize = 1
  MaxQuestions = 3
  MaxIterations = 4
  TypeA = 1
  TypeAAAA = 2
  RecordSizeA = 1
  RecordSizeAAAA = 2
SPECIFICATION MCSpec
INVARIANTS NoReadPastEnd NamesInPacket ResumesAfterName
           SameQuestions ResponseReadable AnswersFit
PROPERTY Terminates
