SPECIFICATION Spec
CONSTANTS
  FILENAME_LEN = 3
  BYTES_PER_BLOCK = 2
  UintValues = 12
  Letters = {"a", "b"}
  MaxEntries = 2
  Blocks = {10, 11, 12, 13}
  MaxFile = 5
  MaxCommand = 6
  WordDigits = 2
  MaxBlock = 9
  Chars = {97, 98}
  MaxString = 3
  BUFSIZE = 3
  LineChars = {97, 98}
  MaxPattern = 2
  MaxText = 8
INVARIANT LookupIsExact
INVARIANT ReadIsSlice
INVARIANT CommandIsNameAndArgs
INVARIANT MemoryAndStringsExact
INVARIANT PrintfPrintsItsArguments
INVARIANT GrepFindsItsLines
