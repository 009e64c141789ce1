CONSTANTS
  Empty = Empty
  Blank = Blank
  word = word
  Words = {word}
  Preset = word
  Inputs <- MCInputs
  Tiles = {"openai", "azure"}
  MaxRows = 2
  MaxSaves = 1
  None = None
SPECIFICATION Spec
INVARIANTS
  SaveIsEarned
