CONSTANTS
  Empty = Empty
  Blank = Blank
  word = word
  Words = {word}
  Preset = word
  Inputs <- MCInputs
  Tiles = {"openai", "azure"}
  MaxRows = 2
  MaxSaves = 1
  None = None
SPECIFICATION FairSpec
INVARIANTS
  ResultIsOfThisForm
  ToldIsTrue
  ListNeverOlder
PROPERTY
  NothingHangs
