SPECIFICATION CompletionSpec
CONSTANTS
  Trees <- MCTrees
  Lines <- MCLines
  Settings <- MCSettings
  Breaks = {" ", "'"}
  Quotes = {"'"}
  Rank <- MCRank
  Lower <- MCLower
  Columns = 8
  Height = 3
  MaxLine = 4
INVARIANT CompletionInvariant
INVARIANT MenuComesBack
