SPECIFICATION UdSpec
CONSTANTS
  udBlocks = 3
  udAborts = TRUE
INVARIANTS UdCountsTrue
