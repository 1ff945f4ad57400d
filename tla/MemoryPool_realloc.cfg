\* The header and alignment of the code, and a pool for a handful of blocks.
CONSTANTS
  PoolSize = 264
  Align = 8
  Header = 32
  Word = 4096
  Sizes = {1, 24, 64}
  Garbage = {0, 7}
SPECIFICATION Spec
INVARIANTS
  ListIsSound
