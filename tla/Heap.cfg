\* Addresses count units of four bytes: a header is three, and sizes are
\* rounded up to two.
SPECIFICATION Spec
CONSTANTS
  HeapSize = 24
  Header = 3
  Align = 2
  Sizes = {0, 1, 2, 4, 7}
INVARIANTS
  Tiled
  HeldAreBlocks
  NoFreeNeighbours
PROPERTIES
  FailsOnlyIfFull
  ImplementsAllocator
