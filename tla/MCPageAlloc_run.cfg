SPECIFICATION Spec
CONSTANTS
  p = p  q = q  r = r
  Chunk = {p, q, r}
  Sizes = {576, 1024, 1025}
  SMALL_PAGE = 112
  LARGE_PAGE = 2144
  DATA_OFFSET = 80
INVARIANTS TypeOK SlotsAccounted NonfullExact RoutedBySize
PROPERTIES IsAllocator
SYMMETRY Symmetry
