CONSTANTS
  None = None
  Note = Note
  Bodies <- AllBodies
  WorkHeights = {304}
  Notches <- BothWays
  Heights = {280, 704}
  Saved = {45}
SPECIFICATION WindowsSpec
INVARIANTS
  FlyoutIsTrue
  CardsAreTrue
PROPERTIES
  FocusIsShown
