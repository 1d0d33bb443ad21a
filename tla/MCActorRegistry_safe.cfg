SPECIFICATION Spec
CONSTANTS
  h1 = h1
  h2 = h2
  h3 = h3
  a1 = a1
  a2 = a2
  a3 = a3
  NoHandler = NoHandler
  NoActor = NoActor
  Handlers <- MCHandlers
  Actors <- MCTwoActors
  InboxSize = 1
  Watched = FALSE
SYMMETRY Symm
CHECK_DEADLOCK FALSE
INVARIANTS RegistryInv ActivationIsSeen EndedIsUnregistered
