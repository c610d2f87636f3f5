SPECIFICATION Spec
CONSTANTS
  main = main
  f = f
  g = g
  c = c
  h = h
  h2 = h2
  Null = Null
  OnShutdown = OnShutdown
  Main = main
  Fibers <- MCFibers
  Mems <- MCMems
  Handles <- MCHandles
  WaitSets <- AllWaits
  Uses <- AllCalls
  MaxBlock = 1
SYMMETRY MCSymmetry
INVARIANTS
  ListMatchesStates
  OneActive
  NoSleepPastShutdown
  KernelWaitProductive
  RestartsClean
  NoSleepWithWork
PROPERTIES
  ShutdownDelivered
  KeepsContract
  WakeJustified
CONSTRAINT OneBlocks
