SPECIFICATION FairSpec
CONSTANTS
  main = main
  f = f
  g = g
  c = c
  h = h
  h2 = h2
  Null = Null
  OnShutdown = OnShutdown
  Main = main
  Fibers <- MCFibers
  Mems <- MCMems
  Handles <- TwoHandles
  WaitSets <- EachHandle
  Uses <- TurnCalls
  MaxBlock = 0
PROPERTIES
  ReadyRuns
CHECK_DEADLOCK FALSE
