SPECIFICATION LibSpec
CONSTANTS
  NULL = NULL
  Heads = {h1, h2}
  Entries = {e1, e2, e3}
  timer = timer
  conn1 = conn1
  conn2 = conn2
  odd = odd
  Items = {timer, conn1, conn2, odd}
  Count = 3
  MaxItems = 3
  Kind <- MCKind
  MaxIter = 2
  QueueSize = 3
  MaxArrivals = 4
  MaxEffects = 2
  StreamUsers = {"u1", "u2", "u3"}
  tail = tail
  cpu = cpu
  dummy = dummy
  Collectors = {tail, cpu, dummy}
  InThreads = {"in1", "in2"}
  ThreadOfColl <- MCThreadOfColl
  MaxKeys = 2
  EncValues = {v}
  MaxBuffer = 1
  OperandWords = {0, 1, 2, 20}
  ArgumentLists <- MCArgumentLists
  MaxSize = 3
  MaxContexts = 3
  CodecBytes <- MCCodecBytes
  KeyIds = {0, 1, 255, 2047, 16383}
  SwapValues <- MCSwapValues
  TrimStrings <- MCTrimStrings
  TrimChars = {99, 100}
INVARIANTS LinksMirror TopBelowItems PluginsAccounted ExclusiveWhenSafe CollectsForItself SetIsExact ProcessKeepsBounds CodecsExact
PROPERTIES ImplementsSeqLists ImplementsPriorityQueue BestFirst HandledIsRegistered InjectedDroppedOnlyAtBound ReadyIsHandled
CHECK_DEADLOCK FALSE
