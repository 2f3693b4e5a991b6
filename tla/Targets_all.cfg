CONSTANTS
  Threads = {1, 2, 3, 4}
  Processes = {1, 2, 3}
  Systems = {1, 2}
  ProcessOf <- MCProcessOf
  SystemOf <- MCSystemOf
  Pid <- MCPid
  Tid <- MCTid
  Kernels = {2}
  Managed = {2}
  Processor <- MCProcessor
  OwnMode <- MCOwnMode
  Traces <- MCTraces
  Unreadable <- MCUnreadable
  Code <- MCCode
  Blocks <- MCBlocks
  Mapped <- MCMapped
  MaxFrames = 5
  MaxEpoch = 1
  Ending = {2}
  MaxGone = 1
  Frames = {1, 3}
  Keeping = {TRUE}
SPECIFICATION Spec
PROPERTIES LeavesNoTrace HandlesAnswer FramesShowTheirOwn
CHECK_DEADLOCK FALSE
