CONSTANTS
  chat = chat  other = other  c1 = c1  NoWork = NoWork
  Work = {chat, other}
  Chat = {chat}
  MaxGeneration = 2
  Closer = {c1}
  MaxLanes = 2
SPECIFICATION FairSpec
INVARIANTS NoWorkIsStranded OutlivedWorkIsInterrupted
PROPERTIES EveryWaiterIsAnswered
CHECK_DEADLOCK FALSE
