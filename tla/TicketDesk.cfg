\* One page that sends two messages and asks for one other thing; one fault.
SPECIFICATION FairSpec
CONSTANTS
  Hooks = {"message", "resolve", "classify", "suggest"}
  MaxMessages = 2
  MaxOthers = 1
  MaxOpenings = 1
  MaxFaults = 1
INVARIANTS TypeOK RepliesOnce PageCatchesUp
PROPERTY SentIsShown
CHECK_DEADLOCK FALSE
