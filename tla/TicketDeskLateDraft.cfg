\* One page that sends a reply while a draft is under way; nothing fails.
SPECIFICATION Spec
CONSTANTS
  Hooks = {"message", "suggest"}
  MaxMessages = 1
  MaxOthers = 1
  MaxOpenings = 1
  MaxFaults = 0
PROPERTY ReplyIsConfirmedText
CHECK_DEADLOCK FALSE
