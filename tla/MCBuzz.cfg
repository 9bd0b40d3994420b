SPECIFICATION BuzzSpec
CONSTANTS
  user = user
  dispatcher = dispatcher
  teammate = teammate
  Pubkey = {user, dispatcher, teammate}
  Own = user
  AgentPubkeys = {user, dispatcher}
  SpeakOnlyUserDirected = TRUE
  Posts <- AnswersAndDelegations
  History <- Answers
  Refused = {2}
  QuietPeriod = 1
  BackoffInitial = 1
  BackoffMax = 2
  MaxTurns = 3
  MaxPosts = 1
  MaxFaults = 2
INVARIANTS ReactionsFindTheirMessage CompletionFollowsReply
PROPERTIES WordsInOrderOnce PendingIsFlushed DropStops RepliesComplete
CHECK_DEADLOCK FALSE
