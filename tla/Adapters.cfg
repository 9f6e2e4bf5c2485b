SPECIFICATION FairSpec
CONSTANTS
  review = review
  comment = comment
  foreign = foreign
  notice = notice
  reply = reply
  c1 = c1
  c2 = c2
  c3 = c3
  alice = alice
  mallory = mallory
  bot = bot
  p1 = p1
  p2 = p2
  Item <- Items
  Inline = {c1, c2, c3}
  User = {alice, mallory, bot}
  Bot = bot
  Allowed = {alice, bot}
  KindOfItem <- Kinds
  AuthorOf <- Authors
  PullOf <- Pulls
  BotPulls = {p2}
  Mentions = {c2, c3, notice}
  Bodiless = {review, reply}
  InlineOf <- Inlines
  PageSize = 1
  MaxHookFaults = 1
  MaxRedeliver = 1
  MaxEdits = 1
  Message <- Messages
  IsMention = {1, 3}
  ChannelThread <- Threads
  ReplyLimit = 2
  MaxLate = 1
  MaxSlackFaults = 1
  MaxSlackEnds = 1
  Deployment = {{"github"}, {"slack"}}
INVARIANTS TypeOK OneTaskPerDelivery ReactsToUsersOnly RestartRepeatsNoTask ThreadContextIsComplete
PROPERTIES AskedBecomesTasks MentionsBecomeTasks
CHECK_DEADLOCK FALSE
