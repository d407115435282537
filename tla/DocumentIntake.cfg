\* A document of an account with one business or two, an answer, two ticks, one sender.
SPECIFICATION FairSpec
CONSTANTS
  r1 = r1
  r2 = r2
  b1 = b1
  b2 = b2
  Document = doc
  Nobody = Nobody
  NoFile = NoFile
  NoBusiness = NoBusiness
  Messages = {question}
  Businesses = {b1, b2}
  Files = {f1, f2}
  Replies = {r1}
  Importers = {w1, w2}
  Label <- MCLabel
  Senders = {s1}
  MaxAttempts = 2
  LostAnswers = TRUE
INVARIANTS
  OnlyExposedFilesAreLost
  MessagesSentOnce
  NoticeIsTrue
  OneBusiness
PROPERTIES
  OutcomeIsFinal
  DocumentIsDecided
\* Once the document is decided and told there is nothing left to do.
CHECK_DEADLOCK FALSE
