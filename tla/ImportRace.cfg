\* A tick outlives its lease while it uploads, another one takes the document over.
SPECIFICATION Spec
CONSTANTS
  r1 = r1
  r2 = r2
  b1 = b1
  b2 = b2
  Document = doc
  Nobody = Nobody
  NoFile = NoFile
  NoBusiness = NoBusiness
  Messages = {question}
  Businesses = {b1}
  Files = {f1, f2, f3}
  Replies = {r1}
  Importers = {w1, w2}
  Label <- MCLabel
  Senders = {s1}
  MaxAttempts = 2
  LostAnswers = FALSE
INVARIANTS
  RecordedFileExists
\* Once the document is decided and told there is nothing left to do.
CHECK_DEADLOCK FALSE
