SPECIFICATION Spec
CONSTANTS
  kCheapPrepend = 4
  kInitialSize = 2
  ExtraBuf = 20
  Bytes = {10, 13}
  MaxContent = 4
  Tag <- MCTag
  kMaxMessageLen = 20
  Payloads <- MCPayloads
  Unparsable <- MCUnparsable
  ShortLens = {0, 4, 7}
  MaxFrames = 2
  Methods = {"GET"}
  Versions = {"1.0", "2"}
  Values = {"close", "Keep-Alive"}
  MaxLines = 5
  LastYear = 2101
  Files <- MCFiles
  Around <- MCAround
  Fds = {0, 1, 2}
  Emails = {e1}
  Codes = {"a", "b"}
  ttl = 3
  cool = 2
  MaxSends = 3
  Requests = {r1, r2, r3}
  maxLen = 3
  Uploads = {"u1", "u2", "u3", "u4"}
  Deletes = {"d1"}
  UserOf <- MCUserOf
  MaxSeconds = 2
  Callers = {c1, c2, c3}
  Kinds = {"ok", "method"}
  TableCount = 2
  mapField <- MCmapField
  ForeignColumns = {3}
INVARIANTS
  BufferIsByteQueue
  StreamDecoded
  ResponsesMatchStream
  TimesConvert
  PollersWatchInterest
  CodesProveOnce
  HistoryIsRecent
  AvatarIsLastUpload
  CallsAnsweredOnce
  SchemaSound
CHECK_DEADLOCK FALSE
