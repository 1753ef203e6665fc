SPECIFICATION RemoteSpec
CONSTANTS
  Readers = {q1}
  Handlers = {h1}
  MaxAge = 1
  MaxStamp = 1
  MaxAnswers = 2
  MaxLinkEdits = 1
  MaxRemoteFaults = 0
  MaxHappenings = 3
PROPERTY RefusedTakenBack
