\* Every interleaving of a request with the command line, the editor, SIGHUPs,
\* reloads and restarts.  Every state has a successor: the file can be edited.
SPECIFICATION Spec
CONSTANTS
  s1 = s1
  s2 = s2
  other = other
  JobProgress = job_progress
  Services = {s1, s2}
  Handlers = {h1}
  Types = {job_progress, other}
  Broken = Broken
  NoService = NoService
  Empty <- MCEmpty
  Catalogs <- MCCatalogs
  MaxTopicRunes = 4
  Marker <- MCMarker
  MaxTokens = 2
INVARIANTS AcceptedIsEntitled RefusedForCause SignalIsKept
PROPERTY SighupTakesEffect
