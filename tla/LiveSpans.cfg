SPECIFICATION Spec
CONSTANTS
  Spans = {"s1"}
  RemoteSpans = {"remote"}
  Remote <- RemoteSpan
  Exporters = {"jaeger"}
  Env = "otlp"
  Configs <- CallerConfigs
  QueueSize = 2
  MaxInits = 2
CHECK_DEADLOCK FALSE
INVARIANTS
  TypeOK
  NoEntryTwice
  BatchedSeesFinished
  LiveBeforeDone
  CloseLosesNothing
PROPERTIES
  CloseEnds
