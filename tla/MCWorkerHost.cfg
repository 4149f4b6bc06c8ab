SPECIFICATION Spec
CONSTANTS
  Kinds = {"onnx", "vec"}
  Calls = {1, 2, 3}
  MaxWorkers = 3
  MaxFaults = 1
INVARIANTS AnswersMatch NothingLeaks
PROPERTY CallsSettle
CHECK_DEADLOCK FALSE
