SPECIFICATION FairSpec
CONSTANTS
  data = data
  image = image
  dvd = dvd
  Jobs = {data, image, dvd}
  Tasks <- PluginTasks
  Faulty = {data, image}
  Cancelable = {data, image}
  MaxRetries = 2
  MaxCancels = 3
  None = None
INVARIANT OneAfterAnother
INVARIANT NeverRaises
INVARIANT FinishedMeansDone
PROPERTY JobsEnd
CHECK_DEADLOCK FALSE
