SPECIFICATION Spec
CONSTANTS
  Tools = {web, file}
  MaxAttempts = 2
  MaxAsks = 2
  MaxJobs = 2
PROPERTIES
  StopDenies
