SPECIFICATION Spec
CONSTANTS
  NumUploads = 2
  NumRequests = 1
  Size = 2
  MaxEvents = 3
INVARIANTS HashIsOfWhatIsThere KeyNamesContent
PROPERTY UploadsKeepWhatIsThere
CHECK_DEADLOCK FALSE
