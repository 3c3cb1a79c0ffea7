SPECIFICATION Spec
CONSTANTS
  MbxData = 122
  Objects <- MCObjects
  Size <- MCSize
  Access <- MCAccess
  Counts <- MCCounts
  Values <- MCValues
PROPERTIES UploadInOrder ListInOrder DownloadAsAnswered
