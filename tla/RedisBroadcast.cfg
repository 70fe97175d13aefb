CONSTANTS
  Topics <- MCTopics
  Protocols <- MCProtocols
  Supported <- MCSupported
  MaxMsgs = 3
SPECIFICATION Spec
INVARIANT TypeOK
PROPERTY ExporterReachesImporter
\* Once the bounded calls are made and the importer has caught up, the
\* graph idles waiting for more input.
CHECK_DEADLOCK FALSE
