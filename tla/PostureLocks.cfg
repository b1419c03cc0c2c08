\* The namespace and the ConfigMap informer at the same time.
SPECIFICATION Spec
CHECK_DEADLOCK FALSE
CONSTANTS
  Free = Free
  Namespaces = {"ns1", "ns2"}
  Scopes = {"file", "network"}
  Annotations <- FullAnnotations
  Settings <- ValidSettings
  Deletable = {"ns2"}
  Together = {{"ns", "cm"}}
  MaxEndPoints = 2
PROPERTIES HandlersFinish
