\* Handlers one after the other, in every order.
SPECIFICATION Spec
CONSTANTS
  Free = Free
  Namespaces = {"ns1", "ns2"}
  Scopes = {"file", "network"}
  Annotations <- FullAnnotations
  Settings <- ValidSettings
  Deletable = {"ns2"}
  Together = {}
  MaxEndPoints = 2
INVARIANTS PostureInSync
 
