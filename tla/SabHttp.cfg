CONSTANTS
  Kinds = {"kotoba:http-get", "kotoba:http-post"}
  MaxBytes = 1
  MaxCalls = 3
SPECIFICATION Spec
INVARIANTS
  TypeOK
  HandoverSound
PROPERTY ImplementsSyncRpc
