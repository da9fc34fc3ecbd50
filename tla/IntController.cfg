CONSTANTS
  NCtl = 2
  NLine = 2
  Vector = {0}
SPECIFICATION Spec
INVARIANTS LineExact
CONSTRAINT FewInService
PROPERTY ServiceFromRequest
