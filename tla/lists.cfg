SPECIFICATION Spec
CONSTANTS
  Pcb = {a, b, c, d}
  List = {run, wait}
  NULL = NULL
INVARIANT HeadersAgree
PROPERTY DequesSpec
