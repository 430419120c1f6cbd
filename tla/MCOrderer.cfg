CONSTANTS
    a = a  b = b  c = c  d = d
    v = v  w = w  x = x  y = y  z = z
    Pkg <- MCPkg
    Requests <- MCRequests
    Requirements <- MCRequirements
SPECIFICATION Spec
INVARIANT OrderRight ComponentsFound
PROPERTY Terminates
CHECK_DEADLOCK FALSE
