\* Every sequence of Register, Find and ForEach calls over two servers,
\* three service values and two interfaces, any callback failing.
CONSTANTS
    Servers = {"s1", "s2"}
    Services = {"a1", "a2", "b"}
    Interfaces = {"I", "J"}
    TypeOf <- MCTypeOf
    TypeString <- MCTypeString
    Implements <- MCImplements
    Fails <- MCFails
SPECIFICATION Spec
PROPERTIES
    FindReturnsAnImplementer
    ForEachCallsEachImplementerOnce
