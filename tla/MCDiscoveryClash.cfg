\* Two types whose reflect String() is the same, registered under one server.
CONSTANTS
    Servers = {"s1", "s2"}
    Services = {"a1", "a2", "b"}
    Interfaces = {"I", "J"}
    TypeOf <- MCTypeOf
    TypeString <- MCTypeStringClash
    Implements <- MCImplements
    Fails <- MCFails
SPECIFICATION Spec
PROPERTY
    RegisterRejectsOnlyRegisteredTypes
