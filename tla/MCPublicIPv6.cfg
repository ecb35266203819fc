\* What the comment on the IPv6 address says.
CONSTANTS
    a = a  b = b
    Empty = Empty
    Addresses = {Empty, a, b}
    Families <- MCFamilies
    Specs <- MCSpecs
SPECIFICATION ConversionSpec
INVARIANTS PublicIPv6IsPublic
CHECK_DEADLOCK FALSE
