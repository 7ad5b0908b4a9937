CONSTANTS
    Channels = {c1, c2}
    PerChannel = 2
    RegCapacity = 1
SYMMETRY Symmetry
SPECIFICATION ChannelSpec
INVARIANTS ChannelTypeOK AnsweredById
