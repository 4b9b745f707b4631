SPECIFICATION FairSpec
CONSTANTS
    Wrap = 64
    MaxAttributes = 6
    Headers <- HeadersOfFive
    Messages <- MessagesOfTwo
INVARIANTS
    AsGrammar RoundTrip
PROPERTIES
    DecodingEnds
CHECK_DEADLOCK FALSE
