SPECIFICATION Spec
CONSTANTS
    IntegerText <- MCIntegerText
    DecimalText <- MCDecimalText
    HexColorText <- MCHexColorText
    Base64Text <- MCBase64Text
    PercentText <- MCPercentText
    HexText <- MCHexText
    SourceText <- MCSourceText
    Fetchable <- MCFetchable
    Environments <- MCEnvironments
    Requests <- MCRequests
    MaxRequests = 2
    MaxStarts = 2
INVARIANTS
    ServedAsAsked
    SharedCacheSafe
    OptionOrderIrrelevant
    RequestOverridesPreset
    OnlyAuthenticRendered
    ExpansionComplete
