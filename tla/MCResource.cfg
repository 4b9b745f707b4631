SPECIFICATION Spec
CONSTANTS
    Nobody = Nobody
    NoRange = NoRange
    NoList = NoList
    NoNode = NoNode
    Free = Free
    NoLogin = NoLogin
    Accounts <- TheAccounts
    Absent = Absent
    Barred = Barred
    MaxPath = 3
    PageLength = 100
    Doc <- TheDoc
    Sites <- AnySite
    Inquiries <- InquiriesOf
    Sizes = {0, 1, 2}
    Times = {1}
    MaxVersion = 1
INVARIANTS
    EntitledOnly OptionsUsable RoutedLongest LengthsTrue SliceInFile
    AnswersAll
