SPECIFICATION NormalizerSpec
CONSTANTS
    Sheets <- MCSheets
    Names <- MCNames
    Aliases <- MCAliases
    Phones = {Mobile}
    Currencies = {KES}
    DefaultCurrency = KES
    Business = Shilling
    Limit = 1000
    Cells <- MCCells
    None = None
    Tea = Tea
    KES = KES
    Shilling = Shilling
    Mobile = Mobile
    Landline = Landline
    R1 = R1
    A1 = A1
    A2 = A2
    Till = Till
INVARIANTS Accounting FirstOfEach
CHECK_DEADLOCK FALSE
