SPECIFICATION Spec
CONSTANTS
    NoPhone = NoPhone
    Refused = Refused
    NoFile = NoFile
    Unsure = Unsure
    None = None
    Blank = ""
    Texts <- Texts_
    About <- About_
    PhoneHeaders = {"mobile"}
    FirstNameHeaders = {}
    LastNameHeaders = {}
    ExcelFiles <- ExcelFiles_
    SheetOf <- SheetOf_
    Attachments = {"photo"}
    Forms <- Forms_
    GlobalSets <- GlobalSets_
    PreviewRows = 1
INVARIANTS
    TypeOK
    AcceptedTemplateRenders
    MappedVariableIsItsColumn
    ColumnNamesAgree
    PreviewedFormIsReadable
    FilesAreTheOnesChosen
CHECK_DEADLOCK FALSE
