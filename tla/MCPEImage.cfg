CONSTANTS
    short = short
    middling = middling
    long = long
    kernel = kernel
    user = user
    Externals = {short, middling, long}
    Dlls = {kernel, user}
    NameSize <- MCNameSize
    DllSize <- MCDllSize
    TextSizes = {1, 4096}
    DataSizes = {0, 1, 4097}
    FileAlign = 512
    SecAlign = 4096
    HeadersFixed = 328
    SectionHeader = 40
    Descriptor = 20
    SlotSize = 8
    ImageBase = 4194304
    DataBase = 12288
    NULL = NULL
SPECIFICATION ImageSpec
INVARIANTS
    SectionsApart
    WritesInPlace
    LoaderFindsImports
    DataWhereExpected
CHECK_DEADLOCK FALSE
