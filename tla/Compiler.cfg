SPECIFICATION CompilerSpec
CONSTANTS
    main = main
    util = util
    lib = lib
    Files <- ModuleFiles
    Package <- MainPackage
    Entry = main
    NoFile = NoFile
    Unparsable = {2}
    MaxTick = 4
    MaxReloads = 3
INVARIANTS
    ParsesCurrent
    ResultIsCurrent
    ResolutionSound
    CodegenSound
    LoadingSound
CHECK_DEADLOCK FALSE
