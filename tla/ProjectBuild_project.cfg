CONSTANTS
    Dir <- MCDir
    IntegrationTests = TRUE
    TypeScript = TRUE
    Projects <- MCProjects
    MaxEdits = 2
    MaxFailures = 1
    Versions = 2
    DescriptorArgument = FALSE
SPECIFICATION BuildSpec
INVARIANT BuildTypeOK
PROPERTIES UserFilesKept BuildIsCurrent IndexIsServed
CHECK_DEADLOCK FALSE
