\* Deployments without any failure.
CONSTANTS
    Dir <- MCDir
    IntegrationTests = TRUE
    TypeScript = TRUE
    Projects <- MCProjects
    MaxEdits = 1
    MaxFailures = 0
    Versions = 2
    DescriptorArgument = FALSE
SPECIFICATION BuildSpec
PROPERTY DeployedIsCurrent
CHECK_DEADLOCK FALSE
