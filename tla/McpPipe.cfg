CONSTANTS
    Calls = {"x", "y"}
    MaxPipe = 1
SPECIFICATION McpSpec
CHECK_DEADLOCK FALSE
PROPERTY TeardownCompletes
