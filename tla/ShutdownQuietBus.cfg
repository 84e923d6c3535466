SPECIFICATION LivelyClientSpec
PROPERTY ShutdownCompletes
