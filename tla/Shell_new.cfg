SPECIFICATION ShellSpec
CONSTANTS
  MaxId = 4
  MaxItems = 3
PROPERTY NewHostsAreNew
