\* Assignments among the lines that are run again.
CONSTANTS
  TERMINAL_BUFFER_SIZE = 5
  TERMINAL_MAX_ARGUMENTS = 1
  Chars <- Letters
  Commands <- Command
  Parameters <- Parameter
SPECIFICATION Spec
PROPERTIES RunsAgain
