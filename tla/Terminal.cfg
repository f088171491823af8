\* Lines of four characters; one argument, which takes the rest of the line.
CONSTANTS
  TERMINAL_BUFFER_SIZE = 5
  TERMINAL_MAX_ARGUMENTS = 1
  Chars <- Letters
  Commands <- Command
  Parameters <- Parameter
SPECIFICATION Spec
INVARIANTS TypeOK
PROPERTIES RunsTyped RunsAgainUntouched
