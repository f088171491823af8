CONSTANTS
  PAGES = 2
  WORDS = 2
  Half <- Halves
  ERASED = "erased"
  Sizes <- Bytes
  Cuts = 1
  Torn = Torn
SPECIFICATION Spec
PROPERTY IsStore
