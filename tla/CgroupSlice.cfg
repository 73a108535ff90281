\* Every slice string of up to four elements, absolute or relative.
CONSTANTS
  Names <- MCNames
  MaxElems = 4
SPECIFICATION Spec
INVARIANT TypeOK
INVARIANT RelativeSliceUnderRoot
\* each slice is resolved once; the validation then ends
CHECK_DEADLOCK FALSE
