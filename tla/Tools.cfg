\* Two files, by paths of up to three segments through the workspace and its parent.
CONSTANTS
  Names <- MCNames
  Relative <- MCRelative
  Texts <- MCTexts
  Touched <- MCTouched
  MaxFiles = 2
  MaxOutputBytes = 4
  None = None
SPECIFICATION Spec
INVARIANTS WorksWherePathLeads ReadsWhatWasWritten OutputBounded
PROPERTY ErrorChangedNothing
