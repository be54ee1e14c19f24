SPECIFICATION Spec

CONSTANTS
  Ann = Ann
  Bob = Bob
  Cid = Cid
  here = here
  there = there
  away = away
  far = far
  card = card
  stolen = stolen
  phone = phone
  clone = clone
  Blank = Blank
  Histories <- MCHistories
  Exports <- MCExports
  PageSize = 2
  MaxOffset = 5
\* A reported analysis is over.
CHECK_DEADLOCK FALSE
INVARIANTS
  TypeOK
  UnwarnedIsComplete
  MatchesAreCandidates
  SelectionIsMaximal
  FlaggedHavePartner
