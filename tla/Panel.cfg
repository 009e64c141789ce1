CONSTANTS
  ann = ann
  bob = bob
  codenames = codenames
  Forms = {ann, bob}
  Valid = {ann, bob}
  Unfinished = Unfinished
  Nobody = Nobody
  Templates = {codenames}
  MaxSubs = 2
  Buffer = 2
  Visible = 1
  MaxEntries = 3
SPECIFICATION FairSpec
INVARIANTS
  ToldOfAdmin
  RowsAreTheNewest
  LiveIsLive
PROPERTIES
  SessionIsOwn
  SubmissionEnds
