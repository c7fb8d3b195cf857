SPECIFICATION Spec
CONSTANTS
  p1 = p1 p2 = p2 weak = weak strong = strong
  Procs = {p1, p2}
  Images <- MCImages
  MaxUnsettled = 1
  FileLock = TRUE
  Torn = Torn NoFile = NoFile NoWrite = NoWrite
  Labels = {l1}
  l1 = l1 l2 = l2
  MaxEntries = 2
  Passwords = {weak, strong}
  StrongPasswords = {strong}
  MaxSeeds = 2
  ClearTicks = 1
  NoLabel = NoLabel NoImage = NoImage NoJob = NoJob
INVARIANTS TypeOK NothingLostUnshown
PROPERTIES VaultFileAtomic ExportRecorded NeverReplaced ExitTruthful SecretGoes
