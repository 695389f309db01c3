SPECIFICATION Spec
CONSTANTS
  Texts = {"firmware", "daemon"}
  Inodes = {i1, i2}
  NoInode = none
  Text <- McText
  Files <- McFiles
  Lines <- McLines
  MachineNames = {"AN517-51", "Nitro"}
  BootRegisters <- McBoot
  WriteFaults <- McFaults
SYMMETRY McSymmetry
INVARIANTS
  TypeOK
  SectionsKeepTheirKeys
PROPERTIES
  ImplementsAtomicFile
  ExitUndoesStart
