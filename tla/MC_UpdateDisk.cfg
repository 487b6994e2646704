\* Two broker threads running update_disk commands, one after the other or
\* overlapping.
CONSTANTS
    Disks <- Overlap_Disks
    Virtual <- Overlap_Virtual
    Names <- Overlap_Names
    Cmds = {c1, c2}
    None = None
SPECIFICATION Spec
INVARIANTS
    TypeOK
    RenameCheckedEarly
PROPERTY
    BootRuleBrokenOnlyByRace
