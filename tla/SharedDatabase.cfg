\* Two openers that upgrade and use one file of any version, two backups of it.
SPECIFICATION FairBackupSpec
CONSTANTS
    None = None
    Opener = {o1, o2}
    Backup = {b1, b2}
    Found <- FoundDatabases
    Run = {r1, r2}
    Cases = 1
    Wanted <- Asked
INVARIANTS VersionTellsTables BackupIsCommitted
PROPERTIES ImplementsSchemaContract OpeningEnds ImplementsRunHistory DestinationKept
