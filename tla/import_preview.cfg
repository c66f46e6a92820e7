\* One file of every make, with all that may have happened to it.
SPECIFICATION FairSpec
\* A preview settles once and a commit ends the story.
CHECK_DEADLOCK FALSE
CONSTANT Files <- MCFiles
INVARIANTS
    OnlyTrustedFilesAreWritten
    OwnBackupsAreAccepted
PROPERTY
    AbortEndsPreview
