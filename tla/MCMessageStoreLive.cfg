CONSTANTS
    Handles = {"h1", "h2", "h3"}
    Folder <- FolderOf
    Mail <- MailOf
    None = None
    Jobs = {j1, j2}
    Budget = 1
    MaxMentions = 3
    MaxRows = 3
SPECIFICATION FairSpec
PROPERTY BodiesArrive
CHECK_DEADLOCK FALSE
