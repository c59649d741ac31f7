CONSTANTS
    Handles = {"h1", "h2", "h3", "h4", "h5"}
    Folder <- FolderOf
    Mail <- MailOf
    None = None
    Jobs = {j1, j2}
    Budget = 1
    MaxMentions = 3
    MaxRows = 3
SYMMETRY Interchangeable
SPECIFICATION Spec
INVARIANT TypeOK
INVARIANT CopiesShareRow
INVARIANT ConversationsMeet
INVARIANT AccountsApart
PROPERTY BodyStays
CHECK_DEADLOCK FALSE
