\* The page and another writer, a sales channel, two files; three edits.
CONSTANTS
    f1 = f1
    f2 = f2
    good = good
    On = On
    Off = Off
    Missing = Missing
    Inherit = Inherit
    All = All
    Page = Page
    Channels = {ch}
    Writers = {Page, api}
    Files = {f1, f2}
    WellFormed = {good}
    Values <- KeyValues
    Accepted <- Accepting
    Installed <- AtFirst
    Queries = {"absent"}
    Sent <- Requests
    MaxEdits = 3
    MaxFaults = 1
SPECIFICATION SpecPage
INVARIANTS
    PageTypeOK
    VerdictTells
    CertificateIsOfFile
    PageIsJudged
    LockedForPassword
CHECK_DEADLOCK FALSE
