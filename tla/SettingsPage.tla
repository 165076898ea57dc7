------------------------------ MODULE SettingsPage ------------------------------
(***************************************************************************)
(* The page of the credentials in the administration, with the server of   *)
(* Settings.  The page has three fields: store UUID, test mode, and a file *)
(* with its password, which the server turns into a certificate.  Save     *)
(* first has the credentials tested, then saves; the fields stay open all  *)
(* the while, and answers come when they come.                             *)
(*                                                                         *)
(* The page shows the values for all sales channels.  Others save through  *)
(* the API.                                                                *)
(***************************************************************************)
EXTENDS Settings

CONSTANTS
    Page,        \* the one of the Writers that is the page
    Files,       \* files an administrator may choose: certificates have the
                 \* names of their files
    WellFormed,  \* the store UUIDs of the right format
    On, Off,     \* the values of the test mode
    Queries,     \* showTwintEnvOptions in the address of the page
    Sent,        \* what others save: some keys with their values
    MaxEdits     \* bound on what is done to the fields or saved by others

ASSUME PageAssumption ==
    /\ Page \in Writers
    /\ Missing \notin Files
    /\ Values["certificate"] = Files \cup {Missing}
    /\ Sent \subseteq UNION {Changes(s, keys) : s \in Scopes, keys \in SUBSET Keys}
    /\ Queries \subseteq {"0", "1", "absent"}
    /\ WellFormed \subseteq Values["storeUuid"] \ {Missing}
    /\ Values["testMode"] = {On, Off}
ASSUME EditsAssumption == MaxEdits \in Nat

VARIABLES
    fields,    \* what the page would save: actualConfigData
    shown,     \* the file that sw-file-input shows
    file,      \* twint-certificate: currentCertFile,
    typed,     \*   there is a currentPassword,
    cert,      \*   certificate; Inherit if it was loaded and is not there
    uploads,   \* how many uploads of a file are under way
    loads,     \* its loadSettings has no answer yet
    switch,    \* twint-mode is to be seen
    locked, testing, loading,  \* flags of the page: isDisabled, isTesting, isLoading
    tested,    \* the credentials being tested
    edits,
    crossed,   \* history: a file was chosen or sent while another was under way
    late       \* history: the certificate was loaded when the button was locked

certificate == <<shown, file, typed, cert, uploads>>
flags == <<locked, testing, loading>>
page == <<fields, certificate, loads, switch, flags, tested, edits, crossed, late>>

Uploading == \E f \in Files : uploads[f] > 0

\* The password's field is there: v-if in twint-certificate.html.twig.
PasswordShown == cert = Missing

\* A shop in test mode gets to see the switch, unless the address forbids it.
SwitchVisible(query) == query = "1" \/ (query = "absent" /\ own[All]["testMode"] = On)

\* An address that forbids it turns the test mode off.
Toggled(query) ==
    IF query = "0" THEN [own[All] EXCEPT !["testMode"] = Off] ELSE own[All]

\* twint-mode has loaded its setting when the page is there.
InitPage ==
    /\ Init
    /\ \E query \in Queries : fields = Toggled(query) /\ switch = SwitchVisible(query)
    /\ shown = Missing /\ file = Missing
    /\ typed = FALSE
    /\ cert = Missing
    /\ uploads = [f \in Files |-> 0]
    /\ loads = TRUE
    /\ locked = FALSE /\ testing = FALSE /\ loading = FALSE
    /\ tested = None
    /\ edits = 0
    /\ crossed = FALSE /\ late = FALSE

-----------------------------------------------------------------------------
Edit == edits < MaxEdits /\ edits' = edits + 1

\* updateLock, of the page.
Lock(value) == locked' = value

\* uploadFile: file and password are sent.
Send(f) == uploads' = [uploads EXCEPT ![f] = @ + 1]

\* onFileChange: the old certificate goes, on the page too.
Cleared_Kept == fields
Cleared == [fields EXCEPT !["certificate"] = Missing]

ChooseFile(f) ==
    /\ Edit
    /\ shown' = f /\ file' = f
    /\ cert' = Missing
    /\ fields' = Cleared
    /\ IF typed THEN Send(f) /\ UNCHANGED locked
                ELSE Lock(TRUE) /\ UNCHANGED uploads
    /\ crossed' = Uploading
    /\ UNCHANGED <<vars, typed, loads, switch, testing, loading, tested, late>>

\* sw-file-input tells that its file is gone.  onFileChange takes no notice;
\* the component's v-model does where it listens to the same event.
RemoveFile ==
    /\ shown # Missing
    /\ Edit
    /\ shown' = Missing /\ file' \in {file, Missing}
    /\ UNCHANGED <<vars, fields, typed, cert, uploads, loads, switch, flags,
                   tested, crossed, late>>

\* updatePassword.
TypePassword(something) ==
    /\ PasswordShown
    /\ Edit
    /\ typed' = something
    /\ IF file = Missing THEN UNCHANGED <<locked, uploads, crossed>>
       ELSE IF something
            THEN Send(file) /\ crossed' = (crossed \/ Uploading) /\ UNCHANGED locked
            ELSE Lock(TRUE) /\ UNCHANGED <<uploads, crossed>>
    /\ UNCHANGED <<vars, fields, shown, file, cert, loads, switch, testing, loading,
                   tested, late>>

\* TwintController::extractPem has answered: with a certificate, or that file
\* and password do not go together.
Extracted_NotUnlocked(f) ==
    /\ cert' = f
    /\ fields' = [fields EXCEPT !["certificate"] = f]
    /\ UNCHANGED locked

Extracted(f) ==
    /\ cert' = f
    /\ fields' = [fields EXCEPT !["certificate"] = f]
    /\ Lock(FALSE)

NotExtracted_AsAnswered ==
    /\ cert' = Inherit
    /\ fields' = [fields EXCEPT !["certificate"] = Inherit]
    /\ UNCHANGED locked

NotExtracted ==
    /\ cert' = Missing
    /\ UNCHANGED <<fields, locked>>

Uploaded(f) ==
    /\ uploads[f] > 0
    /\ uploads' = [uploads EXCEPT ![f] = @ - 1]
    /\ Extracted(f) \/ NotExtracted
    /\ UNCHANGED <<vars, shown, file, typed, loads, switch, testing, loading, tested,
                   edits, crossed, late>>

\* loadSettings of twint-certificate: only the component learns it.
CertificateLoaded ==
    /\ loads
    /\ loads' = FALSE
    /\ cert' \in IF own[All]["certificate"] = Missing THEN {Missing, Inherit}
                ELSE {own[All]["certificate"]}
    /\ late' = locked
    /\ UNCHANGED <<vars, fields, shown, file, typed, uploads, switch, flags, tested,
                   edits, crossed>>

EditMode ==
    /\ switch
    /\ Edit
    /\ \E v \in {On, Off} \ {fields["testMode"]} : fields' = [fields EXCEPT !["testMode"] = v]
    /\ UNCHANGED <<vars, certificate, loads, switch, flags, tested, crossed, late>>

EditUuid ==
    /\ Edit
    /\ \E v \in Values["storeUuid"] \ {fields["storeUuid"]} :
          fields' = [fields EXCEPT !["storeUuid"] = v]
    /\ UNCHANGED <<vars, certificate, loads, switch, flags, tested, crossed, late>>

-----------------------------------------------------------------------------
\* checkRequiredFields: there is a store UUID of the right format and a
\* certificate.  Otherwise the page says what is missing.
Complete == fields["storeUuid"] \in WellFormed /\ fields["certificate"] # Missing

\* validateCredentials: the credentials go to TWINT as they are now.
Validate == tested' = fields

\* onTest, of the button "Save".
Test ==
    /\ ~locked /\ ~testing /\ ~loading
    /\ Complete
    /\ testing' = TRUE
    /\ Validate
    /\ UNCHANGED <<vars, fields, certificate, loads, switch, locked, loading, edits,
                   crossed, late>>

\* onSave, when TWINT has accepted them: everything the page has by now, with
\* the `validated` it once loaded.
MayBeSaved_NoSecondLook == TRUE
MayBeSaved == Complete

Tested ==
    /\ testing
    /\ testing' = FALSE
    /\ tested' = None
    /\ \/ /\ tested \in Accepted /\ MayBeSaved
          /\ loading' = TRUE
          /\ Save(Page, All, fields, "value")
       \/ UNCHANGED <<vars, loading>>
    /\ UNCHANGED <<fields, certificate, loads, switch, locked, edits, crossed, late>>

\* The server has answered the save, well or not.
Saved ==
    /\ loading /\ rq[Page].at = "idle"
    /\ loading' = FALSE
    /\ UNCHANGED <<vars, fields, certificate, loads, switch, locked, testing, tested,
                   edits, crossed, late>>

\* Another administrator or a program saves, with a value or null for
\* `validated`, or without, or only that; for a channel perhaps that it has no value of its own.
OthersSave(w, s, kvs) ==
    /\ w # Page
    /\ Edit
    /\ kvs \in Changes(s, DOMAIN kvs)
    /\ \E flag \in Flags : Save(w, s, kvs, flag)
    /\ UNCHANGED <<fields, certificate, loads, switch, flags, tested, crossed, late>>

Visit ==
    \/ \E f \in Files : ChooseFile(f) \/ Uploaded(f)
    \/ \E something \in BOOLEAN : TypePassword(something)
    \/ RemoveFile \/ CertificateLoaded \/ EditMode \/ EditUuid
    \/ Test \/ Tested \/ Saved
    \/ \E w \in Writers, s \in Scopes, kvs \in Sent : OthersSave(w, s, kvs)

NextPage == Visit \/ (Server /\ UNCHANGED page)

SpecPage == InitPage /\ [][NextPage]_<<vars, page>>

-----------------------------------------------------------------------------
PageTypeOK ==
    /\ TypeOK
    /\ fields \in Credentials
    /\ shown \in Files \cup {Missing} /\ file \in Files \cup {Missing}
    /\ cert \in Files \cup {Missing, Inherit}
    /\ uploads \in [Files -> 0..MaxEdits]
    /\ typed \in BOOLEAN /\ loads \in BOOLEAN /\ switch \in BOOLEAN
    /\ locked \in BOOLEAN /\ testing \in BOOLEAN /\ loading \in BOOLEAN
    /\ crossed \in BOOLEAN /\ late \in BOOLEAN
    /\ tested \in Credentials \cup {None}
    /\ edits \in 0..MaxEdits

\* The certificate the page would save is that of the file it shows, however
\* long an upload takes, unless another file was on its way meanwhile.
CertificateIsOfFile ==
    fields["certificate"] # Missing /\ shown # Missing => fields["certificate"] = shown \/ crossed

\* While a test runs a new file may be chosen and a store UUID typed: still,
\* unless another request comes between, the server finds everything it needs
\* to judge what the page had it store.
PageIsJudged == rq[Page].at = "read" /\ rq[Page].alone => ~Unreadable(own[All])

\* An administrator whose button is locked sees what for: the password's field
\* is there, unless the page learned what is stored only when it was locked
\* already.
LockedForPassword == locked => PasswordShown \/ late
=============================================================================
