---------------------------- MODULE SettingsPanels ----------------------------
(***************************************************************************)
(* The settings of the page (App.tsx): the view that is open, the          *)
(* preferences that are shown at once and saved behind, the webhook's      *)
(* draft, the Google connection, backup, account and user administration.  *)
(* Every request runs on while the user goes to other views: the flag that *)
(* disables its button, and what its answer sets, is looked at here.       *)
(*                                                                         *)
(* A preference is 0 or 1, a webhook setting 0 (none) to 2.  The account   *)
(* that signs in is always the same one, until it is deleted.              *)
(***************************************************************************)
EXTENDS Naturals, FiniteSets

CONSTANT MaxTries   \* bound: acts of the user and failed requests

ASSUME SettingsAssumption == MaxTries \in Nat

VARIABLES
  settings,        \* the page's state, see Blank
  serverSettings,  \* the account's settings, connection and the users
  requests,        \* requests under way
  hoursStored,     \* localStorage has working hours
  account,         \* signed in on this page
  confirmed,       \* history: what the user confirmed since he opened the view
  unsettled,       \* history: overlapping and failed requests
  tries            \* bound of the model

settingsVars == <<settings, serverSettings, requests, hoursStored, account,
                  confirmed, unsettled, tries>>

Preferences == {"week", "daily", "hours"}
Others == 1..2         \* other users
NoUser == 0
Views == {"closed", "menu", "webhook", "google-calendar", "calendar-display",
          "backup", "account", "change-password", "delete-account", "admin"}

\* settingsView; weekStart, isDailyTodoNotificationEnabled, workingHours.start;
\* webhookSettings and its draft; googleCalendarStatus and its dialog; the file to
\* import; the word typed to delete the account; adminUsers, the user to delete and
\* the one being deleted; the flags of requests under way; and, as a history, whether
\* the working hours were set on this page.
Blank == [view |-> "closed", week |-> 0, daily |-> 0, hours |-> 0, hoursSet |-> FALSE,
          webhook |-> 0, draft |-> 0, google |-> "unknown", dialog |-> FALSE,
          file |-> FALSE, phrase |-> "", users |-> {}, candidate |-> NoUser,
          deleting |-> NoUser, busy |-> {}]
AtServer == [week |-> 1, daily |-> 1, hours |-> 1, webhook |-> 1,
             google |-> "connected", users |-> Others]

\* Requests that only set a flag.
Plain == {"testing", "timezone", "password", "export", "connect", "sync"}
GoogleBusy == {"connect", "disconnect", "sync"}
WebhookBusy == {"saving", "testing"}
Flags == Plain \cup {"saving", "loading", "disconnect", "import", "account", "listing"}
RequestKinds == Plain \cup Preferences \cup
  {"load", "saving", "status", "disconnect", "import", "account", "users", "user"}

PageSettings == [
  view: Views, week: 0..1, daily: 0..1, hours: 0..1, hoursSet: BOOLEAN,
  webhook: 0..2, draft: 0..2,
  google: {"unknown", "connected", "disabled"}, dialog: BOOLEAN, file: BOOLEAN,
  phrase: {"", "DELETE"}, users: SUBSET Others, candidate: Others \cup {NoUser},
  deleting: Others \cup {NoUser}, busy: SUBSET Flags]
ServerSettings == [week: 0..1, daily: 0..1, hours: 0..1, webhook: 0..2,
                   google: {"connected", "disabled"}, users: SUBSET Others]
Requests == [kind: RequestKinds, value: 0..2, n: 0..MaxTries,
             then: Flags \cup {"none", "user"}, at: {"sent", "served", "failed"},
             seen: ServerSettings]

SettingsTypeOK ==
  /\ settings \in PageSettings
  /\ serverSettings \in ServerSettings
  /\ requests \subseteq Requests
  /\ \A r \in requests : r.kind \in Preferences => r.value \in 0..1
  /\ hoursStored \in BOOLEAN
  /\ account \in {"out", "in", "gone"}
  /\ confirmed \subseteq {"account", "import", "disconnect", "user"}
  /\ unsettled \subseteq {"overlap", "failure"}
  /\ tries \in 0..MaxTries

SettingsInit ==
  /\ settings = Blank
  /\ serverSettings = AtServer
  /\ requests = {}
  /\ hoursStored = FALSE
  /\ account = "out"
  /\ confirmed = {}
  /\ unsettled = {}
  /\ tries = 0
-----------------------------------------------------------------------------
(* Requests.                                                               *)

Ask(kind, value, then) ==
  [kind |-> kind, value |-> value, n |-> tries, then |-> then, at |-> "sent",
   seen |-> AtServer]

\* Requests whose answers, out of order, may leave something old on the page.
Clashing(kind) ==
  CASE kind \in Preferences \cup {"load", "saving"} -> Preferences \cup {"load", "saving"}
    [] kind \in {"status", "disconnect"} -> {"status", "disconnect"}
    [] kind \in {"users", "user"} -> {"users", "user"}
    [] OTHER -> {}

\* A request is sent while others are under way.
SendsBeside(others, r) ==
  /\ requests' = others \cup {r}
  /\ unsettled' = IF \E other \in others : other.kind \in Clashing(r.kind)
                  THEN unsettled \cup {"overlap"} ELSE unsettled

Sends(r) == SendsBeside(requests, r)
SendsNothing == UNCHANGED <<requests, unsettled>>

Try == tries < MaxTries /\ tries' = tries + 1

\* An act of the user that leaves him in his view.
Acts(p) ==
  /\ account = "in" /\ Try
  /\ settings' = p
  /\ UNCHANGED <<serverSettings, hoursStored, account>>

-----------------------------------------------------------------------------
(* The controls that a view offers: views to open, fields, and requests by *)
(* the name of their flag, without those that are disabled.                *)

MenuControls ==
  {"calendar-display", "google-calendar", "webhook", "backup", "account", "admin"}

AccountControls == {"sign-out", "change-password", "delete-account", "menu"}

ChangePasswordControls(p) ==
  IF "password" \in p.busy THEN {} ELSE {"password", "account"}

DeleteAccountControls(p) ==
  {"phrase"} \cup IF "account" \in p.busy THEN {}
                  ELSE {"account"} \cup IF p.phrase = "DELETE" THEN {"deletion"} ELSE {}

CalendarControls == {"week", "hours"}
TimezoneControls(p) == {"timezone"} \ p.busy
NotificationControls == {"daily"}

BackupControls(p) ==
  ({"export"} \ p.busy)
    \cup (IF "import" \in p.busy THEN {} ELSE IF p.file THEN {"import"} ELSE {"file"})
    \cup (IF p.busy \cap {"export", "import"} = {} THEN {"menu"} ELSE {})

GoogleCalendarControls(p) ==
  IF p.busy \cap GoogleBusy # {} THEN {}
  ELSE {"connect", "menu"} \cup IF p.google = "connected" THEN {"sync", "dialog"} ELSE {}

WebhookControls(p) ==
  {"draft"} \cup IF p.busy \cap WebhookBusy = {} THEN WebhookBusy ELSE {}

\* The last admin that is listed is not offered: the others are no admins here.
UsersToDelete(p) == IF "listing" \in p.busy THEN {} ELSE p.users \ {p.deleting}

Controls(p) ==
  CASE p.view = "closed" -> {"menu"}
    [] p.view = "menu" -> MenuControls
    [] p.view = "account" -> AccountControls
    [] p.view = "change-password" -> ChangePasswordControls(p)
    [] p.view = "delete-account" -> DeleteAccountControls(p)
    [] p.view = "calendar-display" ->
         {"menu"} \cup CalendarControls \cup TimezoneControls(p) \cup NotificationControls
    [] p.view = "backup" -> BackupControls(p)
    [] p.view = "google-calendar" -> GoogleCalendarControls(p)
    [] p.view = "webhook" -> WebhookControls(p)
    [] p.view = "admin" -> {"menu"}

\* The dialogs cover the page.
DisconnectDialogControls(p) ==
  IF p.dialog THEN {"cancel", "disconnect"} \ p.busy ELSE {}

AdminDialogControls(p) ==
  IF p.candidate \in {NoUser, p.deleting} THEN {}
  ELSE {"user"} \cup IF p.deleting = NoUser THEN {"cancel"} ELSE {}

NoDialog == ~ settings.dialog /\ settings.candidate = NoUser
Offered(control) == NoDialog /\ control \in Controls(settings)
-----------------------------------------------------------------------------
(* The page, the session and the views.                                    *)

\* The page's effects run: the working hours are stored, and a token that is
\* stored loads the settings.
Mount ==
  /\ ~ hoursStored
  /\ hoursStored' = TRUE
  /\ account' = "in"
  /\ Sends(Ask("load", 0, "none"))
  /\ UNCHANGED <<settings, serverSettings, confirmed, tries>>

AccountFormsReset(p) ==
  [p EXCEPT !.phrase = "", !.busy = @ \ {"password", "account"},
            !.candidate = NoUser, !.deleting = NoUser]

\* resetAppData: the week's start, working hours and some flags stay.
DataReset(p) ==
  AccountFormsReset([Blank EXCEPT !.week = p.week,
                       !.hours = p.hours, !.hoursSet = p.hoursSet,
                       !.busy = p.busy \cap {"saving", "testing", "timezone"}])

SignOut ==
  /\ Offered("sign-out") /\ Try
  /\ account' = "out"
  /\ settings' = DataReset(settings)
  /\ confirmed' = {}
  /\ SendsNothing
  /\ UNCHANGED <<serverSettings, hoursStored>>

SignIn ==
  /\ hoursStored /\ account = "out" /\ Try
  /\ account' = "in"
  /\ Sends(Ask("load", 0, "none"))
  /\ UNCHANGED <<settings, serverSettings, hoursStored, confirmed>>

OpenedWithFile(p, view) ==   \* mutant: the chosen backup file is kept
  LET shown == [p EXCEPT !.view = view]
  IN CASE view \in {"menu", "account", "change-password", "delete-account"} ->
            AccountFormsReset(shown)
       [] view = "webhook" -> [shown EXCEPT !.draft = p.webhook]
       [] view = "google-calendar" ->
            [shown EXCEPT !.dialog = FALSE, !.busy = @ \cup {"loading"}]
       [] view = "admin" -> [shown EXCEPT !.busy = @ \cup {"listing"}]
       [] OTHER -> shown

\* open...Settings: closeSettingsPanels, then what is particular to the view.
Opened(p, view) ==
  LET shown == [p EXCEPT !.view = view]
  IN CASE view \in {"menu", "account", "change-password", "delete-account"} ->
            AccountFormsReset(shown)
       [] view = "webhook" -> [shown EXCEPT !.draft = p.webhook]
       [] view = "backup" -> [shown EXCEPT !.file = FALSE]
       [] view = "google-calendar" ->
            [shown EXCEPT !.dialog = FALSE, !.busy = @ \cup {"loading"}]
       [] view = "admin" -> [shown EXCEPT !.busy = @ \cup {"listing"}]
       [] OTHER -> shown

OpenView(view) ==
  /\ Offered(view)
  /\ Acts(Opened(settings, view))
  /\ CASE view = "google-calendar" -> Sends(Ask("status", 0, "none"))
       [] view = "admin" -> Sends(Ask("users", 0, "none"))
       [] OTHER -> SendsNothing
  /\ confirmed' = {}

\* The settings button, the navigation, a click beside the settings.
CloseSettingsPanels ==
  /\ NoDialog /\ settings.view # "closed"
  /\ Acts(AccountFormsReset([settings EXCEPT !.view = "closed"]))
  /\ SendsNothing
  /\ confirmed' = {}
-----------------------------------------------------------------------------
(* What the views do.                                                      *)

\* updateWeekStart, updateDailyTodoNotificationEnabled, updateWorkingHours (start).
UpdatePreference(p) ==
  /\ Offered(p)
  /\ Acts([settings EXCEPT ![p] = 1 - @, !.hoursSet = @ \/ p = "hours"])
  /\ Sends(Ask(p, 1 - settings[p], "none"))
  /\ UNCHANGED confirmed

EditWebhook(value) ==
  /\ Offered("draft") /\ value # settings.draft
  /\ Acts([settings EXCEPT !.draft = value])
  /\ SendsNothing /\ UNCHANGED confirmed

SaveWebhookSettings ==
  /\ Offered("saving")
  /\ Acts([settings EXCEPT !.busy = @ \cup {"saving"}])
  /\ Sends(Ask("saving", settings.draft, "none"))
  /\ UNCHANGED confirmed

\* Test, time zone, password, export, connect and sync.
PlainRequest(kind) ==
  /\ Offered(kind)
  /\ Acts([settings EXCEPT !.busy = @ \cup {kind}])
  /\ Sends(Ask(kind, 0, "none"))
  /\ UNCHANGED confirmed

\* Types DELETE, chooses a file, opens one of the two dialogs.
Confirm(what, p) ==
  Acts(p) /\ confirmed' = confirmed \cup {what} /\ SendsNothing

TypeDelete ==
  /\ Offered("phrase") /\ settings.phrase = ""
  /\ Confirm("account", [settings EXCEPT !.phrase = "DELETE"])

HandleBackupImportFileChange ==
  /\ Offered("file")
  /\ Confirm("import", [settings EXCEPT !.file = TRUE])

OpenDisconnectConfirm ==
  /\ Offered("dialog")
  /\ Confirm("disconnect", [settings EXCEPT !.dialog = TRUE])

OpenDeleteAdminUserConfirm(u) ==
  /\ settings.view = "admin" /\ NoDialog /\ u \in UsersToDelete(settings)
  /\ Confirm("user", [settings EXCEPT !.candidate = u])

CancelDialog ==
  /\ \/ /\ "cancel" \in DisconnectDialogControls(settings)
        /\ Acts([settings EXCEPT !.dialog = FALSE])
     \/ /\ "cancel" \in AdminDialogControls(settings)
        /\ Acts([settings EXCEPT !.candidate = NoUser])
  /\ SendsNothing /\ UNCHANGED confirmed

HandleDeleteAccount ==
  /\ Offered("deletion")
  /\ Acts([settings EXCEPT !.busy = @ \cup {"account"}])
  /\ Sends(Ask("account", 0, "none"))
  /\ UNCHANGED confirmed

ConfirmBackupImport ==
  /\ Offered("import")
  /\ Acts([settings EXCEPT !.busy = @ \cup {"import"}])
  /\ Sends(Ask("import", 0, "none"))
  /\ UNCHANGED confirmed

HandleDisconnectGoogleCalendar ==
  /\ "disconnect" \in DisconnectDialogControls(settings)
  /\ Acts([settings EXCEPT !.busy = @ \cup {"disconnect"}])
  /\ Sends(Ask("disconnect", 0, "none"))
  /\ UNCHANGED confirmed

HandleDeleteAdminUser ==
  /\ "user" \in AdminDialogControls(settings)
  /\ Acts([settings EXCEPT !.deleting = settings.candidate])
  /\ Sends(Ask("user", settings.candidate, "none"))
  /\ UNCHANGED confirmed
-----------------------------------------------------------------------------
(* The server and the answers.                                             *)

AfterAll(r) ==
  CASE r.kind \in Preferences -> [serverSettings EXCEPT ![r.kind] = r.value]
    [] r.kind = "saving" -> [serverSettings EXCEPT !.webhook = r.value]
    [] r.kind = "disconnect" -> [serverSettings EXCEPT !.google = "disabled"]
    [] r.kind = "user" -> [serverSettings EXCEPT !.users = @ \ {r.value}]
    [] OTHER -> serverSettings

RequestServed(r) ==
  /\ r \in requests /\ r.at = "sent"
  /\ \/ /\ serverSettings' = AfterAll(r)
        /\ requests' = (requests \ {r}) \cup
                         {[r EXCEPT !.at = "served", !.seen = serverSettings']}
        /\ UNCHANGED <<unsettled, tries>>
     \/ /\ Try
        /\ requests' = (requests \ {r}) \cup {[r EXCEPT !.at = "failed"]}
        /\ unsettled' = unsettled \cup {"failure"}
        /\ UNCHANGED serverSettings
  /\ UNCHANGED <<settings, hoursStored, account, confirmed>>

FlagOfListing(r) ==   \* mutant: only the listing's own flag is given back
  CASE r.kind = "status" -> {"loading"}
    [] r.kind = "users" -> {"listing"}
    [] OTHER -> {r.kind}

\* The flag a request has set; its answer, or its failure, clears it.
FlagOf(r) ==
  CASE r.kind = "status" -> {"loading"} \cup {r.then}
    [] r.kind = "users" -> {"listing"}
    [] OTHER -> {r.kind}

\* finally: a deletion of a user ends when the list has been loaded again.
Finished(r, p) ==
  [p EXCEPT !.busy = @ \ FlagOf(r),
            !.deleting = IF r.then = "user" \/ r.kind = "user" THEN NoUser ELSE @]

LoadedWithoutDaily(r, p) ==   \* mutant: the daily list's switch is not loaded
  [p EXCEPT !.webhook = r.seen.webhook, !.draft = r.seen.webhook,
            !.week = r.seen.week, !.hours = IF hoursStored THEN @ ELSE r.seen.hours]

Loaded(r, p) ==
  [p EXCEPT !.webhook = r.seen.webhook, !.draft = r.seen.webhook,
            !.week = r.seen.week, !.daily = r.seen.daily,
            !.hours = IF hoursStored THEN @ ELSE r.seen.hours]

\* Whatever view is open by now, a saved webhook opens the menu.
AnswerShown(r, p) ==
  CASE r.kind = "load" -> Loaded(r, p)
    [] r.kind = "saving" ->
         Opened([p EXCEPT !.webhook = r.value, !.draft = r.value], "menu")
    [] r.kind = "status" -> [p EXCEPT !.google = r.seen.google]
    [] r.kind = "users" -> [p EXCEPT !.users = r.seen.users]
    [] r.kind = "import" -> [p EXCEPT !.file = FALSE]
    [] OTHER -> p

\* Disconnecting, syncing and deleting a user go on with a listing: their flags
\* stay until it is answered.
Continued(r) ==
  r.at = "served" /\ r.kind \in {"disconnect", "sync", "user"}

RequestContinued(r) ==
  /\ r \in requests /\ Continued(r)
  /\ LET next == [r EXCEPT !.at = "sent", !.then = r.kind, !.kind =
                    IF r.kind = "user" THEN "users" ELSE "status"]
     IN SendsBeside(requests \ {r}, next)
  /\ settings' = IF r.kind = "user"
                 THEN [settings EXCEPT !.candidate = NoUser,
                         !.busy = @ \cup {"listing"}]
                 ELSE [settings EXCEPT !.busy = @ \cup {"loading"},
                         !.dialog = @ /\ r.kind # "disconnect"]
  /\ UNCHANGED <<serverSettings, hoursStored, account, confirmed, tries>>

RequestAnswered(r) ==
  /\ r \in requests /\ r.at # "sent" /\ ~ Continued(r)
  /\ r.at = "served" => r.kind \notin {"connect", "account"}
  /\ requests' = requests \ {r}
  /\ settings' = Finished(r, IF r.at = "served" THEN AnswerShown(r, settings)
                             ELSE settings)
  /\ UNCHANGED <<serverSettings, hoursStored, account, confirmed, unsettled, tries>>

\* A connection leaves the page for Google, whoever is signed in by now; the page that
\* comes back is a new one, with what is stored of the session and of the hours.
ConnectAnswered(r) ==
  /\ r \in requests /\ r.at = "served" /\ r.kind = "connect"
  /\ serverSettings' = [serverSettings EXCEPT !.google = "connected"]
  /\ settings' = [Blank EXCEPT !.hours = settings.hours, !.hoursSet = settings.hoursSet]
  /\ requests' = IF account = "in" THEN {Ask("load", 0, "none")} ELSE {}
  /\ unsettled' = IF requests = {r} THEN unsettled ELSE unsettled \cup {"overlap"}
  /\ confirmed' = {}
  /\ UNCHANGED <<hoursStored, account, tries>>

\* Whoever is signed in by now is signed out.
AccountDeleted(r) ==
  /\ r \in requests /\ r.at = "served" /\ r.kind = "account"
  /\ account' = "gone"
  /\ requests' = requests \ {r}
  /\ settings' = DataReset(settings)
  /\ confirmed' = {}
  /\ UNCHANGED <<serverSettings, hoursStored, unsettled, tries>>
-----------------------------------------------------------------------------
RequestStep == \E r \in requests : \/ RequestServed(r) \/ RequestContinued(r)
                                   \/ RequestAnswered(r) \/ ConnectAnswered(r)
                                   \/ AccountDeleted(r)

SettingsNext ==
  \/ RequestStep
  \/ Mount \/ SignOut \/ SignIn
  \/ \E view \in Views : OpenView(view)
  \/ CloseSettingsPanels
  \/ \E p \in Preferences : UpdatePreference(p)
  \/ \E value \in {0, 2} : EditWebhook(value)
  \/ SaveWebhookSettings
  \/ \E kind \in Plain : PlainRequest(kind)
  \/ TypeDelete \/ HandleBackupImportFileChange \/ OpenDisconnectConfirm
  \/ \E u \in Others : OpenDeleteAdminUserConfirm(u)
  \/ CancelDialog
  \/ HandleDeleteAccount \/ ConfirmBackupImport
  \/ HandleDisconnectGoogleCalendar \/ HandleDeleteAdminUser

SettingsSpec == SettingsInit /\ [][SettingsNext]_settingsVars
SettingsFairness == WF_settingsVars(RequestStep)
-----------------------------------------------------------------------------
Irrevocable == {"account", "import", "disconnect", "user"}

\* What cannot be taken back is asked of the server only after the user confirmed
\* it in this visit to its view: no word, file or dialog is left over from a visit
\* before, whatever answers came in between.
Confirmed ==
  [][\A r \in requests' \ requests :
       r.kind \in Irrevocable /\ r.at = "sent" => r.kind \in confirmed]_settingsVars

\* When no request is under way, none failed and none overtook another, the page
\* shows the settings, the connection and the users that the server has.  The working
\* hours are the exception: the page stores its own when it opens, and then shows the
\* server's only when they were set here.
SettingsAgree ==
  requests = {} /\ unsettled = {} /\ account = "in" =>
    /\ \A p \in {"week", "daily", "webhook"} : settings[p] = serverSettings[p]
    /\ settings.hoursSet => settings.hours = serverSettings.hours
    /\ settings.google \in {"unknown", serverSettings.google}
    /\ settings.users \in {{}, serverSettings.users}

\* No button stays disabled: whatever fails or comes late, and wherever the user
\* has gone, every request gives its flag back.
ButtonsReturn == <>[](settings.busy = {} /\ settings.deleting = NoUser)
==============================================================================
