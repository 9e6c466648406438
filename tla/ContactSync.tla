---------------------------- MODULE ContactSync ----------------------------
(***************************************************************************)
(* The campaign list and the mail provider's audience, for one mailbox      *)
(* (src/apps/web/src/contacts/resend.ts, persist.ts, import.ts).  Sign-up,   *)
(* Connect GitHub and the import write the row; the sync job and a sign-up   *)
(* push it to the audience; the job and the provider's webhook bring an      *)
(* unsubscribe back.  The import's transaction reads before it updates and   *)
(* locks nothing, like everybody else.                                      *)
(*                                                                         *)
(* The contact has a name, so a push always sends its PATCH.  Nobody         *)
(* subscribes again or deletes the contact on the provider's side.  No two   *)
(* calls of new Date() give the same time.                                  *)
(***************************************************************************)
EXTENDS Naturals

CONSTANTS
    ContactRuns,    \* sign-ups, imports, webhooks and sync jobs in flight
    LastStamp       \* bound: calls of new Date()

ASSUME ContactAssumption == LastStamp \in Nat

VARIABLES
    csRow,        \* the row in marketing_contacts
    csAudience,   \* the contact at the provider
    csClock,      \* the last time that was read
    csRun,        \* what is in flight
    csHoles       \* history: a write was stamped before the last sync, or an unsubscribe
                  \* that the provider refused was taken for told

csVars == <<csRow, csAudience, csClock, csRun, csHoles>>
-----------------------------------------------------------------------------
Stamps == 0 .. LastStamp        \* 0 is null

\* synced: resend_synced_at; known: resend_contact_id is there.
ContactRow == [in: BOOLEAN, subscribed: BOOLEAN, known: BOOLEAN, updated: Stamps, synced: Stamps]
NoContact == [in |-> FALSE, subscribed |-> TRUE, known |-> FALSE, updated |-> 0, synced |-> 0]

ContactPCs == {"idle", "list", "sync_read", "sync_mark", "stale", "post", "patch", "synced",
               "hook_read", "hook_mark", "import_read", "import_write",
               "signup_read", "signup_write", "link_read", "link_write"}

\* now: its new Date(); master: what the import's files say; read: the row.
ContactRunIdle == [pc |-> "idle", now |-> 0, master |-> TRUE, read |-> NoContact]

ContactTypeOK ==
    /\ csRow \in ContactRow
    /\ csAudience \in [in: BOOLEAN, unsubscribed: BOOLEAN]
    /\ csClock \in Stamps
    /\ csRun \in [ContactRuns -> [pc: ContactPCs, now: Stamps, master: BOOLEAN, read: ContactRow]]
    /\ csHoles \in BOOLEAN

ContactInit ==
    /\ csRow = NoContact
    /\ csAudience = [in |-> FALSE, unsubscribed |-> FALSE]
    /\ csClock = 0
    /\ csRun = [r \in ContactRuns |-> ContactRunIdle]
    /\ csHoles = FALSE

ContactRunGoto(r, pc) == csRun' = [csRun EXCEPT ![r].pc = pc]
ContactRunEnds(r) == csRun' = [csRun EXCEPT ![r] = ContactRunIdle]
ContactRunReads(r, pc) == csRun' = [csRun EXCEPT ![r].pc = pc, ![r].read = csRow]
ContactRunOnly == UNCHANGED <<csRow, csAudience, csClock, csHoles>>

\* A row the sync job still has to push.
StaleRow(row) == row.in /\ (row.synced = 0 \/ row.synced < row.updated)

WriteContact(row) ==
    /\ csRow' = row
    /\ csHoles' = (csHoles \/ (row.updated # csRow.updated /\ row.updated <= csRow.synced))
    /\ UNCHANGED <<csAudience, csClock>>

\* A call starts by reading the clock.
ContactRunBegins(r, pc, master) ==
    /\ csRun[r].pc = "idle" /\ csClock < LastStamp
    /\ csClock' = csClock + 1
    /\ csRun' = [csRun EXCEPT ![r] = [ContactRunIdle EXCEPT !.pc = pc, !.master = master,
                                                            !.now = csClock + 1]]
    /\ UNCHANGED <<csRow, csAudience, csHoles>>
-----------------------------------------------------------------------------
(* recordSignupContact, recordGithubUsernameOnContact                       *)

Signup(r) == ContactRunBegins(r, "signup_read", TRUE)
LinkGithub(r) == ContactRunBegins(r, "link_read", TRUE)

SignupReads(r) ==
    /\ csRun[r].pc = "signup_read"
    /\ ContactRunReads(r, "signup_write")
    /\ ContactRunOnly

\* The row as it was inserted or updated is pushed; an insert that meets a
\* row of somebody else throws.
SignupWrites(r) ==
    LET read == csRun[r].read
        row == IF read.in THEN [csRow EXCEPT !.updated = csRun[r].now]
               ELSE [NoContact EXCEPT !.in = TRUE, !.updated = csRun[r].now]
    IN  /\ csRun[r].pc = "signup_write"
        /\ ~ read.in => ~ csRow.in
        /\ WriteContact(row)
        /\ csRun' = [csRun EXCEPT ![r].pc = "post", ![r].read = row]

LinkReads(r) ==
    /\ csRun[r].pc = "link_read"
    /\ IF csRow.in THEN ContactRunReads(r, "link_write") ELSE ContactRunEnds(r)
    /\ ContactRunOnly

LinkWrites(r) ==
    /\ csRun[r].pc = "link_write"
    /\ WriteContact([csRow EXCEPT !.updated = csRun[r].now])
    /\ ContactRunEnds(r)
-----------------------------------------------------------------------------
(* importMarketingContacts: master rows subscribe, suppressed rows do not    *)

Import(r, master) == ContactRunBegins(r, "import_read", master)

ImportReads(r) ==
    /\ csRun[r].pc = "import_read"
    /\ ContactRunReads(r, "import_write")
    /\ ContactRunOnly

\* An unsubscribe that was read wins over the file.
ImportedSubscribed(read, master) == (read.in => read.subscribed) /\ master

ImportWrites(r) ==
    LET q == csRun[r]
        subscribed == ImportedSubscribed(q.read, q.master)
    IN  /\ q.pc = "import_write"
        /\ ~ q.read.in => ~ csRow.in
        /\ WriteContact(
             IF q.read.in THEN [csRow EXCEPT !.subscribed = subscribed, !.updated = q.now]
             ELSE [NoContact EXCEPT !.in = TRUE, !.subscribed = subscribed, !.updated = q.now])
        /\ ContactRunEnds(r)
-----------------------------------------------------------------------------
(* pushContactToResend                                                      *)

\* contactPayload of an update: only an unsubscribe is told.
TellsSubscription_Always(row) == TRUE
TellsSubscription(row) == ~ row.subscribed

\* A contact that is there already is refused (409) and updated below.
Post(r) ==
    LET read == csRun[r].read
    IN  /\ csRun[r].pc = "post"
        /\ IF read.known \/ csAudience.in THEN UNCHANGED csAudience
           ELSE csAudience' = [in |-> TRUE, unsubscribed |-> ~ read.subscribed]
        /\ csRun' \in {[csRun EXCEPT ![r].pc = "patch"], [csRun EXCEPT ![r] = ContactRunIdle]}
        /\ UNCHANGED <<csRow, csClock, csHoles>>

\* The second outcome is an answer that was lost.
Patch(r) ==
    LET read == csRun[r].read
    IN  /\ csRun[r].pc = "patch"
        /\ IF TellsSubscription(read)
           THEN csAudience' = [csAudience EXCEPT !.unsubscribed = ~ read.subscribed]
           ELSE UNCHANGED csAudience
        /\ csRun' \in {[csRun EXCEPT ![r].pc = "synced"], [csRun EXCEPT ![r] = ContactRunIdle]}
        /\ UNCHANGED <<csRow, csClock, csHoles>>

\* A PATCH that is answered with 409 is taken for done.
PatchRefused(r) ==
    /\ csRun[r].pc = "patch" /\ TellsSubscription(csRun[r].read)
    /\ csHoles' = (csHoles \/ ~ csAudience.unsubscribed)
    /\ ContactRunGoto(r, "synced")
    /\ UNCHANGED <<csRow, csAudience, csClock>>

\* The condition on updated_at.
PushedAsIs(read) == csRow.updated = read.updated

RecordSynced(r) ==
    LET read == csRun[r].read
    IN  /\ csRun[r].pc = "synced" /\ csClock < LastStamp
        /\ csClock' = csClock + 1
        /\ csRow' = IF PushedAsIs(read) THEN [csRow EXCEPT !.known = TRUE, !.synced = csClock + 1]
                    ELSE csRow
        /\ ContactRunEnds(r)
        /\ UNCHANGED <<csAudience, csHoles>>
-----------------------------------------------------------------------------
(* syncMarketingContacts, handleResendWebhook                               *)

SyncJob(r) == ContactRunBegins(r, "list", TRUE)

\* What the list of the audience says; the list ends after twenty pages.
SyncLists(r) ==
    /\ csRun[r].pc = "list"
    /\ \/ csAudience.unsubscribed /\ ContactRunGoto(r, "sync_read")
       \/ ContactRunGoto(r, "stale")
    /\ ContactRunOnly

Webhook(r) ==
    /\ csAudience.unsubscribed
    /\ ContactRunBegins(r, "hook_read", TRUE)

MarkDone(r) ==
    IF csRun[r].pc \in {"hook_read", "hook_mark"} THEN ContactRunEnds(r)
    ELSE ContactRunGoto(r, "stale")

\* markContactUnsubscribed: a row that is unsubscribed may still miss the id.
ContactMarkReads(r) ==
    /\ csRun[r].pc \in {"hook_read", "sync_read"}
    /\ IF csRow.in /\ (csRow.subscribed \/ ~ csRow.known)
       THEN ContactRunReads(r, IF csRun[r].pc = "hook_read" THEN "hook_mark" ELSE "sync_mark")
       ELSE MarkDone(r)
    /\ ContactRunOnly

ContactMarkWrites(r) ==
    LET q == csRun[r]
    IN  /\ q.pc \in {"hook_mark", "sync_mark"}
        /\ WriteContact(
             IF q.read.subscribed
             THEN [csRow EXCEPT !.subscribed = FALSE, !.known = TRUE, !.updated = q.now]
             ELSE [csRow EXCEPT !.known = TRUE, !.updated = q.read.updated])
        /\ MarkDone(r)

\* An error while the audience is read back ends that part of the job.
PullFails(r) ==
    /\ csRun[r].pc \in {"sync_read", "sync_mark"}
    /\ ContactRunGoto(r, "stale")
    /\ ContactRunOnly

SelectStale(r) ==
    /\ csRun[r].pc = "stale"
    /\ IF StaleRow(csRow) THEN ContactRunReads(r, "post") ELSE ContactRunEnds(r)
    /\ ContactRunOnly

\* An error outside the pull, which nobody repeats, or nothing to change.
ContactRunFails(r) ==
    /\ csRun[r].pc # "idle"
    /\ ContactRunEnds(r)
    /\ ContactRunOnly

Unsubscribes ==
    /\ csAudience.in /\ ~ csAudience.unsubscribed
    /\ csAudience' = [csAudience EXCEPT !.unsubscribed = TRUE]
    /\ UNCHANGED <<csRow, csClock, csRun, csHoles>>
-----------------------------------------------------------------------------
ContactStep(r) ==
    \/ Signup(r) \/ LinkGithub(r) \/ SyncJob(r) \/ Webhook(r)
    \/ \E master \in BOOLEAN : Import(r, master)
    \/ SignupReads(r) \/ SignupWrites(r) \/ LinkReads(r) \/ LinkWrites(r)
    \/ ImportReads(r) \/ ImportWrites(r)
    \/ Post(r) \/ Patch(r) \/ PatchRefused(r) \/ RecordSynced(r)
    \/ SyncLists(r) \/ ContactMarkReads(r) \/ ContactMarkWrites(r) \/ PullFails(r)
    \/ SelectStale(r) \/ ContactRunFails(r)

ContactNext == (\E r \in ContactRuns : ContactStep(r)) \/ Unsubscribes

ContactSpec == ContactInit /\ [][ContactNext]_csVars
-----------------------------------------------------------------------------
(* Properties                                                               *)

\* An unsubscribe the provider has not been told of is one the sync job still
\* has to push (syncMarketingContacts): overlapping pushes, lost answers and
\* writes between a push and its record do not lose it, unless a write was
\* stamped with a time before the last sync or the provider answered the PATCH
\* that tells it with 409 (resend.ts:200).
UnsubscribePushed ==
    csRow.in /\ ~ csRow.subscribed /\ ~ csAudience.unsubscribed /\ ~ csHoles => StaleRow(csRow)

\* No step subscribes anybody again, at the provider or in the row, except an
\* import that had read the row before the unsubscribe (contacts/import.ts).
UnsubscribeOneWay ==
    [][/\ csAudience.unsubscribed => csAudience'.unsubscribed
       /\ csRow.in /\ ~ csRow.subscribed /\ csRow'.subscribed =>
            \E r \in ContactRuns : /\ csRun[r].pc = "import_write" /\ csRun[r].master
                                   /\ csRun[r].read.in => csRun[r].read.subscribed]_csVars

\* Both: an unsubscribe reaches the provider and is not taken back.
UnsubscribeKept ==
    /\ []UnsubscribePushed
    /\ UnsubscribeOneWay
=============================================================================
