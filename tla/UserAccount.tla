----------------------------- MODULE UserAccount -----------------------------
(***************************************************************************)
(* The user row and what hangs on it: the sign-in with Google that makes or  *)
(* refreshes it, queues the welcome once and notes the contact              *)
(* (src/apps/web/src/auth/users.ts, email/sign-in.ts), and the name and mail *)
(* preferences of the Settings page and of PATCH /api/v1/me                  *)
(* (profile/settings.ts).  Two sign-ins or two saves may overlap, and the    *)
(* instance may die between any two steps.                                   *)
(*                                                                         *)
(* EmailOutbox has the delivery of the welcome, ContactSync that of the      *)
(* contact.                                                                 *)
(***************************************************************************)
EXTENDS FiniteSets

CONSTANTS
    UaCalls,       \* sign-ins and saves that can overlap
    UaFlags        \* kinds of mail that can be turned off

VARIABLES
    uaUser,        \* users: display_name and welcome_enqueued_at
    uaMail,        \* welcome in the outbox, contact row, recipient refused once
    uaPrefs,       \* kinds that are on in user_notification_preferences
    uaCall,        \* requests in flight
    uaOff          \* history: kinds turned off and not on again, but for those
                   \* turned off between the reading and the writing of a save

uaVars == <<uaUser, uaMail, uaPrefs, uaCall, uaOff>>
-----------------------------------------------------------------------------
\* saw: flags that were on when they were read.  missed: those of them that
\* another save has turned off since.
AccountCall == [pc: {"idle", "welcome", "stamp", "contact", "save"}, created: BOOLEAN,
                on: SUBSET UaFlags, off: SUBSET UaFlags, saw: SUBSET UaFlags,
                missed: SUBSET UaFlags]
NoAccountCall == [pc |-> "idle", created |-> FALSE, on |-> {}, off |-> {}, saw |-> {},
                  missed |-> {}]

AccountTypeOK ==
    /\ uaUser \in [exists: BOOLEAN, name: {"google", "own"}, custom: BOOLEAN,
                   mailable: BOOLEAN, stamped: BOOLEAN]
    /\ uaMail \in [welcome: BOOLEAN, refused: BOOLEAN, contact: BOOLEAN, dropped: BOOLEAN]
    /\ uaPrefs \subseteq UaFlags /\ uaOff \subseteq UaFlags
    /\ uaCall \in [UaCalls -> AccountCall]

AccountInit ==
    /\ uaUser = [exists |-> FALSE, name |-> "google", custom |-> FALSE,
                 mailable |-> FALSE, stamped |-> FALSE]
    /\ uaMail = [welcome |-> FALSE, refused |-> FALSE, contact |-> FALSE, dropped |-> FALSE]
    /\ uaPrefs = UaFlags /\ uaOff = {}
    /\ uaCall = [c \in UaCalls |-> NoAccountCall]

UaAt(c, pc) == uaCall[c].pc = pc
UaEnd(c) == uaCall' = [uaCall EXCEPT ![c] = NoAccountCall]
\* A sign-in goes on to the contact when it made the row.
UaWelcomed(c) ==
    IF uaCall[c].created THEN uaCall' = [uaCall EXCEPT ![c].pc = "contact"] ELSE UaEnd(c)
-----------------------------------------------------------------------------
(* persistGoogleSignIn                                                      *)

\* upsertUserByGoogleSub, one transaction: a custom name is kept, the address is
\* the one Google gives now.
SignIn(c, mailable) ==
    LET created == ~ uaUser.exists
    IN  /\ UaAt(c, "idle")
        /\ uaUser' = [uaUser EXCEPT !.exists = TRUE, !.mailable = mailable,
                        !.name = IF uaUser.custom THEN @ ELSE "google"]
        /\ uaCall' = [uaCall EXCEPT ![c].created = created,
             ![c].pc = IF created \/ ~ uaUser.stamped THEN "welcome" ELSE "idle"]
        /\ UNCHANGED <<uaMail, uaPrefs, uaOff>>

\* enqueueEmailForUser under the welcome key of the user: one row for all of them.
EnqueueWelcome(c) ==
    /\ UaAt(c, "welcome")
    /\ uaMail' = IF uaUser.mailable THEN [uaMail EXCEPT !.welcome = TRUE]
                 ELSE [uaMail EXCEPT !.refused = TRUE]
    /\ uaCall' = [uaCall EXCEPT ![c].pc = "stamp"]
    /\ UNCHANGED <<uaUser, uaPrefs, uaOff>>

\* It throws, which is logged.
WelcomeFails(c) ==
    /\ uaCall[c].pc \in {"welcome", "stamp"}
    /\ UaWelcomed(c)
    /\ UNCHANGED <<uaUser, uaMail, uaPrefs, uaOff>>

\* stampWelcomeEnqueued
StampWelcome(c) ==
    /\ UaAt(c, "stamp")
    /\ uaUser' = [uaUser EXCEPT !.stamped = TRUE]
    /\ UaWelcomed(c)
    /\ UNCHANGED <<uaMail, uaPrefs, uaOff>>

\* recordSignupContactSafe
RecordSignup(c) ==
    /\ UaAt(c, "contact")
    /\ uaMail' = [uaMail EXCEPT !.contact = TRUE]
    /\ UaEnd(c)
    /\ UNCHANGED <<uaUser, uaPrefs, uaOff>>

\* It fails, or the instance dies.
AccountCallDies(c) ==
    /\ ~ UaAt(c, "idle")
    /\ uaMail' = [uaMail EXCEPT !.dropped = @ \/ uaCall[c].created]
    /\ UaEnd(c)
    /\ UNCHANGED <<uaUser, uaPrefs, uaOff>>
-----------------------------------------------------------------------------
(* Settings                                                                 *)

\* saveDisplayName
SaveDisplayName ==
    /\ uaUser.exists
    /\ uaUser' = [uaUser EXCEPT !.name = "own", !.custom = TRUE]
    /\ UNCHANGED <<uaMail, uaPrefs, uaCall, uaOff>>

\* saveEmailNotificationPreferences reads the flags: the page names all of
\* them, the API some ...
LoadPreferences(c, on, off) ==
    /\ UaAt(c, "idle") /\ uaUser.exists
    /\ on \cap off = {} /\ on \cup off # {}
    /\ uaCall' = [uaCall EXCEPT ![c] =
         [NoAccountCall EXCEPT !.pc = "save", !.on = on, !.off = off, !.saw = uaPrefs]]
    /\ UNCHANGED <<uaUser, uaMail, uaPrefs, uaOff>>

\* The flags that are written: those that were not named as they were read.
PreferencesOf_DefaultOn(q) == UaFlags \ q.off
PreferencesOf(q) == (q.saw \cup q.on) \ q.off

\* ... and writes the whole row.
SavePreferences(c) ==
    LET q == uaCall[c]
    IN  /\ UaAt(c, "save")
        /\ uaPrefs' = PreferencesOf(q)
        /\ uaOff' = q.off \cup (uaOff \ (q.on \cup q.missed))
        /\ uaCall' = [d \in UaCalls |->
             IF d = c THEN NoAccountCall
             ELSE [uaCall[d] EXCEPT !.missed = @ \cup (q.off \cap uaCall[d].saw)]]
        /\ UNCHANGED <<uaUser, uaMail>>
-----------------------------------------------------------------------------
AccountNext ==
    \/ \E c \in UaCalls :
         \/ \E mailable \in BOOLEAN : SignIn(c, mailable)
         \/ EnqueueWelcome(c) \/ WelcomeFails(c) \/ StampWelcome(c) \/ RecordSignup(c)
         \/ \E on, off \in SUBSET UaFlags : LoadPreferences(c, on, off)
         \/ SavePreferences(c) \/ AccountCallDies(c)
    \/ SaveDisplayName

AccountSpec == AccountInit /\ [][AccountNext]_uaVars
-----------------------------------------------------------------------------
\* Mail that a user turned off stays off until the user turns it on: a save that
\* names other kinds brings it back only if it had read the row before it was
\* turned off, and writes the row whole after (settings.ts:174).
OptOutKept == uaOff \cap uaPrefs = {}

\* "PATCH updates only the flags you send" (docs/api.md:162).  It is not so for two
\* saves that overlap.
OnlyFlagsSent ==
    [][\A c \in UaCalls : SavePreferences(c) =>
         (uaPrefs' \ uaPrefs) \cup (uaPrefs \ uaPrefs') \subseteq uaCall[c].on \cup uaCall[c].off
      ]_uaVars

\* A sign-in does not take back the name that the user chose, and an account is
\* stamped as welcomed only when the welcome is in the outbox or its address was
\* refused, wherever the earlier sign-ins died.
OwnNameKept == uaUser.custom => uaUser.name = "own"
WelcomeQueued == uaUser.stamped => uaMail.welcome \/ uaMail.refused

\* The contact of a new user is noted by the sign-in that made the row or never:
\* a later sign-in finds the row (sign-in.ts:93).
ContactNoted ==
    uaUser.exists =>
      \/ uaMail.contact \/ uaMail.dropped
      \/ \E c \in UaCalls : uaCall[c].created

AccountKept == OptOutKept /\ OwnNameKept /\ WelcomeQueued /\ ContactNoted
=============================================================================
