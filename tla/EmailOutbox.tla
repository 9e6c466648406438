---------------------------- MODULE EmailOutbox ----------------------------
(***************************************************************************)
(* The transactional mails of one bounty (src/apps/web/src/email): a domain *)
(* event puts one row per idempotency key into email_outbox and then        *)
(* delivers the rows of that user.  There is no job that drains the table:  *)
(* every delivery is part of some event, several run at the same time, any  *)
(* may die, and a row held for longer than the lease is taken over.         *)
(*                                                                         *)
(* A mailer is one call of deliverOutbox with a worker id of its own.  The  *)
(* provider is external: while it remembers an idempotency key it accepts a *)
(* repeated mail without sending it.                                       *)
(***************************************************************************)
EXTENDS Integers, FiniteSets

CONSTANTS
    Mails,          \* the events of the bounty that are mailed, see MailNames
    Mailers,        \* deliveries that can run at the same time
    NoMail,         \* stands for no row and for no worker
    MaxAttempts,    \* EMAIL_MAX_ATTEMPTS
    MaxReclaims     \* bound: leases that run out, for one mail

MailNames == {"bounty_funded", "pr_merged", "bounty_settled", "pool_claimable"}

ASSUME MailAssumption ==
    /\ Mails \subseteq MailNames
    /\ NoMail \notin MailNames \cup Mailers
    /\ MaxAttempts \in Nat \ {0} /\ MaxReclaims \in Nat

VARIABLES
    mailStage,    \* how far the bounty has come
    mailWanted,   \* users whose address is good and preference is on
    mailRow,      \* email_outbox, by idempotency key
    mailer,       \* deliveries in flight
    mailSent,     \* the provider: mails that went out, by key
    mailKnown,    \* the provider: keys it remembers
    mailLost      \* history: claims and answers lost, by key

mailVars == <<mailStage, mailWanted, mailRow, mailer, mailSent, mailKnown, mailLost>>
-----------------------------------------------------------------------------
MailUsers == {"poster", "hunter", "member"}
MailUser(m) == CASE m = "bounty_funded"  -> "poster"
                 [] m = "pool_claimable" -> "member"
                 [] OTHER                -> "hunter"

Stages == {"draft", "funded", "eligible", "paid", "shared"}
NextStage(s) == CASE s = "draft"    -> "funded"
                  [] s = "funded"   -> "eligible"
                  [] s = "eligible" -> "paid"
                  [] OTHER          -> "shared"

\* The conditions of notifyBountyFunded, notifyPullRequestWon,
\* notifyWinnerSettled and notifyPoolSharesIfClaimable.
MailDue(m, stage) ==
    CASE m = "bounty_funded"  -> stage # "draft"
      [] m = "pr_merged"      -> stage = "eligible"
      [] m = "bounty_settled" -> stage \in {"paid", "shared"}
      [] m = "pool_claimable" -> stage = "paid"

MailRow == [st: {"none", "pending", "sending", "sent", "failed"},
            tries: Nat,                         \* attempt_count
            by: Mailers \cup {NoMail},          \* claimed_by, a live worker
            stale: BOOLEAN]                     \* claimed_at is past the lease
NoRowYet == [st |-> "none", tries |-> 0, by |-> NoMail, stale |-> FALSE]

MailerRecord == [pc: {"idle", "claim", "rows", "send", "mark"},
                 user: MailUsers,
                 todo: SUBSET Mails,
                 row: Mails \cup {NoMail},
                 answer: {"ok", "error", "missing_secret"}]
MailerIdle == [pc |-> "idle", user |-> "hunter", todo |-> {}, row |-> NoMail,
               answer |-> "ok"]

MailTypeOK ==
    /\ mailStage \in Stages
    /\ mailWanted \subseteq MailUsers
    /\ mailRow \in [Mails -> MailRow]
    /\ mailer \in [Mailers -> MailerRecord]
    /\ mailSent \in [Mails -> Nat]
    /\ mailKnown \subseteq Mails
    /\ mailLost \in [Mails -> Nat]

MailInit ==
    /\ mailStage = "draft"
    /\ mailWanted = MailUsers
    /\ mailRow = [m \in Mails |-> NoRowYet]
    /\ mailer = [w \in Mailers |-> MailerIdle]
    /\ mailSent = [m \in Mails |-> 0]
    /\ mailKnown = {}
    /\ mailLost = [m \in Mails |-> 0]
-----------------------------------------------------------------------------
(* enqueueAndDeliver                                                        *)

\* enqueueEmailForUser: an event that comes twice adds no second row.
Notify(w, m) ==
    /\ mailer[w].pc = "idle"
    /\ MailDue(m, mailStage)
    /\ MailUser(m) \in mailWanted
    /\ mailRow' = IF mailRow[m].st = "none"
                  THEN [mailRow EXCEPT ![m].st = "pending"] ELSE mailRow
    /\ mailer' = [mailer EXCEPT ![w] = [MailerIdle EXCEPT !.pc = "claim",
                                                          !.user = MailUser(m)]]
    /\ UNCHANGED <<mailStage, mailWanted, mailSent, mailKnown, mailLost>>

\* claimEmailOutbox, one statement: the user's pending rows and those whose
\* lease has run out, however often they have been tried.
RowClaimable(row) == row.st = "pending" \/ (row.st = "sending" /\ row.stale)

ClaimEmailOutbox(w) ==
    LET picked == {m \in Mails : RowClaimable(mailRow[m]) /\ MailUser(m) = mailer[w].user}
        taken  == {m \in picked : mailRow[m].st = "sending"}
    IN  /\ mailer[w].pc = "claim"
        /\ \A m \in taken : mailLost[m] < MaxReclaims
        /\ mailRow' = [m \in Mails |->
             IF m \in picked
             THEN [st |-> "sending", tries |-> mailRow[m].tries + 1, by |-> w,
                   stale |-> FALSE]
             ELSE mailRow[m]]
        /\ mailer' = [mailer EXCEPT ![w] =
             IF picked = {} THEN MailerIdle
             ELSE [mailer[w] EXCEPT !.pc = "rows", !.todo = picked]]
        /\ mailLost' = [m \in Mails |->
             IF m \in taken /\ mailRow[m].stale THEN mailLost[m] + 1 ELSE mailLost[m]]
        /\ UNCHANGED <<mailStage, mailWanted, mailSent, mailKnown>>

\* Every update of a row names the worker that claimed it.
Owns_ById(w, m) == mailRow[m].st # "none"
Owns(w, m) == mailRow[m].st = "sending" /\ mailRow[m].by = w

UpdateRow(w, m, st, tries) ==
    mailRow' = IF Owns(w, m)
               THEN [mailRow EXCEPT ![m] = [st |-> st, tries |-> tries, by |-> NoMail,
                                            stale |-> FALSE]]
               ELSE mailRow

\* The next row of the batch, or the end of it.
NextRow(w, m) ==
    mailer' = [mailer EXCEPT ![w] =
        IF mailer[w].todo = {m} THEN MailerIdle
        ELSE [mailer[w] EXCEPT !.pc = "rows", !.todo = @ \ {m}, !.row = NoMail,
                               !.answer = "ok"]]

\* The address and the preference are read again: markEmailTerminal.
CheckRefused(w, m) ==
    /\ mailer[w].pc = "rows" /\ m \in mailer[w].todo
    /\ mailer[w].user \notin mailWanted
    /\ UpdateRow(w, m, "failed", mailRow[m].tries)
    /\ NextRow(w, m)
    /\ UNCHANGED <<mailStage, mailWanted, mailSent, mailKnown, mailLost>>

CheckPassed(w, m) ==
    /\ mailer[w].pc = "rows" /\ m \in mailer[w].todo
    /\ mailer[w].user \in mailWanted
    /\ mailer' = [mailer EXCEPT ![w].pc = "send", ![w].row = m]
    /\ UNCHANGED <<mailStage, mailWanted, mailRow, mailSent, mailKnown, mailLost>>

\* The provider takes the mail; its answer arrives or is lost on the way.
Accept(m) ==
    /\ mailSent' = IF m \in mailKnown THEN mailSent
                   ELSE [mailSent EXCEPT ![m] = @ + 1]
    /\ mailKnown' = mailKnown \cup {m}

Answered(w, answer) ==
    mailer' = [mailer EXCEPT ![w].pc = "mark", ![w].answer = answer]

SendAccepted(w) ==
    /\ mailer[w].pc = "send"
    /\ Accept(mailer[w].row)
    /\ Answered(w, "ok")
    /\ UNCHANGED <<mailStage, mailWanted, mailRow, mailLost>>

SendUnanswered(w) ==
    /\ mailer[w].pc = "send"
    /\ mailLost[mailer[w].row] < MaxReclaims
    /\ Accept(mailer[w].row)
    /\ Answered(w, "error")
    /\ mailLost' = [mailLost EXCEPT ![mailer[w].row] = @ + 1]
    /\ UNCHANGED <<mailStage, mailWanted, mailRow>>

\* The provider refuses it, or the secret is gone by now.
SendRefused(w, answer) ==
    /\ mailer[w].pc = "send"
    /\ answer \in {"error", "missing_secret"}
    /\ Answered(w, answer)
    /\ UNCHANGED <<mailStage, mailWanted, mailRow, mailSent, mailKnown, mailLost>>

\* markEmailSent, releaseClaim or markEmailAttemptFailed.
MarkRow(w) ==
    LET m == mailer[w].row
        tries == mailRow[m].tries
    IN  /\ mailer[w].pc = "mark"
        /\ CASE mailer[w].answer = "ok" -> UpdateRow(w, m, "sent", tries)
             [] mailer[w].answer = "missing_secret" ->
                  UpdateRow(w, m, "pending", IF tries > 0 THEN tries - 1 ELSE 0)
             [] mailer[w].answer = "error" ->
                  UpdateRow(w, m, IF tries >= MaxAttempts THEN "failed" ELSE "pending", tries)
        /\ NextRow(w, m)
        /\ UNCHANGED <<mailStage, mailWanted, mailSent, mailKnown, mailLost>>

\* markEmailSent throws and the catch counts a failed attempt.
MarkThrows(w) ==
    /\ mailer[w].pc = "mark" /\ mailer[w].answer = "ok"
    /\ mailLost[mailer[w].row] < MaxReclaims
    /\ mailer' = [mailer EXCEPT ![w].answer = "error"]
    /\ mailLost' = [mailLost EXCEPT ![mailer[w].row] = @ + 1]
    /\ UNCHANGED <<mailStage, mailWanted, mailRow, mailSent, mailKnown>>
-----------------------------------------------------------------------------
(* What the environment does                                                *)

BountyAdvances ==
    /\ mailStage # "shared"
    /\ mailStage' = NextStage(mailStage)
    /\ UNCHANGED <<mailWanted, mailRow, mailer, mailSent, mailKnown, mailLost>>

\* The hunter switches the mails off.  Bound: when the preference is about to
\* be read again.
OptOut ==
    /\ \E w \in Mailers : mailer[w].pc = "rows"
    /\ mailWanted' = mailWanted \ {"hunter"}
    /\ mailWanted' # mailWanted
    /\ UNCHANGED <<mailStage, mailRow, mailer, mailSent, mailKnown, mailLost>>

\* The process dies; its worker id never comes back.
MailerDies(w) ==
    /\ mailer[w].pc # "idle"
    /\ mailer' = [mailer EXCEPT ![w] = MailerIdle]
    /\ mailRow' = [m \in Mails |->
         IF mailRow[m].by = w THEN [mailRow[m] EXCEPT !.by = NoMail] ELSE mailRow[m]]
    /\ UNCHANGED <<mailStage, mailWanted, mailSent, mailKnown, mailLost>>

\* EMAIL_CLAIM_LEASE_SECONDS pass, whether or not the worker still runs.
\* Bound: when somebody is about to claim, nothing else looks at the lease.
LeaseRunsOut(m) ==
    /\ \E w \in Mailers : mailer[w].pc = "claim"
    /\ mailRow[m].st = "sending" /\ ~ mailRow[m].stale
    /\ mailRow' = [mailRow EXCEPT ![m].stale = TRUE]
    /\ UNCHANGED <<mailStage, mailWanted, mailer, mailSent, mailKnown, mailLost>>

\* Bound: when the mail is about to be sent once more.
ProviderForgets(m) ==
    /\ m \in mailKnown
    /\ \E w \in Mailers : mailer[w].pc = "send" /\ mailer[w].row = m
    /\ mailKnown' = mailKnown \ {m}
    /\ UNCHANGED <<mailStage, mailWanted, mailRow, mailer, mailSent, mailLost>>
-----------------------------------------------------------------------------
MailerStep(w) ==
    \/ \E m \in Mails : Notify(w, m) \/ CheckRefused(w, m) \/ CheckPassed(w, m)
    \/ ClaimEmailOutbox(w) \/ SendAccepted(w) \/ SendUnanswered(w)
    \/ \E answer \in {"error", "missing_secret"} : SendRefused(w, answer)
    \/ MarkRow(w) \/ MarkThrows(w) \/ MailerDies(w)

MailNext ==
    \/ \E w \in Mailers : MailerStep(w)
    \/ BountyAdvances \/ OptOut
    \/ \E m \in Mails : LeaseRunsOut(m) \/ ProviderForgets(m)

MailSpec == MailInit /\ [][MailNext]_mailVars
-----------------------------------------------------------------------------
(* Properties                                                               *)

\* A mail goes out again only after a lease ran out, an answer was lost or
\* the write of "sent" failed (deliverOutbox): workers that run side by side,
\* events that repeat and a provider that forgets its keys do not double it.
MailedOncePerLoss == \A m \in Mails : mailSent[m] <= 1 + mailLost[m]

\* Once a row is "sent" or "failed" no worker that lost its lease reopens it
\* (the claimed_by conditions of outbox.ts).
MailFinal ==
    [][\A m \in Mails : mailRow[m].st \in {"sent", "failed"}
                          => mailRow'[m].st = mailRow[m].st]_mailVars

\* Both: what is sent twice was lost, and what is final stays so.
MailOnce ==
    /\ []MailedOncePerLoss
    /\ MailFinal
=============================================================================
