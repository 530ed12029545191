---------------------------- MODULE EmailOutbox ----------------------------
(***************************************************************************)
(* The Watch Agent's email outbox: a table of accounts.db that the watch   *)
(* scan and the CVE check fill and that a job drains every ten minutes.    *)
(* The drain reads a batch of due rows once, then sends and marks one row  *)
(* after another.  A send may be answered, refused, or delivered with the  *)
(* answer lost; between a delivery and its mark the process may die or     *)
(* accounts.db may refuse the mark.                                        *)
(*                                                                         *)
(* The batch is any set of due rows that fills the limit: list_due_emails  *)
(* takes the rows longest due, which only matters beyond the limit.        *)
(***************************************************************************)
EXTENDS Naturals, Sequences, FiniteSets

CONSTANTS
  Members,      \* the addresses of the organisation's members, in order
  News,         \* what an alert may be about
  MaxAttempts,  \* list_due_emails: attempts < 8
  Batch,        \* process_email_outbox: limit = 20
  MaxEmails,    \* bound: rows after which no job begins
  MaxCrashes,   \* bound: how often the process is killed
  MaxFaults     \* bound: how often a mark is refused

ASSUME MembersAssumption == Members \in Seq(STRING)
ASSUME LimitsAssumption ==
  /\ MaxAttempts \in Nat \ {0} /\ Batch \in Nat \ {0}
  /\ MaxEmails \in Nat /\ MaxCrashes \in Nat /\ MaxFaults \in Nat

VARIABLES
  outbox,   \* email_outbox; delivered is history: how often Resend took the email
  batch,    \* the rows the running drain has read and not yet handled
  enabled,  \* organizations.watch_emails_enabled
  up,       \* the process, with its scheduler, runs
  crashes,
  faults    \* history: how often a drain ended because a mark was refused

process == <<enabled, up, crashes, faults>>

outboxVars == <<outbox, batch, process>>

Email == [to: STRING, news: SUBSET News, status: {"pending", "retry", "sent"},
          attempts: Nat, due: BOOLEAN, delivered: Nat]

Emails == DOMAIN outbox

OutboxInit ==
  /\ outbox = <<>>
  /\ batch = {}
  /\ enabled = TRUE
  /\ up = TRUE
  /\ crashes = 0
  /\ faults = 0

-----------------------------------------------------------------------------

NewEmail(m, news) == [to |-> m, news |-> news, status |-> "pending",
                      attempts |-> 0, due |-> TRUE, delivered |-> 0]

\* queue_watch_alert, cut short after k members; nothing when emails are off.
Recipients == IF enabled THEN Len(Members) ELSE 0

Queued(news, k) == outbox \o [i \in 1..k |-> NewEmail(Members[i], news)]

RoomForAlert == Len(outbox) + Len(Members) <= MaxEmails

QueueAlert ==
  /\ up
  /\ \E news \in SUBSET News, k \in 0..Recipients : outbox' = Queued(news, k)
  /\ UNCHANGED <<batch, process>>

SetWatchEmails ==
  /\ up
  /\ enabled' = ~enabled
  /\ UNCHANGED <<outbox, batch, up, crashes, faults>>

\* Mutant: the status of the row is not looked at.
DueEmails_AnyStatus ==
  {e \in Emails : outbox[e].due /\ outbox[e].attempts < MaxAttempts}

\* Mutant: only rows that were never tried are listed.
DueEmails_OneTry ==
  {e \in Emails : /\ outbox[e].due /\ outbox[e].status = "pending"
                  /\ outbox[e].attempts < MaxAttempts}

DueEmails ==
  {e \in Emails : /\ outbox[e].due /\ outbox[e].status # "sent"
                  /\ outbox[e].attempts < MaxAttempts}

\* The scheduler runs one drain at a time.
StartDrain ==
  /\ up /\ batch = {}
  /\ \E b \in SUBSET DueEmails :
       /\ b # {}
       /\ Cardinality(b) <= Batch
       /\ b = DueEmails \/ Cardinality(b) = Batch
       /\ batch' = b
  /\ UNCHANGED <<outbox, process>>

\* "ok"; "refused": an HTTP error or no API key; "lost": Resend took the
\* email, its answer did not arrive.
Answers == {"ok", "refused", "lost"}

Took(answer) == IF answer = "refused" THEN 0 ELSE 1

\* The row as it is marked after the answer.
Answered(row, answer) ==
  IF answer = "ok"
  THEN [row EXCEPT !.status = "sent", !.delivered = @ + Took(answer)]
  ELSE [row EXCEPT !.status = "retry", !.attempts = @ + 1, !.due = FALSE,
                   !.delivered = @ + Took(answer)]

SendEmail(e, answer) ==
  /\ up /\ e \in batch
  /\ batch' = batch \ {e}
  /\ outbox' = [outbox EXCEPT ![e] = Answered(@, answer)]
  /\ UNCHANGED process

\* mark_email_sent or mark_email_retry raises: the row stays as it was, due and
\* with its attempts, and the rest of the batch waits for the next drain.
MarkFails(e, answer) ==
  /\ up /\ e \in batch
  /\ faults < MaxFaults /\ faults' = faults + 1
  /\ batch' = {}
  /\ outbox' = [outbox EXCEPT ![e].delivered = @ + Took(answer)]
  /\ UNCHANGED <<enabled, up, crashes>>

\* next_attempt_at of a retry comes.
BecomesDue(e) ==
  /\ e \in Emails /\ ~outbox[e].due
  /\ outbox' = [outbox EXCEPT ![e].due = TRUE]
  /\ UNCHANGED <<batch, process>>

\* Killed; Resend may have taken one of the batch just before.
Killed ==
  /\ up /\ crashes < MaxCrashes
  /\ crashes' = crashes + 1
  /\ up' = FALSE /\ batch' = {}
  /\ UNCHANGED <<enabled, faults>>

CrashInDrain ==
  /\ Killed
  /\ \/ UNCHANGED outbox
     \/ \E e \in batch : outbox' = [outbox EXCEPT ![e].delivered = @ + 1]

CrashInQueueing ==
  /\ Killed
  /\ \E news \in SUBSET News, k \in 0..Recipients : outbox' = Queued(news, k)

Restart ==
  /\ ~up
  /\ up' = TRUE
  /\ UNCHANGED <<outbox, batch, enabled, crashes, faults>>

SendNext == \E e \in batch, answer \in Answers : SendEmail(e, answer)

OutboxStep ==
  \/ SetWatchEmails
  \/ StartDrain
  \/ SendNext
  \/ \E e \in batch, answer \in Answers : MarkFails(e, answer)
  \/ \E e \in Emails : BecomesDue(e)

OutboxNext ==
  \/ OutboxStep \/ QueueAlert
  \/ CrashInDrain \/ CrashInQueueing \/ Restart

\* The outbox by itself: what its users, the two jobs, may do with it.
OutboxSpec == OutboxInit /\ [][OutboxNext]_outboxVars

-----------------------------------------------------------------------------

\* A member receives an alert at most once per attempt the outbox counts,
\* whether answers are lost or not, and once more for each time the process
\* died or a mark was refused in between: never more often than the limit, the
\* crashes and the refused marks allow.
DeliveriesBounded ==
  \A e \in Emails : /\ outbox[e].attempts <= MaxAttempts
                    /\ outbox[e].delivered <= MaxAttempts + crashes + faults

Settled(e) == outbox[e].status = "sent" \/ outbox[e].attempts = MaxAttempts

\* Every queued email is sent or uses up its attempts, as long as the process
\* does not die and the marks are not refused for ever: no row is starved by the
\* limit or forgotten by a drain that was cut short.
EmailSettles == \A n \in 1..MaxEmails : n \in Emails ~> (n \in Emails /\ Settled(n))
=============================================================================
