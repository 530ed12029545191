------------------------- MODULE WatchAgent_proofs --------------------------
(***************************************************************************)
(* The Watch Agent for any members, findings, products, CVEs and limits,   *)
(* and any number of crashes and refused marks.                            *)
(*                                                                         *)
(* EmailOutbox is the abstract specification of what the jobs share: every *)
(* step of the agent is one of its steps or leaves its variables alone, so *)
(* what is proved of the outbox holds of the agent.  The three properties  *)
(* about alerts need the agent's own invariants: what is recorded is on    *)
(* its way, mailed or lost (Recorded), what is mailed is recorded and no   *)
(* longer on its way (MailedOnce), and the answers of a check at work have *)
(* been taken into account (Asked).  Of the CVE check, the comparison of a *)
(* version with a range is shown to be that of the numbers.                *)
(***************************************************************************)
EXTENDS MCWatchAgent, SequenceTheorems, TLAPS

USE MembersAssumption, LimitsAssumption, IssuesAssumption, TopAssumption, CvesAssumption
  DEF MembersAssumption, LimitsAssumption, IssuesAssumption, TopAssumption, CvesAssumption,
      process, window

-----------------------------------------------------------------------------
(* The outbox.                                                             *)

Cuts == crashes + faults

\* A row has been delivered once per attempt that failed, once per crash or
\* refused mark, and once when it was sent; attempts end below the limit.
RowSound(mail) ==
  /\ mail.attempts <= MaxAttempts
  /\ mail.status = "sent" => mail.attempts < MaxAttempts
  /\ mail.delivered <= mail.attempts + Cuts + (IF mail.status = "sent" THEN 1 ELSE 0)

OutboxTyped ==
  /\ outbox \in Seq(Email)
  /\ batch \subseteq Emails
  /\ enabled \in BOOLEAN /\ up \in BOOLEAN
  /\ crashes \in 0..MaxCrashes /\ faults \in 0..MaxFaults

\* Crashes and refused marks stay within their bounds and are not forgotten.
CutsGrow ==
  /\ crashes' \in 0..MaxCrashes /\ crashes <= crashes'
  /\ faults' \in 0..MaxFaults /\ faults <= faults'

OutboxInv ==
  /\ OutboxTyped
  /\ \A e \in Emails : RowSound(outbox[e])
  /\ \A e \in batch : outbox[e].status # "sent" /\ outbox[e].attempts < MaxAttempts

\* queue_watch_alert only adds rows at the end, one per member.
LEMMA QueuedFacts ==
  ASSUME outbox \in Seq(Email), NEW news \in SUBSET News, NEW k \in 0..Len(Members)
  PROVE  /\ Queued(news, k) \in Seq(Email)
         /\ DOMAIN Queued(news, k) = 1..(Len(outbox) + k)
         /\ Emails = 1..Len(outbox)
         /\ \A e \in Emails : Queued(news, k)[e] = outbox[e]
         /\ \A e \in 1..(Len(outbox) + k) : e \notin Emails =>
              /\ e - Len(outbox) \in 1..k
              /\ Queued(news, k)[e] = NewEmail(Members[e - Len(outbox)], news)
<1> DEFINE new == [i \in 1..k |-> NewEmail(Members[i], news)]
<1>1. k \in Nat /\ Len(Members) \in Nat /\ Len(outbox) \in Nat /\ Emails = 1..Len(outbox)
  BY LenProperties DEF Emails
<1>2. \A i \in 1..k : Members[i] \in STRING
  BY <1>1, ElementOfSeq
<1>3. \A i \in 1..k : NewEmail(Members[i], news) \in Email
  BY <1>2 DEF NewEmail, Email
<1>4. new \in Seq(Email) /\ Len(new) = k
  BY <1>1, <1>3
<1>5. Queued(news, k) = outbox \o new
  BY DEF Queued
<1>6. \A i \in 1..k : new[i] = NewEmail(Members[i], news)
  OBVIOUS
<1> HIDE DEF new
<1>7. /\ outbox \o new \in Seq(Email)
      /\ Len(outbox \o new) = Len(outbox) + Len(new)
      /\ \A i \in 1..(Len(outbox) + Len(new)) :
           (outbox \o new)[i] = IF i <= Len(outbox) THEN outbox[i] ELSE new[i - Len(outbox)]
  BY <1>4, ConcatProperties
<1>8. DOMAIN (outbox \o new) = 1..(Len(outbox) + k)
  BY <1>4, <1>7, LenProperties
<1>9. ASSUME NEW e \in 1..(Len(outbox) + k), e \notin Emails
      PROVE  /\ e - Len(outbox) \in 1..k
             /\ (outbox \o new)[e] = new[e - Len(outbox)]
  BY <1>1, <1>4, <1>7, <1>9
<1>10. ASSUME NEW e \in Emails PROVE (outbox \o new)[e] = outbox[e]
  BY <1>1, <1>4, <1>7
<1> QED BY <1>1, <1>5, <1>6, <1>7, <1>8, <1>9, <1>10

LEMMA NewEmailFacts ==
  ASSUME Cuts \in Nat, NEW m, NEW news
  PROVE  RowSound(NewEmail(m, news))
BY DEF RowSound, NewEmail

LEMMA Sums ==
  ASSUME NEW a \in Nat, NEW b \in Nat, NEW c \in Nat, NEW d \in Nat, a <= c, b <= d
  PROVE  a + b \in Nat /\ c + d \in Nat /\ a + b <= c + d
OBVIOUS

LEMMA NextSum ==
  ASSUME NEW a \in Nat, NEW b \in Nat
  PROVE  (a + 1) + b = (a + b) + 1 /\ a + (b + 1) = (a + b) + 1
OBVIOUS

LEMMA OneMore ==
  ASSUME NEW d \in Nat, NEW a \in Nat, NEW c \in Nat, NEW t \in {0, 1}, d <= a + c + 0
  PROVE  d + t <= a + (c + 1) + 0
OBVIOUS

LEMMA Below ==
  ASSUME NEW a \in Nat, NEW m \in Nat, a < m
  PROVE  a + 1 \in 0..m /\ a <= a + 1
OBVIOUS

LEMMA CutsFacts ==
  ASSUME OutboxTyped, CutsGrow
  PROVE  Cuts \in Nat /\ Cuts' \in Nat /\ Cuts <= Cuts'
<1>1. /\ crashes \in Nat /\ crashes' \in Nat /\ crashes <= crashes'
      /\ faults \in Nat /\ faults' \in Nat /\ faults <= faults'
  BY DEF OutboxTyped, CutsGrow
<1> QED BY <1>1, Sums DEF Cuts

\* Rows are added.
LEMMA RowKept ==
  ASSUME NEW mail \in Email, RowSound(mail), Cuts \in Nat, Cuts' \in Nat, Cuts <= Cuts'
  PROVE  RowSound(mail)'
<1>1. mail.attempts \in Nat /\ mail.delivered \in Nat
  BY DEF Email
<1> QED BY <1>1 DEF RowSound

LEMMA QueueKeeps ==
  ASSUME OutboxInv, NEW news \in SUBSET News, NEW k \in 0..Recipients,
         outbox' = Queued(news, k), batch' \subseteq batch,
         enabled' = enabled, up' \in BOOLEAN, CutsGrow
  PROVE  OutboxInv'
<1>1. k \in 0..Len(Members)
  BY LenProperties DEF Recipients
<1>2. outbox \in Seq(Email)
  BY DEF OutboxInv, OutboxTyped
<1>3. /\ Queued(news, k) \in Seq(Email)
      /\ DOMAIN Queued(news, k) = 1..(Len(outbox) + k)
      /\ Emails = 1..Len(outbox)
      /\ \A e \in Emails : Queued(news, k)[e] = outbox[e]
      /\ \A e \in 1..(Len(outbox) + k) : e \notin Emails =>
           /\ e - Len(outbox) \in 1..k
           /\ Queued(news, k)[e] = NewEmail(Members[e - Len(outbox)], news)
  BY <1>1, <1>2, QueuedFacts
<1>4. /\ outbox' \in Seq(Email) /\ DOMAIN outbox' = 1..(Len(outbox) + k)
      /\ \A e \in Emails : outbox'[e] = outbox[e]
      /\ \A e \in 1..(Len(outbox) + k) : e \notin Emails =>
           outbox'[e] = NewEmail(Members[e - Len(outbox)], news)
  BY <1>3
<1>5. Cuts \in Nat /\ Cuts' \in Nat /\ Cuts <= Cuts' /\ Len(outbox) \in Nat
  BY LenProperties, CutsFacts DEF OutboxInv, OutboxTyped
<1>6. Emails' = 1..(Len(outbox) + k) /\ Emails \subseteq Emails'
  BY <1>1, <1>3, <1>4, <1>5 DEF Emails
<1>7. ASSUME NEW e \in Emails' PROVE RowSound(outbox[e])'
  <2>1. CASE e \in Emails
    <3>1. outbox[e] \in Email /\ RowSound(outbox[e])
      BY <1>2, <1>3, <2>1, ElementOfSeq DEF OutboxInv
    <3> QED BY <1>4, <1>5, <2>1, <3>1, RowKept
  <2>2. CASE e \notin Emails
    BY <1>4, <1>5, <1>6, <2>2 DEF RowSound, NewEmail
  <2> QED BY <2>1, <2>2
<1> QED BY <1>4, <1>5, <1>6, <1>7 DEF OutboxInv, OutboxTyped, CutsGrow

\* One row is changed.
LEMMA RowKeeps ==
  ASSUME OutboxInv, NEW e \in Emails, NEW mail \in Email,
         outbox' = [outbox EXCEPT ![e] = mail],
         batch' \subseteq batch,
         e \in batch' => mail.status # "sent" /\ mail.attempts < MaxAttempts,
         enabled' \in BOOLEAN, up' \in BOOLEAN,
         CutsGrow, RowSound(mail)'
  PROVE  OutboxInv'
<1>1. Emails = 1..Len(outbox) /\ Len(outbox) \in Nat
  BY LenProperties DEF Emails, OutboxInv, OutboxTyped
<1>2. /\ outbox' \in Seq(Email) /\ Len(outbox') = Len(outbox)
      /\ \A d \in Emails : outbox'[d] = IF d = e THEN mail ELSE outbox[d]
  BY <1>1, ExceptSeq DEF OutboxInv, OutboxTyped
<1>3. Emails' = Emails
  BY <1>1, <1>2, LenProperties DEF Emails
<1>4. Cuts \in Nat /\ Cuts' \in Nat /\ Cuts <= Cuts'
  BY CutsFacts DEF OutboxInv
<1>5. ASSUME NEW d \in Emails' PROVE RowSound(outbox[d])'
  <2>1. CASE d = e
    BY <1>2, <1>3, <2>1
  <2>2. CASE d # e
    <3>1. outbox[d] \in Email /\ RowSound(outbox[d]) /\ outbox'[d] = outbox[d]
      BY <1>1, <1>2, <1>3, <2>2, ElementOfSeq DEF OutboxInv, OutboxTyped
    <3> QED BY <1>4, <3>1, RowKept
  <2> QED BY <2>1, <2>2
<1> QED BY <1>2, <1>3, <1>5 DEF OutboxInv, OutboxTyped, CutsGrow

\* No row is changed.
LEMMA RowsStay ==
  ASSUME OutboxInv, outbox' = outbox, batch' \subseteq Emails,
         \A e \in batch' : outbox[e].status # "sent" /\ outbox[e].attempts < MaxAttempts,
         enabled' \in BOOLEAN, up' \in BOOLEAN, CutsGrow
  PROVE  OutboxInv'
<1>1. Emails' = Emails /\ Emails = 1..Len(outbox)
  BY LenProperties DEF Emails, OutboxInv, OutboxTyped
<1>2. Cuts \in Nat /\ Cuts' \in Nat /\ Cuts <= Cuts'
  BY CutsFacts DEF OutboxInv
<1>3. ASSUME NEW e \in Emails PROVE RowSound(outbox[e])'
  <2>1. outbox[e] \in Email /\ RowSound(outbox[e])
    BY <1>1, ElementOfSeq DEF OutboxInv, OutboxTyped
  <2> QED BY <1>2, <2>1, RowKept
<1> QED BY <1>1, <1>3 DEF OutboxInv, OutboxTyped, CutsGrow

LEMMA SendKeeps ==
  ASSUME OutboxInv, NEW e \in batch, NEW answer \in Answers, SendEmail(e, answer)
  PROVE  OutboxInv'
<1>0. PICK mail : mail = Answered(outbox[e], answer)
  OBVIOUS
<1>1. e \in Emails /\ outbox[e].status # "sent" /\ outbox[e].attempts < MaxAttempts
  BY DEF OutboxInv, OutboxTyped
<1>2. outbox[e] \in Email /\ RowSound(outbox[e])
  BY <1>1, ElementOfSeq, LenProperties DEF OutboxInv, OutboxTyped, Emails
<1>3. enabled \in BOOLEAN /\ up \in BOOLEAN
  BY DEF OutboxInv, OutboxTyped
<1>4. /\ outbox' = [outbox EXCEPT ![e] = mail] /\ batch' = batch \ {e}
      /\ UNCHANGED <<enabled, up, crashes, faults>>
  BY <1>0 DEF SendEmail
<1>7. Cuts \in Nat /\ Cuts' = Cuts /\ CutsGrow
  BY <1>4 DEF OutboxInv, OutboxTyped, CutsGrow, Cuts
<1>5. CASE answer = "ok"
  <2>1. mail = [outbox[e] EXCEPT !.status = "sent", !.delivered = @ + 1]
    BY <1>0, <1>5 DEF Answered, Took
  <2>2. /\ mail \in Email /\ mail.status = "sent" /\ mail.attempts = outbox[e].attempts
        /\ mail.delivered = outbox[e].delivered + 1
    <3>1. outbox[e].delivered + 1 \in Nat
      BY <1>2 DEF Email
    <3>2. mail \in Email
      BY <1>2, <2>1, <3>1 DEF Email
    <3> QED BY <1>2, <2>1, <3>2 DEF Email
  <2>3. RowSound(mail)'
    BY <1>1, <1>2, <1>7, <2>2 DEF RowSound, Email
  <2> QED BY <1>1, <1>3, <1>4, <1>7, <2>2, <2>3, RowKeeps
<1>6. CASE answer # "ok"
  <2>1. PICK took \in {0, 1} :
          mail = [outbox[e] EXCEPT !.status = "retry", !.attempts = @ + 1, !.due = FALSE,
                                  !.delivered = @ + took]
    BY <1>0, <1>6 DEF Answered, Took
  <2>2. /\ mail \in Email /\ mail.status = "retry" /\ mail.attempts = outbox[e].attempts + 1
        /\ mail.delivered = outbox[e].delivered + took
    <3>1. outbox[e].attempts + 1 \in Nat /\ outbox[e].delivered + took \in Nat
      BY <1>2 DEF Email
    <3>2. mail \in Email
      BY <1>2, <2>1, <3>1 DEF Email
    <3> QED BY <1>2, <2>1, <3>2 DEF Email
  <2>3. RowSound(mail)'
    BY <1>1, <1>2, <1>7, <2>2 DEF RowSound, Email
  <2> QED BY <1>1, <1>3, <1>4, <1>7, <2>2, <2>3, RowKeeps
<1> QED BY <1>5, <1>6

\* A delivery is not marked, and the drain ends.
LEMMA UnmarkedKeeps ==
  ASSUME OutboxInv, NEW e \in batch, NEW took \in {0, 1},
         outbox' = [outbox EXCEPT ![e].delivered = @ + took],
         batch' = {}, enabled' \in BOOLEAN, up' \in BOOLEAN, CutsGrow, Cuts' = Cuts + 1
  PROVE  OutboxInv'
<1>0. PICK mail : mail = [outbox[e] EXCEPT !.delivered = @ + took]
  OBVIOUS
<1>1. e \in Emails
  BY DEF OutboxInv, OutboxTyped
<1>2. outbox[e] \in Email /\ RowSound(outbox[e])
  BY <1>1, ElementOfSeq, LenProperties DEF OutboxInv, OutboxTyped, Emails
<1>3. /\ mail \in Email /\ mail.status = outbox[e].status
      /\ mail.attempts = outbox[e].attempts /\ mail.delivered = outbox[e].delivered + took
  <2>1. outbox[e].delivered + took \in Nat
    BY <1>2 DEF Email
  <2>2. mail \in Email
    BY <1>0, <1>2, <2>1 DEF Email
  <2> QED BY <1>0, <1>2, <2>2 DEF Email
<1>4. outbox' = [outbox EXCEPT ![e] = mail]
  BY <1>0
<1>5. RowSound(mail)'
  <2>1. Cuts \in Nat /\ Cuts' = Cuts + 1
    BY CutsFacts DEF OutboxInv
  <2>2. /\ outbox[e].attempts \in Nat /\ outbox[e].delivered \in Nat
        /\ outbox[e].status # "sent"
    BY <1>2 DEF Email, OutboxInv
  <2>3. RowSound(mail)' <=>
          /\ mail.attempts <= MaxAttempts
          /\ mail.status = "sent" => mail.attempts < MaxAttempts
          /\ mail.delivered <= mail.attempts + (Cuts + 1)
                               + (IF mail.status = "sent" THEN 1 ELSE 0)
    BY <2>1 DEF RowSound
  <2>4. outbox[e].delivered <= outbox[e].attempts + Cuts + 0
    BY <1>2, <2>2 DEF RowSound
  <2>5. outbox[e].delivered + took <= outbox[e].attempts + (Cuts + 1) + 0
    BY <2>1, <2>2, <2>4, OneMore, Zenon
  <2>6. mail.delivered <= mail.attempts + (Cuts + 1) + 0
    BY <1>3, <2>5
  <2> QED BY <1>2, <1>3, <2>2, <2>3, <2>6 DEF RowSound
<1> QED BY <1>1, <1>3, <1>4, <1>5, RowKeeps

LEMMA MarkFailsKeeps ==
  ASSUME OutboxInv, NEW e \in batch, NEW answer \in Answers, MarkFails(e, answer)
  PROVE  OutboxInv'
<1>1. PICK took \in {0, 1} : took = Took(answer)
  BY DEF Took
<1>2. /\ outbox' = [outbox EXCEPT ![e].delivered = @ + took] /\ batch' = {}
      /\ UNCHANGED <<enabled, up, crashes>> /\ faults' = faults + 1 /\ faults < MaxFaults
  BY <1>1 DEF MarkFails
<1>3. /\ crashes \in Nat /\ faults \in Nat /\ crashes <= MaxCrashes
      /\ enabled' \in BOOLEAN /\ up' \in BOOLEAN
  BY <1>2 DEF OutboxInv, OutboxTyped
<1>4. CutsGrow
  BY <1>2, <1>3 DEF CutsGrow
<1>5. Cuts' = Cuts + 1
  BY <1>2, <1>3, NextSum DEF Cuts
<1> QED BY <1>2, <1>3, <1>4, <1>5, UnmarkedKeeps

LEMMA KilledKeeps ==
  ASSUME OutboxInv, CrashInDrain \/ CrashInQueueing
  PROVE  OutboxInv'
<1>0. /\ up' = FALSE /\ batch' = {} /\ UNCHANGED <<enabled, faults>>
      /\ crashes' = crashes + 1 /\ crashes < MaxCrashes
  BY DEF CrashInDrain, CrashInQueueing, Killed
<1>1. /\ up' \in BOOLEAN /\ enabled \in BOOLEAN /\ CutsGrow /\ Cuts' = Cuts + 1
  <2>1. crashes \in Nat /\ faults \in Nat /\ faults <= MaxFaults /\ enabled \in BOOLEAN
    BY DEF OutboxInv, OutboxTyped
  <2>2. CutsGrow
    <3>1. faults' = faults /\ crashes' = crashes + 1 /\ crashes < MaxCrashes
      BY <1>0
    <3>2. crashes' \in 0..MaxCrashes /\ crashes <= crashes'
      BY <2>1, <3>1, Below
    <3>3. faults' \in 0..MaxFaults /\ faults <= faults'
      BY <2>1, <3>1
    <3> QED BY <3>2, <3>3 DEF CutsGrow
  <2>3. Cuts' = Cuts + 1
    BY <1>0, <2>1, NextSum DEF Cuts
  <2>4. up' \in BOOLEAN
    BY <1>0
  <2> QED BY <2>1, <2>2, <2>3, <2>4
<1>2. CASE outbox' = outbox
  BY <1>0, <1>1, <1>2, RowsStay
<1>3. ASSUME NEW e \in batch, outbox' = [outbox EXCEPT ![e].delivered = @ + 1]
      PROVE  OutboxInv'
  BY <1>0, <1>1, <1>3, UnmarkedKeeps
<1>4. ASSUME NEW news \in SUBSET News, NEW k \in 0..Recipients, outbox' = Queued(news, k)
      PROVE  OutboxInv'
  BY <1>0, <1>1, <1>4, QueueKeeps
<1> QED BY <1>2, <1>3, <1>4 DEF CrashInDrain, CrashInQueueing

LEMMA OutboxStepKeeps ==
  ASSUME OutboxInv, [OutboxNext]_outboxVars
  PROVE  OutboxInv'
<1>0. /\ enabled \in BOOLEAN /\ up \in BOOLEAN /\ crashes \in 0..MaxCrashes
      /\ batch \subseteq Emails
      /\ (UNCHANGED <<crashes, faults>> => CutsGrow /\ Cuts' = Cuts /\ Cuts \in Nat)
  BY DEF OutboxInv, OutboxTyped, CutsGrow, Cuts
<1>1. CASE SetWatchEmails \/ Restart \/ UNCHANGED outboxVars
  <2>1. outbox' = outbox /\ batch' = batch /\ UNCHANGED <<crashes, faults>>
    BY <1>1 DEF SetWatchEmails, Restart, outboxVars
  <2>2. enabled' \in BOOLEAN /\ up' \in BOOLEAN
    BY <1>0, <1>1 DEF SetWatchEmails, Restart, outboxVars
  <2> QED BY <1>0, <2>1, <2>2, RowsStay DEF OutboxInv
<1>2. CASE StartDrain
  <2>1. batch' \subseteq DueEmails
    BY <1>2 DEF StartDrain
  <2>2. batch' \subseteq Emails /\ \A e \in batch' : outbox[e].status # "sent"
                                                   /\ outbox[e].attempts < MaxAttempts
    BY <2>1 DEF DueEmails
  <2> QED BY <1>0, <1>2, <2>2, RowsStay DEF StartDrain
<1>3. CASE SendNext
  BY <1>3, SendKeeps DEF SendNext
<1>4. ASSUME NEW e \in Emails, BecomesDue(e) PROVE OutboxInv'
  <2>0. PICK r : r = [outbox[e] EXCEPT !.due = TRUE]
    OBVIOUS
  <2>1. outbox[e] \in Email /\ RowSound(outbox[e])
    BY ElementOfSeq, LenProperties DEF OutboxInv, OutboxTyped, Emails
  <2>2. /\ r \in Email /\ r.status = outbox[e].status
        /\ r.attempts = outbox[e].attempts /\ r.delivered = outbox[e].delivered
    BY <2>0, <2>1 DEF Email
  <2>3. outbox' = [outbox EXCEPT ![e] = r] /\ UNCHANGED <<batch, enabled, up, crashes, faults>>
    BY <1>4, <2>0 DEF BecomesDue
  <2>4. RowSound(r)' /\ CutsGrow
    BY <1>0, <2>1, <2>2, <2>3 DEF RowSound
  <2>5. e \in batch' => r.status # "sent" /\ r.attempts < MaxAttempts
    BY <2>2, <2>3 DEF OutboxInv
  <2> QED BY <1>0, <2>2, <2>3, <2>4, <2>5, RowKeeps
<1>5. CASE QueueAlert
  BY <1>0, <1>5, QueueKeeps DEF QueueAlert
<1>6. CASE CrashInDrain \/ CrashInQueueing
  BY <1>6, KilledKeeps
<1>7. ASSUME NEW e \in batch, NEW answer \in Answers, MarkFails(e, answer) PROVE OutboxInv'
  BY <1>7, MarkFailsKeeps
<1> QED BY <1>1, <1>2, <1>3, <1>4, <1>5, <1>6, <1>7 DEF OutboxNext, OutboxStep

LEMMA OutboxInitInv == OutboxInit => OutboxInv
<1> SUFFICES ASSUME OutboxInit PROVE OutboxInv
  OBVIOUS
<1>1. outbox = <<>> /\ Emails = {}
  BY DEF OutboxInit, Emails
<1> QED BY <1>1, EmptySeq DEF OutboxInit, OutboxInv, OutboxTyped

LEMMA OutboxInvariance == OutboxSpec => []OutboxInv
<1> QED BY OutboxInitInv, OutboxStepKeeps, PTL DEF OutboxSpec

LEMMA OutboxBounds ==
  ASSUME OutboxInv
  PROVE  DeliveriesBounded
<1>1. ASSUME NEW e \in Emails
      PROVE  /\ outbox[e].attempts <= MaxAttempts
             /\ outbox[e].delivered <= MaxAttempts + crashes + faults
  <2>1. outbox[e] \in Email /\ RowSound(outbox[e]) /\ crashes \in Nat /\ faults \in Nat
    BY ElementOfSeq, LenProperties DEF OutboxInv, OutboxTyped, Emails
  <2> QED BY <2>1 DEF RowSound, Email, Cuts
<1> QED BY <1>1 DEF DeliveriesBounded

\* Whatever is queued, lost, refused or cut short, no email is taken more
\* often than the attempts, the crashes and the refused marks allow
\* (process_email_outbox).
THEOREM OutboxDelivers == OutboxSpec => []DeliveriesBounded
<1> QED BY OutboxInvariance, OutboxBounds, PTL

-----------------------------------------------------------------------------
(* The agent's variables.                                                  *)

Scanning == [check: 0..4, found: [Issues -> 0..Top], products: SUBSET Products]

Checking == [on: BOOLEAN, todo: SUBSET Products, answered: SUBSET Products, new: SUBSET Cves]

ScanTyped ==
  /\ live \in [Issues -> 0..Top] /\ snapshot \in [Issues -> 0..Top]
  /\ told \in [Issues -> 0..Top]
  /\ installed \in SUBSET Products /\ fingerprint \in SUBSET Products
  /\ row \in {"none", "running", "completed", "failed"}
  /\ scan \in Scanning
  /\ active \in BOOLEAN
  /\ untold \subseteq Issues

CveTyped ==
  /\ fresh \subseteq Cves /\ aged \subseteq fresh /\ checked \in BOOLEAN
  /\ alerted \subseteq Cves /\ known \subseteq Cves /\ lost \subseteq Cves
  /\ cve \in Checking

LEMMA NothingTyped == Nothing \in [Issues -> 0..Top] /\ NoScan \in Scanning /\ NoCheck \in Checking
BY DEF Nothing, NoScan, NoCheck, Scanning, Checking

LEMMA ItemsTyped ==
  ASSUME NEW prev, NEW cur
  PROVE  AlertItems(prev, cur) \subseteq Issues
BY DEF AlertItems, NewlyAppeared, SeverityIncreased

LEMMA CommitsTyped ==
  ASSUME ScanTyped, NEW n \in 0..AllCommits, Commits(n)
  PROVE  /\ snapshot' \in [Issues -> 0..Top] /\ told' \in [Issues -> 0..Top]
         /\ fingerprint' \in SUBSET Products /\ untold' \subseteq Issues
<1>1. scan.found \in [Issues -> 0..Top] /\ scan.products \in SUBSET Products
  BY DEF ScanTyped, Scanning
<1>2. snapshot' \in [Issues -> 0..Top] /\ fingerprint' \in SUBSET Products
  BY <1>1 DEF Commits, ScanTyped
<1>3. told' \in [Issues -> 0..Top]
  BY <1>1 DEF Commits, ScanTyped
<1>4. untold' \subseteq Issues
  BY ItemsTyped DEF Commits, ScanTyped
<1> QED BY <1>2, <1>3, <1>4

LEMMA RunCheckTyped ==
  ASSUME ScanTyped, NEW ok \in BOOLEAN, RunCheck(ok)
  PROVE  ScanTyped'
<1> DEFINE check == Checks[scan.check]
<1>1. scan.check \in 1..3 /\ scan.found \in [Issues -> 0..Top]
  BY DEF RunCheck, ScanTyped, Scanning
<1>2. Found(check) \in [Issues -> 0..Top]
  BY <1>1 DEF Found, ScanTyped
<1>3. scan' = [check    |-> scan.check + 1,
               found    |-> IF ok THEN Found(check) ELSE scan.found,
               products |-> IF ok /\ check = "cms" THEN installed ELSE {}]
  BY DEF RunCheck
<1> HIDE DEF check
<1>4. scan' \in Scanning
  BY <1>1, <1>2, <1>3 DEF Scanning, ScanTyped
<1> QED BY <1>4 DEF RunCheck, ScanTyped

LEMMA ScanTypedStep ==
  ASSUME ScanTyped, [Next]_agentVars
  PROVE  ScanTyped'
<1>1. CASE UNCHANGED scanVars
  BY <1>1 DEF scanVars, ScanTyped
<1>2. ASSUME NEW n \in 0..AllCommits, Commits(n), scan' = NoScan,
             row' \in {row, "completed", "failed"},
             UNCHANGED <<live, installed, active>>
      PROVE  ScanTyped'
  BY <1>2, CommitsTyped, NothingTyped DEF ScanTyped
<1>3. CASE FinishWatchScan
  BY <1>2, <1>3 DEF FinishWatchScan
<1>4. CASE CrashInCommits
  BY <1>2, <1>4 DEF CrashInCommits, DropScan
<1>5. CASE ScanForgotten
  BY <1>5, NothingTyped DEF ScanForgotten, DropScan, ScanTyped
<1>6. CASE RestartWatch
  BY <1>6 DEF RestartWatch, ScanTyped
<1>7. ASSUME NEW ok \in BOOLEAN, RunCheck(ok) PROVE ScanTyped'
  BY <1>7, RunCheckTyped
<1>8. CASE SiteChanges
  BY <1>8 DEF SiteChanges, ScanTyped
<1>9. CASE RemoveOrAddSite
  BY <1>9 DEF RemoveOrAddSite, ScanTyped
<1>10. CASE BeginWatchScan
  <2>1. scan' = [check |-> 1, found |-> Nothing, products |-> {}]
    BY <1>10 DEF BeginWatchScan, NoScan
  <2>2. scan' \in Scanning
    BY <2>1, NothingTyped DEF Scanning
  <2> QED BY <1>10, <2>2 DEF BeginWatchScan, ScanTyped
<1>11. CASE WatchScanRaises
  BY <1>11, NothingTyped DEF WatchScanRaises, ScanTyped
<1>12. CASE CveStep
  <2>1. UNCHANGED scanVars
    BY <1>12 DEF CveStep, CveModified, WeekPasses, RangePasses, BeginCveCheck,
                 ProductAnswered, ProductSkipped, RecordingRaises, FinishCveCheck
  <2> QED BY <1>1, <2>1
<1>13. CASE Crash
  BY <1>4, <1>5, <1>13 DEF Crash, CrashInCveCommits
<1> QED BY <1>1, <1>3, <1>6, <1>7, <1>8, <1>9, <1>10, <1>11, <1>12, <1>13
        DEF Next, ScanStep, agentVars

LEMMA CutShortTyped ==
  ASSUME CveTyped, NEW S \in SUBSET Cves, CutShort(S)
  PROVE  CveTyped'
BY NothingTyped DEF CutShort, CveTyped, Checking

LEMMA PassOverTyped ==
  ASSUME CveTyped, NEW S \in SUBSET fresh, PassOver(S)
  PROVE  fresh' \subseteq Cves /\ aged' \subseteq fresh' /\ lost' \subseteq Cves
BY DEF PassOver, Unasked, CveTyped

LEMMA CveTypedStep ==
  ASSUME CveTyped, ScanTyped, [Next]_agentVars
  PROVE  CveTyped'
<1>1. CASE UNCHANGED cveVars
  BY <1>1 DEF cveVars, CveTyped
<1>2. ASSUME NEW S \in SUBSET Cves, CutShort(S) PROVE CveTyped'
  BY <1>2, CutShortTyped
<1>3. ASSUME NEW c \in Cves, CveModified(c) PROVE CveTyped'
  BY <1>3 DEF CveModified, CveTyped
<1>4. CASE BeginCveCheck
  <2>1. cve' \in Checking
    <3>1. \/ cve' = cve
          \/ cve' = [NoCheck EXCEPT !.on = TRUE, !.todo = fingerprint]
      BY <1>4 DEF BeginCveCheck
    <3>2. NoCheck \in Checking /\ fingerprint \in SUBSET Products
      BY NothingTyped DEF ScanTyped
    <3>3. [NoCheck EXCEPT !.on = TRUE, !.todo = fingerprint] \in Checking
      BY <3>2 DEF Checking
    <3> QED BY <3>1, <3>3 DEF CveTyped
  <2>2. checked' \in BOOLEAN /\ UNCHANGED <<alerted, known>>
    BY <1>4 DEF BeginCveCheck, CveTyped
  <2>3. \E S \in SUBSET fresh : PassOver(S)
    BY <1>4 DEF BeginCveCheck, CveTyped
  <2> QED BY <2>1, <2>2, <2>3, PassOverTyped DEF CveTyped
<1>5. ASSUME NEW p \in Products, ProductAnswered(p) PROVE CveTyped'
  <2>1. Matching(p) \subseteq Cves
    BY DEF Matching, Searched, CveTyped
  <2> QED BY <1>5, <2>1 DEF ProductAnswered, CveTyped, Checking
<1>6. ASSUME NEW p \in Products, ProductSkipped(p) PROVE CveTyped'
  BY <1>6 DEF ProductSkipped, CveTyped, Checking
<1>7. ASSUME NEW n, CveCommits(n) PROVE CveTyped'
  <2>1. Unasked(fresh) \subseteq Cves /\ Unasked({}) = {} /\ cve.new \subseteq Cves
    BY DEF Unasked, CveTyped, Checking
  <2>2. fresh' \subseteq Cves /\ aged' \subseteq fresh' /\ checked' \in BOOLEAN
    BY <1>7 DEF CveCommits, CveTyped
  <2>3. lost' \subseteq Cves
    BY <1>7, <2>1 DEF CveCommits, CveTyped
  <2> QED BY <1>7, <2>2, <2>3, NothingTyped DEF CveCommits, CveTyped
<1>8. ASSUME NEW p, NEW S \in SUBSET Matching(p) PROVE S \in SUBSET Cves
  BY <1>8 DEF Matching, Searched, CveTyped
<1>9. ASSUME NEW c \in Cves, WeekPasses(c) PROVE CveTyped'
  BY <1>9 DEF WeekPasses, CveTyped
<1>10. ASSUME NEW c \in Cves, RangePasses(c) PROVE CveTyped'
  BY <1>10, PassOverTyped DEF RangePasses, CveTyped
<1>11. CASE CveStep
  BY <1>2, <1>3, <1>4, <1>5, <1>6, <1>7, <1>8, <1>9, <1>10, <1>11
  DEF CveStep, RecordingRaises, FinishCveCheck
<1>12. CASE Crash
  BY <1>2, <1>7, <1>12 DEF Crash, CrashInCveCommits
<1> QED BY <1>1, <1>11, <1>12 DEF Next, agentVars

-----------------------------------------------------------------------------
(* The refinement.                                                         *)

LEMMA CommitsQueue ==
  ASSUME ScanTyped, NEW n \in 0..AllCommits, Commits(n)
  PROVE  \E news \in SUBSET Issues, k \in 0..Recipients : outbox' = Queued(news, k)
<1> DEFINE items == AlertItems(snapshot, scan.found)
           mails == IF n <= 4 \/ items = {} THEN 0 ELSE n - 4
<1>1. Recipients \in Nat
  BY LenProperties DEF Recipients
<1>2. mails \in 0..Recipients
  BY <1>1 DEF AllCommits
<1>3. items \in SUBSET Issues
  BY ItemsTyped
<1>4. outbox' = Queued(items, mails)
  BY DEF Commits
<1> QED BY <1>2, <1>3, <1>4

LEMMA CveCommitsQueue ==
  ASSUME CveTyped, NEW n \in 0..(1 + Recipients), CveCommits(n)
  PROVE  \E k \in 0..Recipients : /\ outbox' = Queued(cve.new, k)
                                  /\ k < Len(Members) => cve.new \subseteq lost'
                                  /\ lost \subseteq lost'
<1> DEFINE mails == IF n = 0 \/ cve.new = {} THEN 0 ELSE n - 1
<1>1. Recipients \in Nat
  BY LenProperties DEF Recipients
<1>2. mails \in 0..Recipients
  BY <1>1
<1>3. outbox' = Queued(cve.new, mails)
  BY DEF CveCommits
<1>4. mails < Len(Members) => cve.new \subseteq lost'
  BY DEF CveCommits
<1>5. lost \subseteq lost'
  BY DEF CveCommits
<1> QED BY <1>2, <1>3, <1>4, <1>5

\* Every step of the agent is a step of the outbox or leaves it alone.
LEMMA StepRefines ==
  ASSUME ScanTyped, CveTyped, [Next]_agentVars
  PROVE  [OutboxNext]_outboxVars
<1>1. CASE UNCHANGED outboxVars
  BY <1>1
<1>2. CASE OutboxStep
  BY <1>2 DEF OutboxNext
<1>3. CASE ScanStep
  <2>1. CASE FinishWatchScan
    <3>1. \E news \in SUBSET News, k \in 0..Recipients : outbox' = Queued(news, k)
      BY <2>1, CommitsQueue DEF FinishWatchScan
    <3> QED BY <2>1, <3>1 DEF FinishWatchScan, QueueAlert, OutboxNext
  <2>2. CASE ~FinishWatchScan
    BY <1>1, <1>3, <2>2 DEF ScanStep, SiteChanges, RemoveOrAddSite, BeginWatchScan, RunCheck,
                      WatchScanRaises
  <2> QED BY <2>1, <2>2
<1>4. CASE CveStep
  <2>1. CASE FinishCveCheck
    <3>1. \E news \in SUBSET News, k \in 0..Recipients : outbox' = Queued(news, k)
      <4>1. cve.new \in SUBSET News
        BY DEF CveTyped, Checking
      <4> QED BY <2>1, <4>1, CveCommitsQueue DEF FinishCveCheck
    <3> QED BY <2>1, <3>1 DEF FinishCveCheck, Checked, QueueAlert, OutboxNext
  <2>2. CASE ~FinishCveCheck
    BY <1>1, <1>4, <2>2 DEF CveStep, CveModified, WeekPasses, RangePasses, BeginCveCheck,
                      ProductAnswered, ProductSkipped, RecordingRaises
  <2> QED BY <2>1, <2>2
<1>5. CASE RestartWatch
  BY <1>5 DEF RestartWatch, OutboxNext
<1>6. CASE Crash
  <2>1. CASE CrashInCommits
    <3>1. \E news \in SUBSET News, k \in 0..Recipients : outbox' = Queued(news, k)
      BY <2>1, CommitsQueue DEF CrashInCommits
    <3> QED BY <2>1, <3>1 DEF CrashInCommits, CrashInQueueing, OutboxNext
  <2>2. CASE CrashInCveCommits
    <3>1. \E news \in SUBSET News, k \in 0..Recipients : outbox' = Queued(news, k)
      <4>1. cve.new \in SUBSET News
        BY DEF CveTyped, Checking
      <4> QED BY <2>2, <4>1, CveCommitsQueue DEF CrashInCveCommits
    <3> QED BY <2>2, <3>1 DEF CrashInCveCommits, CrashInQueueing, OutboxNext
  <2>3. CASE CrashInDrain
    BY <2>3 DEF OutboxNext
  <2>4. CASE Killed /\ UNCHANGED outbox
    BY <2>4 DEF CrashInDrain, OutboxNext
  <2> QED BY <1>6, <2>1, <2>2, <2>3, <2>4 DEF Crash
<1> QED BY <1>1, <1>2, <1>3, <1>4, <1>5, <1>6 DEF Next, agentVars

LEMMA AgentInit == Init => OutboxInit /\ ScanTyped /\ CveTyped
<1>1. Init => ScanTyped
  BY NothingTyped DEF Init, ScanInit, ScanTyped
<1>2. Init => CveTyped
  BY NothingTyped DEF Init, CveInit, CveTyped
<1> QED BY <1>1, <1>2 DEF Init

\* The agent, with its scans, checks and crashes, does nothing to the outbox
\* that EmailOutbox does not allow its users.
THEOREM AgentImplementsOutbox == Spec => OutboxSpec
<1>1. ScanTyped /\ CveTyped /\ [Next]_agentVars => ScanTyped' /\ CveTyped'
  BY ScanTypedStep, CveTypedStep
<1>2. ScanTyped /\ CveTyped /\ [Next]_agentVars => [OutboxNext]_outboxVars
  BY StepRefines
<1> QED BY <1>1, <1>2, AgentInit, PTL DEF Spec, OutboxSpec

-----------------------------------------------------------------------------
(* Watch alerts.                                                           *)

\* Snapshot, alert history and emails change together or not at all.
LEMMA CommitsCover ==
  ASSUME ScanTyped, AlertCoversSnapshot, Members # <<>>, NEW n \in 0..AllCommits, Commits(n)
  PROVE  AlertCoversSnapshot'
<1> DEFINE items == AlertItems(snapshot, scan.found)
           mails == IF n <= 4 \/ items = {} THEN 0 ELSE n - 4
<1>0. /\ scan.found \in [Issues -> 0..Top] /\ snapshot \in [Issues -> 0..Top]
      /\ told \in [Issues -> 0..Top]
  BY DEF ScanTyped, Scanning
<1>1. Len(Members) \in Nat /\ Len(Members) # 0
  BY EmptySeq, LenProperties
<1>2. CASE n = 0
  <2>1. snapshot' = snapshot /\ told' = told
    BY <1>0, <1>2 DEF Commits
  <2>2. untold \subseteq untold'
    BY <1>2 DEF Commits, ScanTyped
  <2> QED BY <2>1, <2>2 DEF AlertCoversSnapshot
<1>3. CASE n >= 1
  <2> SUFFICES ASSUME NEW i \in Issues, snapshot'[i] > 0, i \notin untold'
               PROVE  told'[i] >= snapshot'[i]
    BY DEF AlertCoversSnapshot
  <2>1. snapshot' = scan.found /\ scan.found[i] > 0
    BY <1>3 DEF Commits
  <2>2. i \notin Fixed(snapshot, scan.found)
    BY <2>1 DEF Fixed
  <2>3. told'[i] = IF mails > 0 /\ i \in items THEN scan.found[i] ELSE told[i]
    BY <2>2 DEF Commits
  <2>4. mails \in Nat
    BY <1>3 DEF AllCommits, Recipients
  <2>5. CASE i \in items
    <3>1. mails >= Len(Members)
      BY <1>1, <1>3, <2>4, <2>5 DEF Commits
    <3> QED BY <1>0, <1>1, <2>1, <2>3, <2>4, <2>5, <3>1
  <2>6. CASE i \notin items
    <3>1. snapshot[i] > 0 /\ scan.found[i] <= snapshot[i]
      BY <1>0, <2>1, <2>6 DEF AlertItems, NewlyAppeared, SeverityIncreased
    <3>2. i \notin untold
      BY <2>1, <2>6 DEF Commits
    <3>3. told[i] >= snapshot[i]
      BY <3>1, <3>2 DEF AlertCoversSnapshot
    <3> HIDE DEF items, mails
    <3> QED BY <1>0, <2>1, <2>3, <2>6, <3>1, <3>3
  <2> QED BY <2>5, <2>6
<1>4. n \in Nat
  BY LenProperties DEF AllCommits, Recipients
<1> QED BY <1>2, <1>3, <1>4

LEMMA CoverStep ==
  ASSUME ScanTyped, AlertCoversSnapshot, Members # <<>>, [Next]_agentVars
  PROVE  AlertCoversSnapshot'
<1>1. CASE UNCHANGED <<snapshot, told, untold>>
  BY <1>1 DEF AlertCoversSnapshot
<1>2. CASE FinishWatchScan
  BY <1>2, CommitsCover DEF FinishWatchScan
<1>3. CASE CrashInCommits
  BY <1>3, CommitsCover DEF CrashInCommits
<1>4. CASE ScanStep /\ ~FinishWatchScan
  BY <1>1, <1>4 DEF ScanStep, SiteChanges, RemoveOrAddSite, BeginWatchScan, RunCheck, WatchScanRaises
<1>5. CASE CveStep
  BY <1>1, <1>5 DEF CveStep, CveModified, WeekPasses, RangePasses, BeginCveCheck,
                    ProductAnswered, ProductSkipped, RecordingRaises, FinishCveCheck, scanVars
<1>6. CASE RestartWatch
  BY <1>1, <1>6 DEF RestartWatch
<1>7. CASE ScanForgotten
  BY <1>1, <1>7 DEF ScanForgotten
<1>8. CASE Crash
  BY <1>3, <1>7, <1>8 DEF Crash, CrashInCveCommits
<1> QED BY <1>1, <1>2, <1>4, <1>5, <1>6, <1>8 DEF Next, agentVars, scanVars

-----------------------------------------------------------------------------
(* CVE alerts.                                                             *)

InMail(c) == \E e \in Emails : Mentions(e, c)

\* A check that is not at work has nothing left over.
CheckEnds == ~cve.on => cve = NoCheck

\* What is mailed was recorded, and is no longer on its way.
MailedOnce ==
  /\ cve.new \subseteq alerted
  /\ \A c \in Cves, e \in Emails : Mentions(e, c) => c \in alerted /\ c \notin cve.new

\* What is recorded is on its way, mailed or lost.
Recorded == \A c \in alerted : c \in cve.new \/ c \in lost \/ InMail(c)

\* What a check has asked about is recorded or lost; so is what left the window.
Asked == \A c \in fresh, p \in cve.answered : Hits(c, p) => c \in alerted \/ c \in lost

Passed == \A c \in known, p \in Products : Hits(c, p) => c \in fresh \/ c \in alerted \/ c \in lost

Distinct == \A i, j \in 1..Len(Members) : Members[i] = Members[j] => i = j

CveInv ==
  /\ CheckEnds /\ MailedOnce /\ Asked /\ Passed
  /\ Members # <<>> => Recorded
  /\ Distinct => AlertedOnce

\* What steps do to the emails: nothing that members can see, or one alert.
SameNews ==
  /\ Emails' = Emails
  /\ \A e \in Emails : outbox'[e].to = outbox[e].to /\ outbox'[e].news = outbox[e].news

Alerts(news) == \E k \in 0..Recipients : outbox' = Queued(news, k)

\* Nothing is said of a CVE.
NoCveNews == SameNews \/ \E news \in SUBSET Issues : Alerts(news)

LEMMA AlertsFacts ==
  ASSUME OutboxTyped, NEW news \in SUBSET News, NEW k \in 0..Recipients,
         outbox' = Queued(news, k)
  PROVE  /\ k \in 0..Len(Members) /\ Emails \subseteq Emails'
         /\ \A e \in Emails : outbox'[e] = outbox[e]
         /\ \A e \in Emails' \ Emails : /\ e - Len(outbox) \in 1..k
                                        /\ outbox'[e].news = news
                                        /\ outbox'[e].to = Members[e - Len(outbox)]
         /\ k > 0 => \E e \in Emails' : outbox'[e].news = news
<1>1. k \in 0..Len(Members) /\ outbox \in Seq(Email)
  BY LenProperties DEF Recipients, OutboxTyped
<1>2. /\ DOMAIN Queued(news, k) = 1..(Len(outbox) + k)
      /\ Emails = 1..Len(outbox)
      /\ \A e \in Emails : Queued(news, k)[e] = outbox[e]
      /\ \A e \in 1..(Len(outbox) + k) : e \notin Emails =>
           /\ e - Len(outbox) \in 1..k
           /\ Queued(news, k)[e] = NewEmail(Members[e - Len(outbox)], news)
  BY <1>1, QueuedFacts
<1>3. Len(outbox) \in Nat /\ k \in Nat
  BY <1>1, LenProperties
<1>4. Emails' = 1..(Len(outbox) + k) /\ Emails \subseteq Emails'
  BY <1>2, <1>3 DEF Emails
<1>5. \A e \in Emails' \ Emails : /\ e - Len(outbox) \in 1..k
                                  /\ outbox'[e].news = news
                                  /\ outbox'[e].to = Members[e - Len(outbox)]
  BY <1>2, <1>4 DEF NewEmail
<1>6. ASSUME k > 0 PROVE \E e \in Emails' : outbox'[e].news = news
  <2>1. Len(outbox) + 1 \in Emails' \ Emails
    BY <1>2, <1>3, <1>4, <1>6
  <2> QED BY <1>5, <2>1
<1> QED BY <1>1, <1>2, <1>4, <1>5, <1>6

LEMMA NoCveNewsFacts ==
  ASSUME OutboxTyped, NoCveNews, NEW c \in Cves
  PROVE  /\ \A e \in Emails' : Mentions(e, c)' =>
              e \in Emails /\ Mentions(e, c) /\ outbox'[e].to = outbox[e].to
         /\ InMail(c) => InMail(c)'
<1>1. CASE SameNews
  BY <1>1 DEF SameNews, Mentions, InMail
<1>2. ASSUME NEW news \in SUBSET Issues, NEW k \in 0..Recipients, outbox' = Queued(news, k)
      PROVE  /\ \A e \in Emails' : Mentions(e, c)' =>
                  e \in Emails /\ Mentions(e, c) /\ outbox'[e].to = outbox[e].to
             /\ InMail(c) => InMail(c)'
  <2>1. news \in SUBSET News /\ c \notin news
    BY <1>2
  <2>2. /\ Emails \subseteq Emails'
        /\ \A e \in Emails : outbox'[e] = outbox[e]
        /\ \A e \in Emails' \ Emails : outbox'[e].news = news
    BY <1>2, <2>1, AlertsFacts
  <2> QED BY <2>1, <2>2 DEF Mentions, InMail
<1> QED BY <1>1, <1>2 DEF NoCveNews, Alerts

\* Steps that do not touch the CVE check.
LEMMA OtherJobs ==
  ASSUME OutboxTyped, CveTyped, CveInv, NoCveNews, UNCHANGED cveVars
  PROVE  CveInv'
<1> USE DEF cveVars
<1>1. CheckEnds' /\ Asked' /\ Passed'
  BY DEF CveInv, CheckEnds, Asked, Passed
<1>2. MailedOnce'
  BY NoCveNewsFacts DEF CveInv, MailedOnce
<1>3. Members # <<>> => Recorded'
  BY NoCveNewsFacts DEF CveInv, Recorded, CveTyped
<1>4. Distinct => AlertedOnce'
  BY NoCveNewsFacts DEF CveInv, AlertedOnce
<1> QED BY <1>1, <1>2, <1>3, <1>4 DEF CveInv

\* A check that is cut short: what it recorded is lost.
LEMMA CutShortKeeps ==
  ASSUME OutboxTyped, CveTyped, CveInv, NoCveNews, NEW S \in SUBSET fresh, CutShort(S)
  PROVE  CveInv'
<1>1. /\ alerted' = alerted \cup S /\ lost' = lost \cup cve.new \cup (S \ alerted)
      /\ cve' = NoCheck /\ UNCHANGED <<fresh, known>>
  BY DEF CutShort
<1>2. NoCheck.new = {} /\ NoCheck.answered = {} /\ alerted' \subseteq Cves
  BY <1>1 DEF NoCheck, CveTyped
<1>3. CheckEnds' /\ Asked' /\ Passed'
  BY <1>1, <1>2 DEF CveInv, CheckEnds, Asked, Passed
<1>4. MailedOnce'
  BY <1>1, <1>2, NoCveNewsFacts DEF CveInv, MailedOnce
<1>5. Members # <<>> => Recorded'
  BY <1>1, <1>2, NoCveNewsFacts DEF CveInv, Recorded
<1>6. Distinct => AlertedOnce'
  BY NoCveNewsFacts DEF CveInv, AlertedOnce
<1> QED BY <1>3, <1>4, <1>5, <1>6 DEF CveInv

\* What the window moves beyond was recorded, or is lost.
LEMMA PassedOver ==
  ASSUME CveTyped, Asked, Passed, NEW S \in SUBSET fresh, PassOver(S),
         UNCHANGED <<alerted, known>>
  PROVE  Passed' /\ fresh' \subseteq fresh /\ lost \subseteq lost'
<1>1. fresh' = fresh \ S /\ lost' = lost \cup Unasked(S)
  BY DEF PassOver
<1>2. ASSUME NEW c \in S, NEW p \in Products, Hits(c, p) PROVE c \in alerted \/ c \in lost'
  BY <1>1, <1>2 DEF Asked, Unasked
<1> QED BY <1>1, <1>2 DEF Passed, Hits, Affects, Verdict

\* A check at work sends nothing.
LEMMA AskingKeeps ==
  ASSUME OutboxTyped, CveTyped, CveInv, outbox' = outbox,
         \/ \E c \in Cves : CveModified(c) \/ WeekPasses(c) \/ RangePasses(c)
         \/ BeginCveCheck
         \/ \E p \in Products : ProductAnswered(p) \/ ProductSkipped(p)
  PROVE  CveInv'
<1>0. /\ Emails' = Emails /\ \A c, e : Mentions(e, c)' <=> Mentions(e, c)
      /\ \A c : InMail(c)' <=> InMail(c)
      /\ AlertedOnce' <=> AlertedOnce
  BY DEF Emails, Mentions, InMail, AlertedOnce
<1>1. ASSUME NEW c \in Cves, CveModified(c) PROVE CveInv'
  <2>1. /\ known' = known \cup {c} /\ fresh' = fresh \cup {c} /\ lost \subseteq lost'
        /\ (\E p \in cve.answered : Hits(c, p)) => c \in lost'
        /\ UNCHANGED <<alerted, cve>>
    BY <1>1 DEF CveModified
  <2>2. CheckEnds' /\ MailedOnce' /\ Asked' /\ Passed'
    BY <1>0, <2>1 DEF CveInv, CheckEnds, MailedOnce, Asked, Passed
  <2>3. Members # <<>> => Recorded'
    BY <1>0, <2>1 DEF CveInv, Recorded
  <2> QED BY <1>0, <2>2, <2>3 DEF CveInv
<1>2. CASE BeginCveCheck
  <2>1. cve = NoCheck
    BY <1>2 DEF BeginCveCheck, CveInv, CheckEnds
  <2>2. cve.new = {} /\ cve.answered = {}
    BY <2>1 DEF NoCheck
  <2>3. UNCHANGED <<alerted, known>>
    BY <1>2 DEF BeginCveCheck
  <2>4. /\ Passed' /\ lost \subseteq lost'
        /\ cve'.new = {} /\ cve'.answered = {} /\ (cve' = cve \/ cve'.on)
    <3>1. \E S \in SUBSET fresh : PassOver(S)
      BY <1>2 DEF BeginCveCheck, CveTyped
    <3>2. cve' = cve \/ cve' = [NoCheck EXCEPT !.on = TRUE, !.todo = fingerprint]
      BY <1>2 DEF BeginCveCheck
    <3>3. cve'.new = {} /\ cve'.answered = {} /\ (cve' = cve \/ cve'.on)
      BY <2>2, <3>2 DEF NoCheck
    <3> QED BY <2>3, <3>1, <3>3, PassedOver DEF CveInv
  <2>5. CheckEnds' /\ MailedOnce' /\ Asked'
    BY <1>0, <2>1, <2>3, <2>4 DEF CveInv, CheckEnds, MailedOnce, Asked
  <2>6. Members # <<>> => Recorded'
    BY <1>0, <2>2, <2>3, <2>4 DEF CveInv, Recorded
  <2> QED BY <1>0, <2>4, <2>5, <2>6 DEF CveInv
<1>3. ASSUME NEW p \in Products, ProductAnswered(p) PROVE CveInv'
  <2>1. /\ alerted' = alerted \cup Matching(p) /\ UNCHANGED <<fresh, known, lost>>
        /\ cve'.on = cve.on /\ cve.on
        /\ cve'.answered = cve.answered \cup {p}
        /\ cve'.new = cve.new \cup (Matching(p) \ alerted)
    BY <1>3 DEF ProductAnswered, Asking, CveTyped, Checking
  <2>2. CheckEnds' /\ Asked' /\ Passed'
    BY <2>1 DEF CveInv, CheckEnds, Asked, Passed, Matching, Searched, Hits
  <2>3. MailedOnce'
    BY <1>0, <2>1 DEF CveInv, MailedOnce
  <2>4. Members # <<>> => Recorded'
    BY <1>0, <2>1 DEF CveInv, Recorded
  <2> QED BY <1>0, <2>2, <2>3, <2>4 DEF CveInv
<1>4. ASSUME NEW p \in Products, ProductSkipped(p) PROVE CveInv'
  <2>1. /\ UNCHANGED <<alerted, fresh, known, lost>>
        /\ cve'.on = cve.on /\ cve.on /\ cve'.answered = cve.answered /\ cve'.new = cve.new
    BY <1>4 DEF ProductSkipped, Asking, CveTyped, Checking
  <2>2. CheckEnds' /\ MailedOnce' /\ Asked' /\ Passed'
    BY <1>0, <2>1 DEF CveInv, CheckEnds, MailedOnce, Asked, Passed
  <2>3. Members # <<>> => Recorded'
    BY <1>0, <2>1 DEF CveInv, Recorded
  <2> QED BY <1>0, <2>2, <2>3 DEF CveInv
<1>5. ASSUME NEW c \in Cves, WeekPasses(c) PROVE CveInv'
  <2>1. UNCHANGED <<fresh, alerted, cve, known, lost>>
    BY <1>5 DEF WeekPasses
  <2>2. CheckEnds' /\ MailedOnce' /\ Asked' /\ Passed'
    BY <1>0, <2>1 DEF CveInv, CheckEnds, MailedOnce, Asked, Passed
  <2>3. Members # <<>> => Recorded'
    BY <1>0, <2>1 DEF CveInv, Recorded
  <2> QED BY <1>0, <2>2, <2>3 DEF CveInv
<1>6. ASSUME NEW c \in Cves, RangePasses(c) PROVE CveInv'
  <2>1. UNCHANGED <<alerted, cve, known>>
    BY <1>6 DEF RangePasses
  <2>2. Passed' /\ fresh' \subseteq fresh /\ lost \subseteq lost'
    BY <1>6, <2>1, PassedOver DEF RangePasses, CveInv, CveTyped
  <2>3. CheckEnds' /\ MailedOnce' /\ Asked'
    BY <1>0, <2>1, <2>2 DEF CveInv, CheckEnds, MailedOnce, Asked
  <2>4. Members # <<>> => Recorded'
    BY <1>0, <2>1, <2>2 DEF CveInv, Recorded
  <2> QED BY <1>0, <2>2, <2>3, <2>4 DEF CveInv
<1> QED BY <1>1, <1>2, <1>3, <1>4, <1>5, <1>6

\* A check that ends moves the window and sends what is new.
LEMMA CveCommitsKeep ==
  ASSUME OutboxTyped, CveTyped, CveInv, NEW n \in 0..(1 + Recipients), CveCommits(n)
  PROVE  CveInv'
<1>1. PICK k \in 0..Recipients : /\ outbox' = Queued(cve.new, k)
                                 /\ k < Len(Members) => cve.new \subseteq lost'
                                 /\ lost \subseteq lost'
  BY CveCommitsQueue
<1>2. cve.new \in SUBSET News /\ cve.new \subseteq Cves
  BY DEF CveTyped, Checking
<1>3. /\ k \in 0..Len(Members) /\ Emails \subseteq Emails'
      /\ \A e \in Emails : outbox'[e] = outbox[e]
      /\ \A e \in Emails' \ Emails : /\ e - Len(outbox) \in 1..k
                                     /\ outbox'[e].news = cve.new
                                     /\ outbox'[e].to = Members[e - Len(outbox)]
      /\ k > 0 => \E e \in Emails' : outbox'[e].news = cve.new
  BY <1>1, <1>2, AlertsFacts
<1>4. /\ cve' = NoCheck /\ NoCheck.new = {} /\ NoCheck.answered = {}
      /\ UNCHANGED <<alerted, known>>
  BY DEF CveCommits, NoCheck
<1>5. \/ fresh' = fresh
      \/ fresh' = {} /\ Unasked(fresh) \subseteq lost'
  BY DEF CveCommits, CveTyped
<1>6. CheckEnds' /\ Asked'
  BY <1>4 DEF CheckEnds, Asked
<1>7. Passed'
  BY <1>1, <1>4, <1>5 DEF CveInv, Passed, Asked, Unasked
<1>8. MailedOnce'
  BY <1>3, <1>4 DEF CveInv, MailedOnce, Mentions
<1>9. ASSUME Members # <<>>, NEW c \in alerted' PROVE c \in lost' \/ InMail(c)'
  <2>1. c \in cve.new \/ c \in lost \/ InMail(c)
    BY <1>4, <1>9 DEF CveInv, Recorded
  <2>2. InMail(c) => InMail(c)'
    BY <1>3 DEF InMail, Mentions
  <2>3. CASE c \in cve.new
    <3>1. Len(Members) \in Nat /\ Len(Members) # 0
      BY <1>9, EmptySeq, LenProperties
    <3>2. k = Len(Members) => k > 0
      BY <3>1
    <3>3. k = Len(Members) \/ k < Len(Members)
      BY <1>3, <3>1
    <3> QED BY <1>1, <1>3, <2>3, <3>2, <3>3 DEF InMail, Mentions
  <2> QED BY <1>1, <2>1, <2>2, <2>3
<1>10. Distinct => AlertedOnce'
  <2> SUFFICES ASSUME Distinct, NEW c \in Cves, NEW e \in Emails', NEW f \in Emails',
                      Mentions(e, c)', Mentions(f, c)', outbox'[e].to = outbox'[f].to
               PROVE  e = f
    BY DEF AlertedOnce
  <2>1. CASE e \in Emails /\ f \in Emails
    BY <1>3, <2>1 DEF CveInv, AlertedOnce, Mentions
  <2>2. CASE e \in Emails /\ f \notin Emails
    BY <1>3, <2>2 DEF CveInv, MailedOnce, Mentions
  <2>3. CASE e \notin Emails /\ f \in Emails
    BY <1>3, <2>3 DEF CveInv, MailedOnce, Mentions
  <2>4. CASE e \notin Emails /\ f \notin Emails
    <3>1. /\ e - Len(outbox) \in 1..Len(Members) /\ f - Len(outbox) \in 1..Len(Members)
          /\ Members[e - Len(outbox)] = Members[f - Len(outbox)]
      BY <1>3, <2>4
    <3>2. e - Len(outbox) = f - Len(outbox)
      BY <3>1 DEF Distinct
    <3>3. Len(outbox) \in Nat /\ e \in Nat /\ f \in Nat
      <4>1. outbox' \in Seq(Email)
        BY <1>1, <1>2, <1>3, QueuedFacts DEF OutboxTyped
      <4> QED BY <4>1, LenProperties DEF OutboxTyped, Emails
    <3> QED BY <3>2, <3>3
  <2> QED BY <2>1, <2>2, <2>3, <2>4
<1> QED BY <1>4, <1>6, <1>7, <1>8, <1>9, <1>10 DEF CveInv, Recorded

-----------------------------------------------------------------------------
(* Steps, by what they do to the emails.                                   *)

LEMMA DrainNews ==
  ASSUME OutboxTyped, OutboxStep \/ CrashInDrain
  PROVE  SameNews
<1>1. Emails = 1..Len(outbox) /\ \A e \in Emails : outbox[e] \in Email
  BY ElementOfSeq, LenProperties DEF OutboxTyped, Emails
<1>2. CASE outbox' = outbox
  BY <1>2 DEF SameNews, Emails
<1>3. ASSUME NEW e \in Emails, NEW r, r.to = outbox[e].to, r.news = outbox[e].news,
             outbox' = [outbox EXCEPT ![e] = r]
      PROVE  SameNews
  BY <1>1, <1>3 DEF SameNews, Emails
<1>4. ASSUME NEW e \in batch, NEW answer \in Answers, SendEmail(e, answer) PROVE SameNews
  <2>1. PICK r : r = Answered(outbox[e], answer)
    OBVIOUS
  <2>2. e \in Emails
    BY DEF OutboxTyped
  <2>3. r.to = outbox[e].to /\ r.news = outbox[e].news
    BY <1>1, <2>1, <2>2 DEF Answered, Email
  <2> QED BY <1>3, <1>4, <2>1, <2>2, <2>3 DEF SendEmail
<1>5. ASSUME NEW e \in Emails, BecomesDue(e) PROVE SameNews
  <2>1. PICK r : r = [outbox[e] EXCEPT !.due = TRUE]
    OBVIOUS
  <2>2. r.to = outbox[e].to /\ r.news = outbox[e].news
    BY <1>1, <2>1 DEF Email
  <2> QED BY <1>3, <1>5, <2>1, <2>2 DEF BecomesDue
<1>6. ASSUME NEW e \in batch, NEW took, outbox' = [outbox EXCEPT ![e].delivered = @ + took]
      PROVE  SameNews
  <2>1. PICK r : r = [outbox[e] EXCEPT !.delivered = @ + took]
    OBVIOUS
  <2>2. e \in Emails
    BY DEF OutboxTyped
  <2>3. r.to = outbox[e].to /\ r.news = outbox[e].news
    BY <1>1, <2>1, <2>2 DEF Email
  <2> QED BY <1>3, <1>6, <2>1, <2>2, <2>3
<1>7. ASSUME NEW e \in batch, NEW answer, MarkFails(e, answer) PROVE SameNews
  BY <1>6, <1>7 DEF MarkFails
<1> QED BY <1>2, <1>4, <1>5, <1>6, <1>7 DEF OutboxStep, SendNext, SetWatchEmails, StartDrain,
                                            CrashInDrain

LEMMA StayNews ==
  ASSUME outbox' = outbox
  PROVE  NoCveNews
BY DEF NoCveNews, SameNews, Emails

LEMMA CveInvStep ==
  ASSUME OutboxTyped, ScanTyped, CveTyped, CveInv, [Next]_agentVars
  PROVE  CveInv'
<1>1. ASSUME UNCHANGED cveVars, NoCveNews PROVE CveInv'
  BY <1>1, OtherJobs
<1>2. CASE OutboxStep /\ UNCHANGED cveVars
  BY <1>1, <1>2, DrainNews DEF NoCveNews
<1>3. CASE ScanStep /\ UNCHANGED cveVars
  <2>1. CASE FinishWatchScan
    <3>1. NoCveNews
      BY <2>1, CommitsQueue DEF FinishWatchScan, NoCveNews, Alerts
    <3> QED BY <1>1, <1>3, <3>1
  <2>2. CASE ~FinishWatchScan
    <3>1. outbox' = outbox
      BY <1>3, <2>2 DEF ScanStep, SiteChanges, RemoveOrAddSite, BeginWatchScan, RunCheck,
                        WatchScanRaises, outboxVars
    <3> QED BY <1>1, <1>3, <3>1, StayNews
  <2> QED BY <2>1, <2>2
<1>4. CASE CveStep
  <2>1. CASE FinishCveCheck
    BY <2>1, CveCommitsKeep DEF FinishCveCheck
  <2>2. CASE \E p \in Products : RecordingRaises(p)
    <3>1. NoCveNews
      BY <2>2, StayNews DEF RecordingRaises, outboxVars
    <3> QED BY <2>2, <3>1, CutShortKeeps DEF RecordingRaises, Matching, Searched
  <2>3. CASE \/ \E c \in Cves : CveModified(c) \/ WeekPasses(c) \/ RangePasses(c)
             \/ BeginCveCheck
             \/ \E p \in Products : ProductAnswered(p) \/ ProductSkipped(p)
    <3>1. outbox' = outbox
      BY <2>3 DEF CveModified, WeekPasses, RangePasses, BeginCveCheck, ProductAnswered,
                  ProductSkipped, outboxVars
    <3> QED BY <2>3, <3>1, AskingKeeps
  <2> QED BY <1>4, <2>1, <2>2, <2>3 DEF CveStep
<1>5. CASE RestartWatch /\ UNCHANGED cveVars
  BY <1>1, <1>5, StayNews DEF RestartWatch, Restart
<1>6. CASE Crash
  <2>1. CASE CrashInCommits /\ CutShort({})
    <3>1. NoCveNews
      BY <2>1, CommitsQueue DEF CrashInCommits, NoCveNews, Alerts
    <3> QED BY <2>1, <3>1, CutShortKeeps
  <2>2. CASE CrashInDrain /\ CutShort({})
    BY <2>2, DrainNews, CutShortKeeps DEF NoCveNews
  <2>3. ASSUME NEW p, NEW S \in SUBSET Cves, UNCHANGED outbox, S \subseteq Matching(p), CutShort(S)
        PROVE  CveInv'
    <3>1. S \in SUBSET fresh
      BY <2>3 DEF Matching, Searched
    <3> QED BY <2>3, <3>1, StayNews, CutShortKeeps
  <2>4. CASE CrashInCveCommits
    BY <2>4, CveCommitsKeep DEF CrashInCveCommits
  <2> QED BY <1>6, <2>1, <2>2, <2>3, <2>4 DEF Crash
<1>7. CASE UNCHANGED agentVars
  BY <1>1, <1>7, StayNews DEF agentVars, outboxVars
<1> QED BY <1>2, <1>3, <1>4, <1>5, <1>6, <1>7 DEF Next

-----------------------------------------------------------------------------

Inv ==
  /\ OutboxInv /\ ScanTyped /\ CveTyped
  /\ CveInv
  /\ Members # <<>> => AlertCoversSnapshot

LEMMA InitInv == Init => Inv
<1> SUFFICES ASSUME Init PROVE Inv
  OBVIOUS
<1>1. OutboxInv /\ ScanTyped /\ CveTyped
  BY AgentInit, OutboxInitInv
<1>2. Emails = {}
  BY DEF Init, OutboxInit, Emails
<1>3. CveInv
  BY <1>2 DEF Init, CveInit, NoCheck, CveInv, CheckEnds, MailedOnce, Asked, Passed, Recorded,
              AlertedOnce
<1>4. AlertCoversSnapshot
  BY DEF Init, ScanInit, Nothing, AlertCoversSnapshot
<1> QED BY <1>1, <1>3, <1>4 DEF Inv

LEMMA Invariance == Spec => []Inv
<1>1. Inv /\ [Next]_agentVars => Inv'
  BY StepRefines, OutboxStepKeeps, ScanTypedStep, CveTypedStep, CveInvStep, CoverStep
     DEF Inv, OutboxInv
<1> QED BY <1>1, InitInv, PTL DEF Spec

\* Every reachable state of the agent is well typed: rows, snapshot, window
\* and the checks at work.
THEOREM TypeCorrect == Spec => []TypeOK
<1>1. Inv => TypeOK
  BY DEF Inv, TypeOK, OutboxInv, OutboxTyped, ScanTyped, CveTyped, Scanning, Checking
<1> QED BY <1>1, Invariance, PTL

\* With both jobs filling the outbox, and deaths anywhere in their commits,
\* an email is delivered no more often than EmailOutbox allows.
THEOREM AgentDelivers == Spec => []DeliveriesBounded
<1> QED BY AgentImplementsOutbox, OutboxDelivers, PTL

\* Members know of all that the latest snapshot holds (run_watch_scan,
\* diff_findings), if the organisation has a member with an address.
THEOREM AlertsCover ==
  ASSUME Members # <<>>
  PROVE  Spec => []AlertCoversSnapshot
<1>1. Inv => AlertCoversSnapshot
  BY DEF Inv
<1> QED BY <1>1, Invariance, PTL

\* No member hears twice of a CVE (has_cve_alert, record_cve_alert), if no two
\* members share an address.
THEOREM CveToldOnce ==
  ASSUME Distinct
  PROVE  Spec => []AlertedOnce
<1>1. Inv => AlertedOnce
  BY DEF Inv, CveInv
<1> QED BY <1>1, Invariance, PTL

\* No CVE of a fingerprinted product disappears but in the ways CveAccounted
\* names (run_cve_watch_for_site).
THEOREM CvesAccounted ==
  ASSUME Members # <<>>
  PROVE  Spec => []CveAccounted
<1>1. Inv => CveAccounted
  <2> SUFFICES ASSUME Inv, NEW c \in known, NEW p \in fingerprint, Hits(c, p)
               PROVE  c \in fresh \cup cve.new \cup lost
                              \cup UNION {outbox[e].news : e \in Emails}
    BY DEF CveAccounted
  <2>1. p \in Products
    BY DEF Inv, ScanTyped
  <2>2. c \in fresh \/ c \in alerted \/ c \in lost
    BY <2>1 DEF Inv, CveInv, Passed
  <2>3. c \in alerted => c \in cve.new \/ c \in lost \/ InMail(c)
    BY DEF Inv, CveInv, Recorded
  <2> QED BY <2>2, <2>3 DEF InMail, Mentions
<1> QED BY <1>1, Invariance, PTL


-----------------------------------------------------------------------------
(* Versions and ranges.                                                    *)

\* Versions of up to three numbers below 10.
Numeral == {<<0, n>> : n \in 0..9}

Numbered == UNION {[1..k -> Numeral] : k \in 0..3}

LEMMA TokenFacts ==
  ASSUME NEW v \in Numbered
  PROVE  /\ Len(v) \in 0..3 /\ (v = Absent <=> Len(v) = 0)
         /\ \A i \in 1..3 : /\ Token(v, i)[1] = 0 /\ Token(v, i)[2] \in 0..9
                            /\ Token(v, i) = <<0, Token(v, i)[2]>>
                            /\ i > Len(v) => Token(v, i) = <<0, 0>>
<1>1. PICK k \in 0..3 : v \in [1..k -> Numeral]
  BY DEF Numbered
<1>2. v \in Seq(Numeral) /\ Len(v) = k
  BY <1>1
<1>3. v = <<>> <=> k = 0
  BY <1>1, <1>2
<1>4. ASSUME NEW i \in 1..3
      PROVE  \E n \in 0..9 : Token(v, i) = <<0, n>> /\ (i > k => n = 0)
  <2>1. CASE i <= k
    <3>1. v[i] \in Numeral
      BY <1>1, <2>1
    <3> QED BY <1>2, <2>1, <3>1 DEF Token, Numeral
  <2>2. CASE i > k
    BY <1>2, <2>2 DEF Token
  <2> QED BY <2>1, <2>2
<1>5. ASSUME NEW i \in 1..3
      PROVE  /\ Token(v, i)[1] = 0 /\ Token(v, i)[2] \in 0..9
             /\ Token(v, i) = <<0, Token(v, i)[2]>>
             /\ i > k => Token(v, i) = <<0, 0>>
  <2>1. PICK n \in 0..9 : Token(v, i) = <<0, n>> /\ (i > k => n = 0)
    BY <1>4
  <2>2. <<0, n>>[1] = 0 /\ <<0, n>>[2] = n
    OBVIOUS
  <2> QED BY <2>1, <2>2
<1> QED BY <1>2, <1>3, <1>5 DEF Absent

\* What comparing the weights says.
ByWeight(a, b) ==
  IF Weight(a) < Weight(b) THEN "less" ELSE IF Weight(a) > Weight(b) THEN "greater" ELSE "equal"

\* Comparing versions token by token compares their weights.
LEMMA NumbersCompare ==
  ASSUME NEW a \in Numbered, NEW b \in Numbered, a # Absent, b # Absent
  PROVE  CmpVersions(a, b) = ByWeight(a, b)
<1> DEFINE n == IF Len(a) < Len(b) THEN Len(b) ELSE Len(a)
           diff == {i \in 1..n : Token(a, i) # Token(b, i)}
           x(i) == Token(a, i)[2]
           y(i) == Token(b, i)[2]
           p == Weight(a)
           q == Weight(b)
<1>1. n \in 1..3 /\ diff \subseteq 1..3
  <2>1. Len(a) \in 0..3 /\ Len(a) # 0
    BY TokenFacts
  <2>2. Len(b) \in 0..3 /\ Len(b) # 0
    BY TokenFacts
  <2>3. n \in 1..3
    BY <2>1, <2>2
  <2> HIDE DEF n
  <2> QED BY <2>3
<1>2. ASSUME NEW i \in 1..3
      PROVE  /\ x(i) \in 0..9 /\ y(i) \in 0..9 /\ Token(a, i)[1] = Token(b, i)[1]
             /\ i \in diff <=> x(i) # y(i)
  <2>1. x(i) \in 0..9 /\ y(i) \in 0..9 /\ Token(a, i) = <<0, x(i)>> /\ Token(b, i) = <<0, y(i)>>
    BY TokenFacts
  <2>2. Token(a, i)[1] = 0 /\ Token(b, i)[1] = 0
    BY TokenFacts
  <2>3. i > n => Token(a, i) = Token(b, i)
    BY TokenFacts
  <2> HIDE DEF x, y
  <2>4. Token(a, i) = Token(b, i) <=> x(i) = y(i)
    BY <2>1
  <2>5. i \in diff <=> Token(a, i) # Token(b, i)
    BY <1>1, <2>3
  <2> QED BY <2>1, <2>2, <2>4, <2>5
<1>3. /\ x(1) \in 0..9 /\ x(2) \in 0..9 /\ x(3) \in 0..9
      /\ y(1) \in 0..9 /\ y(2) \in 0..9 /\ y(3) \in 0..9
  BY <1>2
<1>4. p = x(1) * 100 + x(2) * 10 + x(3) /\ q = y(1) * 100 + y(2) * 10 + y(3)
  BY DEF Weight
<1>5. ByWeight(a, b) = IF p < q THEN "less" ELSE IF p > q THEN "greater" ELSE "equal"
  BY DEF ByWeight
<1>6. diff = {} => CmpVersions(a, b) = "equal"
  BY DEF CmpVersions
<1>7. ASSUME diff # {}
      PROVE  \E i \in diff : /\ \A j \in diff : i <= j
                             /\ CmpVersions(a, b) = IF x(i) < y(i) THEN "less" ELSE "greater"
  <2> DEFINE i == CHOOSE i \in diff : \A j \in diff : i <= j
  <2>1. \E k \in diff : \A j \in diff : k <= j
    <3> HIDE DEF diff
    <3>1. 1 \in diff \/ 2 \in diff \/ 3 \in diff
      <4>1. PICK k \in diff : TRUE
        BY <1>7
      <4>2. k = 1 \/ k = 2 \/ k = 3
        BY <1>1
      <4> QED BY <4>1, <4>2
    <3>2. 1 \in diff => \A j \in diff : 1 <= j
      BY <1>1
    <3>3. 1 \notin diff => \A j \in diff : 2 <= j
      BY <1>1
    <3>4. 1 \notin diff /\ 2 \notin diff => \A j \in diff : 3 <= j
      BY <1>1
    <3> QED BY <3>1, <3>2, <3>3, <3>4
  <2>2. i \in diff /\ \A j \in diff : i <= j
    BY <2>1, Zenon
  <2>3. CmpVersions(a, b) = IF Token(a, i)[1] # Token(b, i)[1] THEN "raise"
                            ELSE IF Token(a, i)[2] < Token(b, i)[2] THEN "less" ELSE "greater"
    BY <1>7 DEF CmpVersions
  <2> HIDE DEF i, diff
  <2> QED BY <1>1, <1>2, <2>2, <2>3
<1> HIDE DEF n, diff, x, y, p, q
<1>8. /\ p \in Int /\ q \in Int
      /\ x(1) = y(1) /\ x(2) = y(2) /\ x(3) = y(3) => p = q
      /\ x(1) < y(1) => p < q
      /\ x(1) = y(1) /\ x(2) < y(2) => p < q
      /\ x(1) = y(1) /\ x(2) = y(2) /\ x(3) < y(3) => p < q
      /\ y(1) < x(1) => q < p
      /\ x(1) = y(1) /\ y(2) < x(2) => q < p
      /\ x(1) = y(1) /\ x(2) = y(2) /\ y(3) < x(3) => q < p
  <2>1. PICK x1 \in 0..9 : x1 = x(1)
    BY <1>3
  <2>2. PICK x2 \in 0..9 : x2 = x(2)
    BY <1>3
  <2>3. PICK x3 \in 0..9 : x3 = x(3)
    BY <1>3
  <2>4. PICK y1 \in 0..9 : y1 = y(1)
    BY <1>3
  <2>5. PICK y2 \in 0..9 : y2 = y(2)
    BY <1>3
  <2>6. PICK y3 \in 0..9 : y3 = y(3)
    BY <1>3
  <2>7. p = x1 * 100 + x2 * 10 + x3 /\ q = y1 * 100 + y2 * 10 + y3
    BY <1>4, <2>1, <2>2, <2>3, <2>4, <2>5, <2>6
  <2>8. /\ p \in Int /\ q \in Int
        /\ x1 = y1 /\ x2 = y2 /\ x3 = y3 => p = q
        /\ x1 < y1 => p < q
        /\ x1 = y1 /\ x2 < y2 => p < q
        /\ x1 = y1 /\ x2 = y2 /\ x3 < y3 => p < q
        /\ y1 < x1 => q < p
        /\ x1 = y1 /\ y2 < x2 => q < p
        /\ x1 = y1 /\ x2 = y2 /\ y3 < x3 => q < p
    BY <2>7
  <2> QED BY <2>1, <2>2, <2>3, <2>4, <2>5, <2>6, <2>8
<1>9. CASE diff = {}
  <2>1. x(1) = y(1) /\ x(2) = y(2) /\ x(3) = y(3)
    BY <1>2, <1>9
  <2> QED BY <1>5, <1>6, <1>8, <1>9, <2>1
<1>10. CASE diff # {}
  <2>1. PICK i \in diff : /\ \A j \in diff : i <= j
                          /\ CmpVersions(a, b) = IF x(i) < y(i) THEN "less" ELSE "greater"
    BY <1>7, <1>10
  <2>2. \A j \in 1..3 : j < i => x(j) = y(j)
    BY <1>1, <1>2, <2>1
  <2>3. i \in 1..3 /\ x(i) # y(i) /\ x(i) \in Int /\ y(i) \in Int
    BY <1>1, <1>2, <2>1
  <2>4. (x(i) < y(i) => p < q) /\ (y(i) < x(i) => q < p)
    <3>1. CASE i = 1
      BY <1>8, <3>1
    <3>2. CASE i = 2
      <4>1. x(1) = y(1)
        BY <2>2, <3>2
      <4> QED BY <1>8, <3>2, <4>1
    <3>3. CASE i = 3
      <4>1. x(1) = y(1) /\ x(2) = y(2)
        BY <2>2, <3>3
      <4> QED BY <1>8, <3>3, <4>1
    <3> QED BY <2>3, <3>1, <3>2, <3>3
  <2> QED BY <1>5, <1>8, <2>1, <2>3, <2>4
<1> QED BY <1>9, <1>10

\* Ranges with numbered bounds, and no version of the CPE's own.
NumberedRanges ==
  [exact: {Absent}, startIncluding: Numbered, startExcluding: Numbered,
   endIncluding: Numbered, endExcluding: Numbered]

LEMMA BoundFacts ==
  /\ Bounds[1] = "startIncluding" /\ Bounds[2] = "startExcluding"
  /\ Bounds[3] = "endIncluding" /\ Bounds[4] = "endExcluding"
  /\ Rejects[Bounds[1]] = {"less"} /\ Rejects[Bounds[2]] = {"less", "equal"}
  /\ Rejects[Bounds[3]] = {"greater"} /\ Rejects[Bounds[4]] = {"greater", "equal"}
BY DEF Bounds, Rejects

\* version_in_range takes a version of up to three numbers exactly when every
\* bound that is given, each of up to three numbers, allows it.
THEOREM NumberedRangesAgree ==
  ASSUME NEW v \in Numbered \ {Absent}, NEW r \in NumberedRanges
  PROVE  VersionInRange(v, r) = IF InRangeByWeight(v, r) THEN "yes" ELSE "no"
<1> DEFINE given == {i \in 1..4 : r[Bounds[i]] # Absent}
           cmp(i) == CmpVersions(v, r[Bounds[i]])
           objects == {i \in 1..4 : /\ r[Bounds[i]] # Absent
                                    /\ cmp(i) \in Rejects[Bounds[i]] \cup {"raise"}}
<1>1. \A i \in 1..4 : r[Bounds[i]] \in Numbered
  BY BoundFacts DEF NumberedRanges
<1>2. Weight(v) \in Nat /\ \A i \in 1..4 : Weight(r[Bounds[i]]) \in Nat
  <2>1. \A w \in Numbered : Weight(w) \in Nat
    <3> SUFFICES ASSUME NEW w \in Numbered PROVE Weight(w) \in Nat
      OBVIOUS
    <3>1. PICK x \in 0..9 : x = Token(w, 1)[2]
      BY TokenFacts
    <3>2. PICK y \in 0..9 : y = Token(w, 2)[2]
      BY TokenFacts
    <3>3. PICK z \in 0..9 : z = Token(w, 3)[2]
      BY TokenFacts
    <3>4. Weight(w) = x * 100 + y * 10 + z
      BY <3>1, <3>2, <3>3 DEF Weight
    <3> QED BY <3>4
  <2> QED BY <1>1, <2>1
<1>3. \A i \in given : cmp(i) = ByWeight(v, r[Bounds[i]])
  BY <1>1, NumbersCompare
<1>4. InRangeByWeight(v, r) <=>
        /\ given # {}
        /\ 1 \in given => Weight(v) >= Weight(r[Bounds[1]])
        /\ 2 \in given => Weight(v) >  Weight(r[Bounds[2]])
        /\ 3 \in given => Weight(v) <= Weight(r[Bounds[3]])
        /\ 4 \in given => Weight(v) <  Weight(r[Bounds[4]])
  <2>1. (\E b \in {Bounds[i] : i \in 1..4} : r[b] # Absent) <=> given # {}
    OBVIOUS
  <2> QED BY <2>1, BoundFacts DEF InRangeByWeight
<1>5. objects = {} <=>
        /\ 1 \in given => Weight(v) >= Weight(r[Bounds[1]])
        /\ 2 \in given => Weight(v) >  Weight(r[Bounds[2]])
        /\ 3 \in given => Weight(v) <= Weight(r[Bounds[3]])
        /\ 4 \in given => Weight(v) <  Weight(r[Bounds[4]])
  <2>1. 1 \in objects <=> 1 \in given /\ Weight(v) < Weight(r[Bounds[1]])
    BY <1>2, <1>3, BoundFacts DEF ByWeight
  <2>2. 2 \in objects <=> 2 \in given /\ Weight(v) <= Weight(r[Bounds[2]])
    BY <1>2, <1>3, BoundFacts DEF ByWeight
  <2>3. 3 \in objects <=> 3 \in given /\ Weight(v) > Weight(r[Bounds[3]])
    BY <1>2, <1>3, BoundFacts DEF ByWeight
  <2>4. 4 \in objects <=> 4 \in given /\ Weight(v) >= Weight(r[Bounds[4]])
    BY <1>2, <1>3, BoundFacts DEF ByWeight
  <2>5. objects = {} <=> 1 \notin objects /\ 2 \notin objects /\ 3 \notin objects /\ 4 \notin objects
    OBVIOUS
  <2>6. \A i \in 1..4 : Weight(r[Bounds[i]]) \in Nat
    BY <1>2
  <2> HIDE DEF objects, given
  <2> QED BY <1>2, <2>1, <2>2, <2>3, <2>4, <2>5, <2>6
<1>6. objects # {} => FirstObjection(v, r) \notin {"none", "raise"}
  <2> SUFFICES ASSUME objects # {} PROVE FirstObjection(v, r) \notin {"none", "raise"}
    OBVIOUS
  <2> DEFINE i == CHOOSE i \in objects : \A j \in objects : i <= j
  <2>1. \E k \in objects : \A j \in objects : k <= j
    <3>1. 1 \in objects \/ 2 \in objects \/ 3 \in objects \/ 4 \in objects
      OBVIOUS
    <3>2. objects \subseteq 1..4
      OBVIOUS
    <3> HIDE DEF objects
    <3>3. 1 \in objects => \A j \in objects : 1 <= j
      BY <3>2
    <3>4. 1 \notin objects => \A j \in objects : 2 <= j
      BY <3>2
    <3>5. 1 \notin objects /\ 2 \notin objects => \A j \in objects : 3 <= j
      BY <3>2
    <3>6. 1 \notin objects /\ 2 \notin objects /\ 3 \notin objects => \A j \in objects : 4 <= j
      BY <3>2
    <3> QED BY <3>1, <3>3, <3>4, <3>5, <3>6
  <2>2. i \in objects
    BY <2>1, Zenon
  <2>3. FirstObjection(v, r) = cmp(i)
    BY DEF FirstObjection
  <2>4. i \in given
    BY <2>2
  <2>5. cmp(i) \in {"less", "greater", "equal"}
    BY <1>3, <2>4 DEF ByWeight
  <2> QED BY <2>3, <2>5
<1>7. objects = {} => FirstObjection(v, r) = "none"
  BY DEF FirstObjection
<1>8. r.exact = Absent
  BY DEF NumberedRanges
<1>9. VersionInRange(v, r) = IF given = {} THEN "no"
                             ELSE IF FirstObjection(v, r) = "raise" THEN "raise"
                             ELSE IF FirstObjection(v, r) = "none" THEN "yes" ELSE "no"
  BY <1>8 DEF VersionInRange
<1> QED BY <1>4, <1>5, <1>6, <1>7, <1>9

\* The versions and the ranges of the model are such, so a CVE is matched to a
\* version as the order of its numbers says.
THEOREM RangesAlwaysAgree == MCSpec => []RangesAgree
<1>1. Bound \subseteq Numbered
  <2>1. [1..1 -> Numeral] \subseteq Numbered /\ [1..2 -> Numeral] \subseteq Numbered
    BY DEF Numbered
  <2>2. ASSUME NEW a \in 0..1, NEW b \in 0..1
        PROVE  <<<<0, a>>>> \in Numbered /\ V(a, b) \in Numbered
    <3>1. <<0, a>> \in Numeral /\ <<0, b>> \in Numeral
      BY DEF Numeral
    <3>2. \A s, t \in Numeral : <<s>> \in [1..1 -> Numeral] /\ <<s, t>> \in [1..2 -> Numeral]
      OBVIOUS
    <3> QED BY <2>1, <3>1, <3>2 DEF V
  <2>3. <<>> \in Numbered
    <3>1. <<>> \in [1..0 -> Numeral]
      OBVIOUS
    <3> QED BY <3>1 DEF Numbered
  <2> QED BY <2>2, <2>3 DEF Bound
<1>2. MCInit => (slice = "ranges" => sample.version \in Numbered \ {Absent} /\ sample.range \in NumberedRanges)
  BY <1>1 DEF MCInit, Samples, NumberedRanges
<1> DEFINE Sampled == slice = "ranges" => sample.version \in Numbered \ {Absent} /\ sample.range \in NumberedRanges
<1>3. Sampled /\ [MCNext]_<<agentVars, slice, sample>> => Sampled'
  BY DEF MCNext
<1>4. Sampled => RangesAgree
  BY NumberedRangesAgree DEF RangesAgree
<1> HIDE DEF Sampled
<1>5. MCInit => Sampled
  BY <1>2 DEF Sampled
<1> QED BY <1>3, <1>4, <1>5, PTL DEF MCSpec
=============================================================================
